--------------------------- MODULE Monitor_proofs ---------------------------
(***************************************************************************)
(* Proofs of what module Synch promises its callers, for any number of     *)
(* threads, semaphores, locks and conditions: no V is lost, and locks with *)
(* their conditions are the monitor that synch.h describes.                *)
(***************************************************************************)
EXTENDS Synch_proofs, FiniteSetTheorems

-----------------------------------------------------------------------------
(* Semaphores lose no wakeup.                                              *)

\* A call of an operation by the current thread is a region that wakes threads
\* that sleep, and in which only the current thread changes its call.
LEMMA OperationIsRegion ==
  ASSUME SynchInv,
         \/ \E s \in Semaphore : P(s) \/ V(s)
         \/ \E l \in Lock : Acquire(l) \/ Release(l)
         \/ \E c \in Condition : Wait(c) \/ Signal(c) \/ Broadcast(c)
  PROVE  \E woken \in SUBSET Sleepers :
           Returns(woken) \/ \E inCall \in Call : SleepsIn(inCall, woken)
<1> DEFINE Goal == \E woken \in SUBSET Sleepers :
                     Returns(woken) \/ \E inCall \in Call : SleepsIn(inCall, woken)
<1>1. ASSUME NEW woken \in SUBSET Sleepers, Returns(woken)
      PROVE  Goal
  BY <1>1, Zenon
<1>2. ASSUME NEW woken \in SUBSET Sleepers, NEW inCall \in Call, SleepsIn(inCall, woken)
      PROVE  Goal
  BY <1>2, Zenon
<1> HIDE DEF Goal
<1> USE WaitersSleep DEF SynchInv
<1>3. ASSUME NEW s \in Semaphore, P(s) \/ V(s)
      PROVE  Goal
  BY <1>1, <1>2, <1>3, CallsDiffer, Zenon DEF P, PSleeps, PReturns, V
<1>4. ASSUME NEW l \in Lock, Acquire(l) \/ Release(l)
      PROVE  Goal
  BY <1>1, <1>2, <1>4, CallsDiffer, Zenon DEF Acquire, AcquireSleeps, AcquireReturns, Release
<1>5. ASSUME NEW c \in Condition, Wait(c) \/ Signal(c) \/ Broadcast(c)
      PROVE  Goal
  BY <1>1, <1>2, <1>5, CallsDiffer, SynchAssumption, Zenon DEF Wait, Signal, Broadcast
<1>6. QED
  BY <1>3, <1>4, <1>5, Zenon DEF Goal

\* A thread woken in a call leaves it only by going on with it.
LEMMA WokenStay ==
  ASSUME SynchInv, [SynchNext]_allVars, NEW k \in Call \ {NoCall}
  PROVE  /\ WokenIn(k) \ {currentThread} \subseteq WokenIn(k)'
         /\ call[currentThread] # k => WokenIn(k) \subseteq WokenIn(k)'
<1> USE DEF SynchInv
<1>1. call[currentThread] # k => currentThread \notin WokenIn(k)
  BY DEF WokenIn
<1>2. CASE SchedStep \/ UNCHANGED allVars
  BY <1>2, SchedStepCalls
<1>3. ASSUME NEW s \in Semaphore, VInHandler(s) \/ VThenFinish(s)
      PROVE  WokenIn(k) \subseteq WokenIn(k)'
  <2>1. Handler(Waiter(semQueue[s])) \/ Finish(Waiter(semQueue[s]))
    BY <1>3 DEF VInHandler, VThenFinish
  <2>2. Waiter(semQueue[s]) \in SUBSET Sleepers /\ UNCHANGED call
    BY <1>3, WaitersSleep DEF VInHandler, VThenFinish
  <2>3. WokenIn(k)' = WokenIn(k) \cup {t \in Waiter(semQueue[s]) : call[t] = k}
    BY <2>1, <2>2, WakeCalls, Zenon
  <2>4. QED
    BY <2>3
<1>4. ASSUME \/ \E s \in Semaphore : P(s) \/ V(s)
             \/ \E l \in Lock : Acquire(l) \/ Release(l)
             \/ \E c \in Condition : Wait(c) \/ Signal(c) \/ Broadcast(c)
      PROVE  WokenIn(k) \ {currentThread} \subseteq WokenIn(k)'
  <2>1. PICK woken \in SUBSET Sleepers :
          Returns(woken) \/ \E inCall \in Call : SleepsIn(inCall, woken)
    BY <1>4, OperationIsRegion, Zenon
  <2>2. \A j \in Call \ {NoCall} :
          WokenIn(j)' = (WokenIn(j) \ {currentThread}) \cup {t \in woken : call[t] = j}
    <3>1. CASE Returns(woken)
      <4>1. Region(woken, FALSE) /\ call' = [call EXCEPT ![currentThread] = NoCall] /\ NoCall \in Call
        BY <3>1, CallsDiffer, Zenon DEF Returns
      <4>2. QED
        BY <4>1, RegionCalls
    <3>2. ASSUME NEW inCall \in Call, SleepsIn(inCall, woken)
          PROVE  \A j \in Call \ {NoCall} :
                   WokenIn(j)' = (WokenIn(j) \ {currentThread}) \cup {t \in woken : call[t] = j}
      <4>1. Region(woken, TRUE) /\ call' = [call EXCEPT ![currentThread] = inCall]
        BY <3>2, Zenon DEF SleepsIn
      <4>2. QED
        BY <4>1, RegionCalls
    <3>3. QED
      BY <2>1, <3>1, <3>2, Zenon
  <2>3. QED
    BY <2>2
<1>5. WokenIn(k) \ {currentThread} \subseteq WokenIn(k)'
  BY <1>2, <1>3, <1>4, Zenon DEF SynchNext, SynchStep
<1>6. QED
  BY <1>1, <1>5

\* V of a semaphore adds its waiter to the threads woken in P.
LEMMA VWakes ==
  ASSUME SynchInv, NEW s \in Semaphore, V(s) \/ VInHandler(s) \/ VThenFinish(s)
  PROVE  WokenIn(InP(s))' = WokenIn(InP(s)) \cup Waiter(semQueue[s])
<1> USE DEF SynchInv
<1>1. /\ Waiter(semQueue[s]) \in SUBSET Sleepers
      /\ {t \in Waiter(semQueue[s]) : call[t] = InP(s)} = Waiter(semQueue[s])
      /\ InP(s) \in Call \ {NoCall} /\ NoCall \in Call
  BY WaitersSleep, CallsDiffer
<1>2. CASE V(s)
  <2>1. /\ Region(Waiter(semQueue[s]), FALSE) /\ call' = [call EXCEPT ![currentThread] = NoCall]
        /\ Enters({})
    BY <1>2, Zenon DEF V, Returns
  <2>2. currentThread \notin WokenIn(InP(s))
    BY <2>1, <1>1 DEF Enters, WokenIn
  <2>3. WokenIn(InP(s))' = (WokenIn(InP(s)) \ {currentThread})
                             \cup {t \in Waiter(semQueue[s]) : call[t] = InP(s)}
    <3>1. \A k \in Call \ {NoCall} :
            WokenIn(k)' = (WokenIn(k) \ {currentThread})
                            \cup {t \in Waiter(semQueue[s]) : call[t] = k}
      BY <2>1, <1>1, RegionCalls
    <3>2. QED
      BY <1>1, <3>1, Zenon
  <2>4. QED
    BY <2>2, <2>3, <1>1
<1>3. CASE VInHandler(s) \/ VThenFinish(s)
  <2>1. (Handler(Waiter(semQueue[s])) \/ Finish(Waiter(semQueue[s]))) /\ UNCHANGED call
    BY <1>3 DEF VInHandler, VThenFinish
  <2>2. WokenIn(InP(s))' = WokenIn(InP(s)) \cup {t \in Waiter(semQueue[s]) : call[t] = InP(s)}
    BY <2>1, <1>1, WakeCalls, Zenon
  <2>3. QED
    BY <2>2, <1>1
<1>4. QED
  BY <1>2, <1>3

\* The inductive invariant with the semaphores' wakeups.  A thread that takes
\* the last unit need not be the one that was woken for it; the woken one then
\* goes to sleep again with value 0, which is why both are counted.
LEMMA SemaphoreWakeups ==
  ASSUME SynchInv, SemaphoreNoLostWakeup, [SynchNext]_allVars
  PROVE  SemaphoreNoLostWakeup'
<1> USE DEF SynchInv
<1> SUFFICES ASSUME NEW s \in Semaphore, semQueue'[s] # <<>>
             PROVE  value'[s] <= Cardinality(WokenIn(InP(s))')
  BY DEF SemaphoreNoLostWakeup
<1> DEFINE W == WokenIn(InP(s))
<1>0. /\ IsFiniteSet(W) /\ IsFiniteSet(W') /\ Cardinality(W) \in Nat /\ Cardinality(W') \in Nat
  <2>1. W \in SUBSET Thread /\ W' \in SUBSET Thread
    BY DEF WokenIn
  <2> HIDE DEF W
  <2>2. IsFiniteSet(W) /\ IsFiniteSet(W')
    BY <2>1, ThreadsFinite, FS_Subset
  <2>3. QED
    BY <2>2, FS_CardinalityType
<1>1. /\ InP(s) \in Call \ {NoCall}
      /\ value \in [Semaphore -> Nat] /\ semQueue \in [Semaphore -> Seq(Thread)]
      /\ semQueue[s] # <<>> => value[s] <= Cardinality(W)
      /\ currentThread \in Thread
  BY CallsDiffer DEF SynchTypeOK, SemaphoreNoLostWakeup, SchedInv, SchedTypeOK
<1>2. CASE PSleeps(s)
  <2>1. value'[s] = 0
    BY <1>2 DEF PSleeps
  <2>2. QED
    BY <2>1, <1>0
<1>3. ASSUME PReturns(s)
      PROVE  value'[s] <= Cardinality(W')
  <2>1. value'[s] = value[s] - 1 /\ semQueue'[s] = semQueue[s]
    BY <1>3, <1>1 DEF PReturns
  <2>2. W \ {currentThread} \subseteq W'
    BY WokenStay, <1>1
  <2> HIDE DEF W
  <2>3. Cardinality(W \ {currentThread}) <= Cardinality(W')
    BY <2>2, <1>0, FS_Subset
  <2>4. Cardinality(W \ {currentThread}) = IF currentThread \in W THEN Cardinality(W) - 1
                                            ELSE Cardinality(W)
    BY <1>0, FS_RemoveElement, Zenon
  <2>5. Cardinality(W \ {currentThread}) \in Nat
    BY <1>0, FS_RemoveElement, FS_CardinalityType
  <2>6. QED
    BY <2>1, <2>3, <2>4, <2>5, <1>0, <1>1
<1>4. ASSUME V(s) \/ VInHandler(s) \/ VThenFinish(s)
      PROVE  value'[s] <= Cardinality(W')
  <2>1. value'[s] = value[s] + 1 /\ semQueue'[s] = Rest(semQueue[s])
    BY <1>4, <1>1 DEF V, VInHandler, VThenFinish, VEffect
  <2>2. semQueue[s] # <<>> /\ Waiter(semQueue[s]) = {Head(semQueue[s])}
    BY <2>1 DEF Rest, Waiter
  <2>3. W' = W \cup {Head(semQueue[s])}
    BY <1>4, <2>2, VWakes
  <2>4. Head(semQueue[s]) \notin W
    BY <2>2, WaitersSleep DEF Sleepers, WokenIn
  <2> HIDE DEF W
  <2>5. Cardinality(W') = Cardinality(W) + 1
    BY <2>3, <2>4, <1>0, FS_AddElement
  <2>6. QED
    BY <2>1, <2>2, <2>5, <1>0, <1>1
<1>5. ASSUME value'[s] = value[s], semQueue'[s] = semQueue[s], W \subseteq W'
      PROVE  value'[s] <= Cardinality(W')
  <2> HIDE DEF W
  <2>1. Cardinality(W) <= Cardinality(W')
    BY <1>5, <1>0, FS_Subset
  <2>2. QED
    BY <2>1, <1>5, <1>0, <1>1
<1>6. CASE SchedStep \/ UNCHANGED allVars
  <2>1. UNCHANGED <<value, semQueue>> 
    BY <1>6 DEF SchedStep, allVars, synchVars, semVars
  <2>2. W' = W
    BY <1>6, <1>1, SchedStepCalls
  <2>3. QED
    BY <2>1, <2>2, <1>5
<1>7. ASSUME NEW r \in Semaphore, r # s, P(r) \/ V(r) \/ VInHandler(r) \/ VThenFinish(r)
      PROVE  value'[s] <= Cardinality(W')
  <2>1. value'[s] = value[s] /\ semQueue'[s] = semQueue[s]
    BY <1>7, <1>1, SMTT(30) DEF P, PSleeps, PReturns, V, VInHandler, VThenFinish, VEffect
  <2>2. W \subseteq W'
    <3>1. CASE VInHandler(r) \/ VThenFinish(r)
      <4>1. (Handler(Waiter(semQueue[r])) \/ Finish(Waiter(semQueue[r]))) /\ UNCHANGED call
        BY <3>1 DEF VInHandler, VThenFinish
      <4>2. Waiter(semQueue[r]) \in SUBSET Sleepers
        BY WaitersSleep
      <4>3. W' = W \cup {t \in Waiter(semQueue[r]) : call[t] = InP(s)}
        BY <4>1, <4>2, <1>1, WakeCalls, Zenon
      <4>4. QED
        BY <4>3
    <3>2. CASE P(r) \/ V(r)
      <4>1. Enters({InP(r)})
        BY <3>2, SMTT(30) DEF P, PSleeps, PReturns, V, Enters
      <4>2. call[currentThread] # InP(s)
        BY <4>1, <1>7, <1>1, CallsDiffer DEF Enters
      <4>3. QED
        BY <4>2, WokenStay, <1>1
    <3>3. QED
      BY <1>7, <3>1, <3>2
  <2>3. QED
    BY <2>1, <2>2, <1>5
<1>8. ASSUME \/ \E l \in Lock : Acquire(l) \/ Release(l)
             \/ \E c \in Condition : Wait(c) \/ Signal(c) \/ Broadcast(c)
      PROVE  value'[s] <= Cardinality(W')
  <2>1. UNCHANGED <<value, semQueue>>
    BY <1>8, SMTT(30) DEF Acquire, AcquireSleeps, AcquireReturns, Release, Wait, Signal, Broadcast, semVars
  <2>2. call[currentThread] # InP(s)
    <3>1. CASE \E l \in Lock : Acquire(l)
      <4>1. PICK l \in Lock : Enters(AcquireCalls(l))
        BY <3>1, Zenon DEF Acquire, AcquireSleeps, AcquireReturns
      <4>2. QED
        BY <4>1, CallsDiffer DEF Enters, AcquireCalls
    <3>2. CASE ~\E l \in Lock : Acquire(l)
      <4>1. Enters({})
        BY <3>2, <1>8, Zenon DEF Release, Wait, Signal, Broadcast
      <4>2. QED
        BY <4>1, <1>1 DEF Enters
    <3>3. QED
      BY <3>1, <3>2
  <2>3. QED
    BY <2>1, <2>2, WokenStay, <1>1, <1>5
<1>9. QED
  <2> HIDE DEF W
  <2>1. CASE \E r \in Semaphore : P(r) \/ V(r) \/ VInHandler(r) \/ VThenFinish(r)
    BY <2>1, <1>2, <1>3, <1>4, <1>7, Zenon DEF P, W
  <2>2. QED
    BY <2>1, <1>6, <1>8, Zenon DEF SynchNext, SynchStep, W

\* While threads sleep on a semaphore as many woken threads are on their way to
\* take its units as there are units: no V is lost, whichever threads take
\* units in between.
THEOREM SemaphoreNoLostWakeupTheorem == SynchSpec => []SemaphoreNoLostWakeup
<1>1. AllInit => SemaphoreNoLostWakeup
  BY DEF AllInit, SynchInit, SemaphoreNoLostWakeup
<1>2. SynchInv /\ SemaphoreNoLostWakeup /\ [SynchNext]_allVars => SemaphoreNoLostWakeup'
  BY SemaphoreWakeups
<1>3. QED
  BY <1>1, <1>2, SynchInitInv, SynchStepInv, PTL DEF SynchSpec, AllInit

-----------------------------------------------------------------------------
(* Locks and conditions implement the monitor.                             *)

\* The threads that have to enter l: those inside Acquire of l, and those a
\* Signal has let go.
LEMMA EnteringIs ==
  /\ Entering \in [Lock -> SUBSET Thread]
  /\ \A l \in Lock, t \in Thread :
       t \in Entering[l] <=> \/ call[t] = InAcquire(l)
                             \/ \E c \in Condition : /\ conditionLock[c] = l
                                                     /\ call[t] = InWait(c)
                                                     /\ t \notin Sleepers
  BY DEF Entering

LEMMA EnteringPointwise ==
  /\ Entering = [l \in Lock |-> Entering[l]]
  /\ Entering' = [l \in Lock |-> Entering[l]']
  BY DEF Entering

\* A call that returns lets go the threads it woke, if they were in a Wait.
LEMMA ReturnEntering ==
  ASSUME SynchInv, NEW from \in Call, NEW woken \in SUBSET AsleepIn(from), Returns(woken)
  PROVE  \A l \in Lock :
           Entering[l]' = (Entering[l] \ {currentThread})
                            \cup (IF \E c \in Condition : conditionLock[c] = l /\ from = InWait(c)
                                  THEN woken ELSE {})
<1>1. /\ currentThread \in Thread /\ currentThread \notin Sleepers
      /\ \A t \in woken : t \in Thread /\ t \in Sleepers /\ call[t] = from
      /\ call \in [Thread -> Call]
  BY Zenon DEF SynchInv, SchedInv, SchedTypeOK, SynchTypeOK, Returns, Region, Sleepers, AsleepIn
<1>2. /\ \A t \in Thread : call'[t] = IF t = currentThread THEN NoCall ELSE call[t]
      /\ \A t \in Thread : t \in Sleepers' <=> t \in Sleepers /\ t \notin woken
  <2>1. Region(woken, FALSE) /\ call' = [call EXCEPT ![currentThread] = NoCall]
    BY DEF Returns
  <2>2. /\ machineState' = machineState
        /\ \A t \in Thread : status'[t] = IF t \in woken THEN "READY" ELSE status[t]
    BY <2>1 DEF Region, SetStatus, SynchInv, SchedInv, SchedTypeOK
  <2>3. QED
    BY <1>1, <2>1, <2>2 DEF Sleepers
<1>3. ASSUME NEW l \in Lock, NEW t \in Thread
      PROVE  t \in Entering[l]' <=> \/ t \in Entering[l] /\ t # currentThread
                                    \/ /\ t \in woken
                                       /\ \E c \in Condition : conditionLock[c] = l /\ from = InWait(c)
  <2>1. t \in Entering[l]' <=> \/ call'[t] = InAcquire(l)
                               \/ \E c \in Condition : /\ conditionLock[c] = l
                                                       /\ call'[t] = InWait(c)
                                                       /\ t \notin Sleepers'
    BY DEF Entering
  <2>2. CASE t = currentThread
    BY <2>1, <2>2, <1>1, <1>2, CallsDiffer
  <2>3. CASE t # currentThread
    BY <2>1, <2>3, <1>1, <1>2, EnteringIs
  <2>4. QED
    BY <2>2, <2>3
<1>4. \A l \in Lock : Entering[l]' \subseteq Thread /\ Entering[l] \subseteq Thread
  BY DEF Entering
<1>5. QED
  BY <1>1, <1>3, <1>4

\* A call that goes to sleep keeps the current thread among those that have to
\* enter only if it sleeps in Acquire; the threads it wakes were in Acquire.
LEMMA SleepEntering ==
  ASSUME SynchInv, NEW inCall \in Call, NEW l0 \in Lock, NEW woken \in SUBSET AsleepIn(InAcquire(l0)),
         SleepsIn(inCall, woken)
  PROVE  \A l \in Lock :
           Entering[l]' = (Entering[l] \ {currentThread})
                            \cup (IF inCall = InAcquire(l) THEN {currentThread} ELSE {})
<1>1. /\ currentThread \in Thread /\ currentThread \notin Sleepers
      /\ \A t \in woken : t \in Thread /\ t \in Sleepers /\ call[t] = InAcquire(l0)
      /\ call \in [Thread -> Call]
  BY Zenon DEF SynchInv, SchedInv, SchedTypeOK, SynchTypeOK, SleepsIn, Region, Sleepers, AsleepIn
<1>2. /\ \A t \in Thread : call'[t] = IF t = currentThread THEN inCall ELSE call[t]
      /\ \A t \in Thread : t \in Sleepers' <=> t = currentThread \/ (t \in Sleepers /\ t \notin woken)
  <2>1. Region(woken, TRUE) /\ call' = [call EXCEPT ![currentThread] = inCall]
    BY DEF SleepsIn
  <2>2. /\ \A t \in Thread : machineState'[t] = IF t = currentThread THEN "Sleep" ELSE machineState[t]
        /\ \A t \in Thread : status'[t] = IF t \in woken THEN "READY"
                                          ELSE IF t = currentThread THEN "BLOCKED" ELSE status[t]
    BY <2>1 DEF Region, SetStatus, SynchInv, SchedInv, SchedTypeOK
  <2>3. QED
    BY <1>1, <2>1, <2>2 DEF Sleepers
<1>3. ASSUME NEW l \in Lock, NEW t \in Thread
      PROVE  t \in Entering[l]' <=> \/ t \in Entering[l] /\ t # currentThread
                                    \/ t = currentThread /\ inCall = InAcquire(l)
  <2>1. t \in Entering[l]' <=> \/ call'[t] = InAcquire(l)
                               \/ \E c \in Condition : /\ conditionLock[c] = l
                                                       /\ call'[t] = InWait(c)
                                                       /\ t \notin Sleepers'
    BY DEF Entering
  <2>2. CASE t = currentThread
    BY <2>1, <2>2, <1>1, <1>2
  <2>3. CASE t # currentThread /\ t \notin woken
    BY <2>1, <2>3, <1>1, <1>2, EnteringIs
  <2>4. CASE t \in woken
    BY <2>1, <2>4, <1>1, <1>2, EnteringIs, CallsDiffer
  <2>5. QED
    BY <2>2, <2>3, <2>4
<1>4. \A l \in Lock : Entering[l]' \subseteq Thread /\ Entering[l] \subseteq Thread
  BY DEF Entering
<1>5. QED
  BY <1>1, <1>3, <1>4

\* A thread that is in no call of Acquire or Wait has nothing to enter, and a
\* thread that is not asleep waits on no condition.
LEMMA NotEntering ==
  ASSUME SynchInv, NEW t \in Thread
  PROVE  /\ (call[t] = NoCall \/ \E s \in Semaphore : call[t] = InP(s)) =>
              \A l \in Lock : t \notin Entering[l]
         /\ t \notin Sleepers => ~Mesa!Waits(t)
         /\ t \notin Sleepers /\ call[t] = NoCall => Mesa!Free(t)
<1>1. (call[t] = NoCall \/ \E s \in Semaphore : call[t] = InP(s)) =>
        \A l \in Lock : t \notin Entering[l]
  BY EnteringIs, CallsDiffer
<1>2. t \notin Sleepers => ~Mesa!Waits(t)
  <2>1. \A c \in Condition : Members(condQueue[c]) \subseteq Sleepers
    BY DEF SynchInv, QueuesHoldSleepers, AsleepIn
  <2>2. QED
    BY <2>1 DEF Mesa!Waits, Members
<1>3. QED
  BY <1>1, <1>2 DEF Mesa!Free

\* The dispatcher and the semaphores do nothing the monitor sees.
LEMMA OutsideMonitor ==
  ASSUME SynchInv,
         \/ SchedStep \/ UNCHANGED allVars
         \/ \E s \in Semaphore : P(s) \/ V(s) \/ VInHandler(s) \/ VThenFinish(s)
  PROVE  UNCHANGED <<critical, condQueue, Entering>>
<1> USE DEF SynchInv
<1>0. currentThread \in Thread
  BY DEF SchedInv, SchedTypeOK
<1>1. UNCHANGED <<critical, condQueue>>
  <2>1. CASE SchedStep \/ UNCHANGED allVars
    BY <2>1 DEF SchedStep, allVars, synchVars, lockVars, condVars
  <2>2. ASSUME NEW s \in Semaphore, P(s) \/ V(s) \/ VInHandler(s) \/ VThenFinish(s)
        PROVE  UNCHANGED <<critical, condQueue>>
    <3>1. CASE P(s)
      BY <3>1 DEF lockVars, condVars, P, PSleeps, PReturns
    <3>2. CASE V(s)
      BY <3>2 DEF lockVars, condVars, V, VEffect
    <3>3. CASE VInHandler(s)
      BY <3>3 DEF lockVars, condVars, VInHandler, VEffect
    <3>4. CASE VThenFinish(s)
      BY <3>4 DEF lockVars, condVars, VThenFinish, VEffect
    <3>5. QED
      BY <2>2, <3>1, <3>2, <3>3, <3>4, Zenon
  <2>3. QED
    BY <2>1, <2>2, Zenon
\* What is left to show is pointwise.
<1>2. ASSUME \A l \in Lock : Entering[l]' = Entering[l]
      PROVE  UNCHANGED Entering
  BY <1>2, EnteringPointwise, Zenon
\* Nobody changes call, and the threads asleep in a Wait stay the same.
<1>3. ASSUME UNCHANGED call, \A c \in Condition : AsleepIn(InWait(c))' = AsleepIn(InWait(c)),
             NEW l \in Lock
      PROVE  Entering[l]' = Entering[l]
  BY <1>3 DEF Entering, AsleepIn, Sleepers
<1>4. CASE SchedStep \/ UNCHANGED allVars
  <2>1. UNCHANGED call
    BY <1>4 DEF SchedStep, allVars, synchVars
  <2>2. \A c \in Condition : AsleepIn(InWait(c))' = AsleepIn(InWait(c))
    BY <1>4, SchedStepCalls, CallsDiffer
  <2>3. QED
    BY <2>1, <2>2, <1>1, <1>2, <1>3
<1>5. ASSUME NEW s \in Semaphore, VInHandler(s) \/ VThenFinish(s)
      PROVE  UNCHANGED Entering
  <2>1. (Handler(Waiter(semQueue[s])) \/ Finish(Waiter(semQueue[s]))) /\ UNCHANGED call
    BY <1>5 DEF VInHandler, VThenFinish
  <2>2. /\ Waiter(semQueue[s]) \in SUBSET Sleepers
        /\ \A t \in Waiter(semQueue[s]) : call[t] = InP(s)
    BY WaitersSleep
  <2>3. \A k \in Call \ {NoCall} : AsleepIn(k)' = AsleepIn(k) \ Waiter(semQueue[s])
    BY <2>1, <2>2, WakeCalls, Zenon
  <2>4. ASSUME NEW c \in Condition
        PROVE  AsleepIn(InWait(c))' = AsleepIn(InWait(c))
    <3>1. InWait(c) \in Call \ {NoCall} /\ InWait(c) # InP(s)
      BY CallsDiffer
    <3>2. AsleepIn(InWait(c)) \ Waiter(semQueue[s]) = AsleepIn(InWait(c))
      BY <2>2, <3>1 DEF AsleepIn
    <3>3. QED
      BY <2>3, <3>1, <3>2, Zenon
  <2>5. QED
    BY <2>1, <2>4, <1>2, <1>3
<1>6. ASSUME NEW s \in Semaphore, P(s) \/ V(s)
      PROVE  UNCHANGED Entering
  <2>1. /\ Enters({InP(s)})
        /\ SleepsIn(InP(s), {}) \/ Returns({}) \/ Returns(Waiter(semQueue[s]))
    <3>1. CASE P(s)
      BY <3>1, Zenon DEF P, PSleeps, PReturns
    <3>2. CASE V(s)
      <4>1. Enters({}) /\ Returns(Waiter(semQueue[s]))
        BY <3>2, Zenon DEF V
      <4>2. QED
        BY <4>1 DEF Enters
    <3>3. QED
      BY <1>6, <3>1, <3>2, Zenon
  <2>2. \A l \in Lock : currentThread \notin Entering[l]
    BY <2>1, <1>0, NotEntering DEF Enters
  <2>3. /\ InP(s) \in Call /\ {} \in SUBSET AsleepIn(InP(s))
        /\ Waiter(semQueue[s]) \in SUBSET AsleepIn(InP(s))
        /\ \A l \in Lock : {} \in SUBSET AsleepIn(InAcquire(l)) /\ InP(s) # InAcquire(l)
        /\ \A c \in Condition : InP(s) # InWait(c)
    BY WaitersSleep, CallsDiffer DEF AsleepIn
  <2>4. ASSUME NEW l \in Lock
        PROVE  Entering[l]' = Entering[l]
    <3>1. CASE SleepsIn(InP(s), {})
      <4>1. Entering[l]' = (Entering[l] \ {currentThread})
                            \cup (IF InP(s) = InAcquire(l) THEN {currentThread} ELSE {})
        BY <3>1, <2>3, SleepEntering, Zenon
      <4>2. QED
        BY <4>1, <2>2, <2>3
    <3>2. ASSUME NEW woken \in SUBSET AsleepIn(InP(s)), Returns(woken)
          PROVE  Entering[l]' = Entering[l]
      <4>1. Entering[l]' = (Entering[l] \ {currentThread})
                            \cup (IF \E c \in Condition : conditionLock[c] = l /\ InP(s) = InWait(c)
                                  THEN woken ELSE {})
        BY <3>2, <2>3, ReturnEntering, Zenon
      <4>2. QED
        BY <4>1, <2>2, <2>3
    <3>3. QED
      BY <2>1, <2>3, <3>1, <3>2, Zenon
  <2>5. QED
    BY <2>4, <1>2
<1>7. QED
  BY <1>1, <1>4, <1>5, <1>6, Zenon

\* Acquire that sleeps queues up to enter, unless the thread already had to.
LEMMA AcquireSleepsMonitor ==
  ASSUME SynchInv, NEW l \in Lock, AcquireSleeps(l)
  PROVE  [Mesa!MonitorNext]_(Mesa!monitorVars)
<1> USE DEF SynchInv
<1>0. /\ SleepsIn(InAcquire(l), {}) /\ Enters(AcquireCalls(l))
      /\ currentThread \notin critical[l]
      /\ UNCHANGED <<critical, condQueue>>
  BY SMTT(30) DEF AcquireSleeps, condVars
<1>1. /\ currentThread \in Thread /\ currentThread \notin Sleepers
      /\ InAcquire(l) \in Call /\ {} \in SUBSET AsleepIn(InAcquire(l))
      /\ \A m \in Lock : InAcquire(l) = InAcquire(m) => l = m
  BY <1>0, CallsDiffer DEF SchedInv, SchedTypeOK, Enters, Sleepers
<1>2. \A m \in Lock : Entering[m]' = (Entering[m] \ {currentThread})
                            \cup (IF InAcquire(l) = InAcquire(m) THEN {currentThread} ELSE {})
  BY <1>0, <1>1, SleepEntering, Zenon
<1>3. \A m \in Lock : m # l => currentThread \notin Entering[m]
  BY <1>0, <1>1, EnteringIs, CallsDiffer DEF Enters, AcquireCalls
<1>4. Entering' = [Entering EXCEPT ![l] = @ \cup {currentThread}]
  <2>1. \A m \in Lock : Entering[m]' = IF m = l THEN Entering[l] \cup {currentThread} ELSE Entering[m]
    BY <1>1, <1>2, <1>3
  <2>2. QED
    BY <2>1, EnteringPointwise
<1>5. CASE call[currentThread] = NoCall
  <2>1. Mesa!QueueUp(currentThread, l)
    BY <1>0, <1>1, <1>4, <1>5, NotEntering DEF Mesa!QueueUp
  <2>2. QED
    BY <2>1, <1>1 DEF Mesa!MonitorNext
<1>6. CASE call[currentThread] # NoCall
  <2>1. currentThread \in Entering[l]
    BY <1>0, <1>1, <1>6, EnteringIs DEF Enters, AcquireCalls
  <2>2. UNCHANGED Entering
    BY <2>1, <1>4, EnteringIs
  <2>3. QED
    BY <2>2, <1>0 DEF Mesa!monitorVars
<1>7. QED
  BY <1>5, <1>6

\* Acquire that returns enters the lock, which nobody is inside.
LEMMA AcquireReturnsMonitor ==
  ASSUME SynchInv, NEW l \in Lock, AcquireReturns(l)
  PROVE  Mesa!MonitorNext
<1> USE DEF SynchInv
<1>0. /\ Returns({}) /\ Enters(AcquireCalls(l)) /\ available[l]
      /\ critical' = [critical EXCEPT ![l] = @ \cup {currentThread}]
      /\ UNCHANGED condQueue
  BY SMTT(30) DEF AcquireReturns, condVars
<1>1. /\ currentThread \in Thread /\ currentThread \notin Sleepers
      /\ NoCall \in Call /\ {} \in SUBSET AsleepIn(NoCall)
      /\ critical \in [Lock -> SUBSET Thread]
  BY <1>0, CallsDiffer DEF SchedInv, SchedTypeOK, Enters, Sleepers, SynchTypeOK
<1>2. critical[l] = {}
  BY <1>0 DEF LockKnowsOwner
<1>3. \A m \in Lock : Entering[m]' = Entering[m] \ {currentThread}
  <2>1. \A m \in Lock : Entering[m]' = (Entering[m] \ {currentThread})
          \cup (IF \E c \in Condition : conditionLock[c] = m /\ NoCall = InWait(c) THEN {} ELSE {})
    BY <1>0, <1>1, ReturnEntering, Zenon
  <2>2. QED
    BY <2>1
<1>4. \A m \in Lock : m # l => currentThread \notin Entering[m]
  BY <1>0, <1>1, EnteringIs, CallsDiffer DEF Enters, AcquireCalls
<1>5. Entering' = [Entering EXCEPT ![l] = @ \ {currentThread}]
  <2>1. \A m \in Lock : Entering[m]' = IF m = l THEN Entering[l] \ {currentThread} ELSE Entering[m]
    BY <1>3, <1>4
  <2>2. QED
    BY <2>1, EnteringPointwise
<1>6. currentThread \in Entering[l] \/ Mesa!Free(currentThread)
  BY <1>0, <1>1, EnteringIs, NotEntering DEF Enters, AcquireCalls
<1>7. critical' = [critical EXCEPT ![l] = {currentThread}]
  BY <1>0, <1>1, <1>2
<1>8. Mesa!Enter(currentThread, l)
  BY <1>0, <1>2, <1>5, <1>6, <1>7 DEF Mesa!Enter
<1>9. QED
  BY <1>8, <1>1 DEF Mesa!MonitorNext

\* Release leaves the lock; the thread it wakes still has to enter.
LEMMA ReleaseMonitor ==
  ASSUME SynchInv, NEW l \in Lock, Release(l)
  PROVE  Mesa!MonitorNext
<1> USE DEF SynchInv
<1>0. /\ Returns(Waiter(lockQueue[l])) /\ Enters({})
      /\ currentThread \in critical[l]
      /\ critical' = [critical EXCEPT ![l] = @ \ {currentThread}]
      /\ UNCHANGED condQueue
  BY SMTT(30) DEF Release, ReleaseEffect, condVars
<1>1. /\ currentThread \in Thread /\ currentThread \notin Sleepers
      /\ call[currentThread] = NoCall
      /\ InAcquire(l) \in Call /\ Waiter(lockQueue[l]) \in SUBSET AsleepIn(InAcquire(l))
      /\ \A c \in Condition : InAcquire(l) # InWait(c)
  BY <1>0, CallsDiffer, WaitersSleep DEF SchedInv, SchedTypeOK, Enters, Sleepers, AsleepIn
<1>2. \A m \in Lock : Entering[m]' = (Entering[m] \ {currentThread})
          \cup (IF \E c \in Condition : conditionLock[c] = m /\ InAcquire(l) = InWait(c)
                THEN Waiter(lockQueue[l]) ELSE {})
  BY <1>0, <1>1, ReturnEntering, Zenon
<1>3. \A m \in Lock : currentThread \notin Entering[m]
  BY <1>1, NotEntering
<1>4. UNCHANGED Entering
  <2>1. \A m \in Lock : Entering[m]' = Entering[m]
    BY <1>1, <1>2, <1>3
  <2>2. QED
    BY <2>1, EnteringPointwise, Zenon
<1>5. Mesa!Leave(currentThread, l)
  BY <1>0, <1>1, <1>4, NotEntering DEF Mesa!Leave
<1>6. QED
  BY <1>5, <1>1 DEF Mesa!MonitorNext

\* Wait leaves the lock and joins the condition's waiters in one step.
LEMMA WaitMonitor ==
  ASSUME SynchInv, NEW c \in Condition, Wait(c)
  PROVE  Mesa!MonitorNext
<1> USE DEF SynchInv
<1> DEFINE l == conditionLock[c]
<1>0. /\ SleepsIn(InWait(c), Waiter(lockQueue[l])) /\ Enters({})
      /\ currentThread \in critical[l]
      /\ critical' = [critical EXCEPT ![l] = @ \ {currentThread}]
      /\ condQueue' = [condQueue EXCEPT ![c] = Append(@, currentThread)]
  BY SMTT(30) DEF Wait, ReleaseEffect
<1>1. /\ l \in Lock
      /\ currentThread \in Thread /\ currentThread \notin Sleepers
      /\ call[currentThread] = NoCall
      /\ InWait(c) \in Call /\ Waiter(lockQueue[l]) \in SUBSET AsleepIn(InAcquire(l))
      /\ \A m \in Lock : InWait(c) # InAcquire(m)
  <2>1. l \in Lock
    BY SynchAssumption
  <2> HIDE DEF l
  <2>2. currentThread \in Thread /\ currentThread \notin Sleepers
    BY <1>0 DEF SchedInv, SchedTypeOK, Enters, Sleepers
  <2>3. call[currentThread] = NoCall
    BY <1>0 DEF Enters
  <2>4. InWait(c) \in Call /\ \A m \in Lock : InWait(c) # InAcquire(m)
    BY CallsDiffer
  <2>5. Waiter(lockQueue[l]) \in SUBSET AsleepIn(InAcquire(l))
    BY <2>1, WaitersSleep DEF AsleepIn
  <2>6. QED
    BY <2>1, <2>2, <2>3, <2>4, <2>5
<1>2. \A m \in Lock : Entering[m]' = (Entering[m] \ {currentThread})
                            \cup (IF InWait(c) = InAcquire(m) THEN {currentThread} ELSE {})
  <2> HIDE DEF l
  <2>1. QED
    BY <1>0, <1>1, SleepEntering, Zenon
<1>3. UNCHANGED Entering
  <2>1. \A m \in Lock : currentThread \notin Entering[m]
    BY <1>1, NotEntering
  <2>2. ASSUME NEW m \in Lock
        PROVE  Entering[m]' = Entering[m]
    <3>1. InWait(c) # InAcquire(m)
      BY <1>1
    <3>2. Entering[m]' = (Entering[m] \ {currentThread}) \cup {}
      BY <1>2, <3>1, Zenon
    <3>3. QED
      BY <2>1, <3>2
  <2>3. QED
    BY <2>2, EnteringPointwise, Zenon
<1>4. Mesa!WaitOn(currentThread, c)
  BY <1>0, <1>1, <1>3, NotEntering DEF Mesa!WaitOn
<1>5. QED
  BY <1>4, <1>1 DEF Mesa!MonitorNext

\* Signal lets the longest waiter go on, if there is one, Broadcast all.
LEMMA SignalMonitor ==
  ASSUME SynchInv, NEW c \in Condition, Signal(c) \/ Broadcast(c)
  PROVE  [Mesa!MonitorNext]_(Mesa!monitorVars)
<1> USE DEF SynchInv
<1>0. /\ Enters({}) /\ currentThread \in critical[conditionLock[c]]
      /\ UNCHANGED critical
  <2>1. CASE Signal(c)
    BY <2>1 DEF Signal, lockVars
  <2>2. CASE Broadcast(c)
    BY <2>2 DEF Broadcast, lockVars
  <2>3. QED
    BY <2>1, <2>2
<1>1. /\ conditionLock[c] \in Lock
      /\ currentThread \in Thread /\ currentThread \notin Sleepers
      /\ call[currentThread] = NoCall
      /\ InWait(c) \in Call
      /\ \A d \in Condition : InWait(c) = InWait(d) => c = d
      /\ Waiter(condQueue[c]) \in SUBSET AsleepIn(InWait(c))
      /\ Members(condQueue[c]) \in SUBSET AsleepIn(InWait(c))
      /\ condQueue \in [Condition -> Seq(Thread)]
  <2>1. currentThread \in Thread /\ currentThread \notin Sleepers
    BY <1>0 DEF SchedInv, SchedTypeOK, Enters, Sleepers
  <2>2. call[currentThread] = NoCall
    BY <1>0 DEF Enters
  <2>3. conditionLock[c] \in Lock
    BY SynchAssumption
  <2>4. InWait(c) \in Call /\ \A d \in Condition : InWait(c) = InWait(d) => c = d
    BY CallsDiffer
  <2>5. /\ Waiter(condQueue[c]) \in SUBSET AsleepIn(InWait(c))
        /\ Members(condQueue[c]) \in SUBSET AsleepIn(InWait(c))
    BY WaitersSleep DEF AsleepIn
  <2>6. condQueue \in [Condition -> Seq(Thread)]
    BY DEF SynchTypeOK
  <2>7. QED
    BY <2>1, <2>2, <2>3, <2>4, <2>5, <2>6
<1>2. Mesa!Free(currentThread)
  BY <1>1, NotEntering
<1>3. ASSUME NEW woken \in SUBSET AsleepIn(InWait(c)), Returns(woken)
      PROVE  Entering' = [Entering EXCEPT ![conditionLock[c]] = @ \cup woken]
  <2>1. \A m \in Lock : Entering[m]' = (Entering[m] \ {currentThread})
          \cup (IF \E d \in Condition : conditionLock[d] = m /\ InWait(c) = InWait(d) THEN woken ELSE {})
    BY <1>1, <1>3, ReturnEntering, Zenon
  <2>2. \A m \in Lock : currentThread \notin Entering[m]
    BY <1>1, NotEntering
  <2>3. \A m \in Lock : Entering[m]' = IF m = conditionLock[c] THEN Entering[m] \cup woken ELSE Entering[m]
    <3>1. \A m \in Lock : (\E d \in Condition : conditionLock[d] = m /\ InWait(c) = InWait(d))
                             <=> m = conditionLock[c]
      BY <1>1, Zenon
    <3> TAKE m \in Lock
    <3>2. CASE m = conditionLock[c]
      <4>1. Entering[m]' = (Entering[m] \ {currentThread}) \cup woken
        BY <2>1, <3>1, <3>2, Zenon
      <4>2. QED
        BY <4>1, <3>2, <2>2
    <3>3. CASE m # conditionLock[c]
      <4>1. Entering[m]' = (Entering[m] \ {currentThread}) \cup {}
        BY <2>1, <3>1, <3>3, Zenon
      <4>2. QED
        BY <4>1, <3>3, <2>2
    <3>4. QED
      BY <3>2, <3>3
  <2>4. QED
    BY <1>1, <2>3, EnteringPointwise
<1>4. CASE Signal(c) /\ condQueue[c] # <<>>
  <2>1. /\ Returns({Head(condQueue[c])})
        /\ condQueue' = [condQueue EXCEPT ![c] = Tail(@)]
        /\ {Head(condQueue[c])} \in SUBSET AsleepIn(InWait(c))
    BY <1>1, <1>4 DEF Signal, Waiter, Rest
  <2>2. Entering' = [Entering EXCEPT ![conditionLock[c]] = @ \cup {Head(condQueue[c])}]
    BY <2>1, <1>3
  <2>3. Mesa!SignalTo(currentThread, c)
    BY <1>0, <1>2, <1>4, <2>1, <2>2 DEF Mesa!SignalTo
  <2>4. QED
    BY <2>3, <1>1 DEF Mesa!MonitorNext
<1>5. CASE Signal(c) /\ condQueue[c] = <<>>
  <2>1. /\ Returns({}) /\ {} \in SUBSET AsleepIn(InWait(c))
        /\ condQueue' = [condQueue EXCEPT ![c] = condQueue[c]]
    BY <1>1, <1>5 DEF Signal, Waiter, Rest
  <2>2. UNCHANGED condQueue
    BY <2>1, <1>1
  <2>3. Entering' = [Entering EXCEPT ![conditionLock[c]] = @ \cup {}]
    BY <2>1, <1>3
  <2>4. UNCHANGED Entering
    BY <2>3, <1>1, EnteringIs
  <2>5. QED
    BY <2>2, <2>4, <1>0 DEF Mesa!monitorVars
<1>6. CASE Broadcast(c)
  <2>1. /\ Returns(Members(condQueue[c]))
        /\ condQueue' = [condQueue EXCEPT ![c] = <<>>]
    BY <1>6, Zenon DEF Broadcast
  <2>2. Entering' = [Entering EXCEPT ![conditionLock[c]] = @ \cup Members(condQueue[c])]
    BY <2>1, <1>1, <1>3
  <2>3. Mesa!SignalAll(currentThread, c)
    BY <1>0, <1>2, <2>1, <2>2 DEF Mesa!SignalAll, Members
  <2>4. QED
    BY <2>3, <1>1 DEF Mesa!MonitorNext
<1>7. QED
  BY <1>4, <1>5, <1>6

\* Locks and conditions behave as the Mesa-style monitor that synch.h
\* describes: Wait releases and sleeps with no gap, Signal wakes the longest
\* waiter, and a thread that was let go enters like any other.
THEOREM SynchImplementsMonitor == SynchSpec => ImplementsMonitor
<1>1. AllInit => Mesa!MonitorInit
  <2> SUFFICES ASSUME SchedInit, SynchInit
               PROVE  Entering = [l \in Lock |-> {}]
    BY DEF AllInit, SynchInit, Mesa!MonitorInit
  <2>1. \A t \in Thread : call[t] = NoCall
    BY DEF SynchInit
  <2>2. \A l \in Lock : Entering[l] = {}
    BY <2>1, CallsDiffer, EnteringIs
  <2>3. QED
    BY <2>2, EnteringPointwise
<1>2. ASSUME SynchInv, [SynchNext]_allVars
      PROVE  [Mesa!MonitorNext]_(Mesa!monitorVars)
  <2>1. CASE \/ SchedStep \/ UNCHANGED allVars
             \/ \E s \in Semaphore : P(s) \/ V(s) \/ VInHandler(s) \/ VThenFinish(s)
    BY <1>2, <2>1, OutsideMonitor DEF Mesa!monitorVars
  <2>2. ASSUME NEW l \in Lock, Acquire(l) \/ Release(l)
        PROVE  [Mesa!MonitorNext]_(Mesa!monitorVars)
    BY <1>2, <2>2, AcquireSleepsMonitor, AcquireReturnsMonitor, ReleaseMonitor DEF Acquire
  <2>3. ASSUME NEW c \in Condition, Wait(c) \/ Signal(c) \/ Broadcast(c)
        PROVE  [Mesa!MonitorNext]_(Mesa!monitorVars)
    BY <1>2, <2>3, WaitMonitor, SignalMonitor
  <2>4. QED
    BY <1>2, <2>1, <2>2, <2>3, Zenon DEF SynchNext, SynchStep
<1>3. QED
  BY <1>1, <1>2, SynchInitInv, SynchStepInv, PTL
     DEF SynchSpec, AllInit, ImplementsMonitor, Mesa!MonitorSpec
=============================================================================
