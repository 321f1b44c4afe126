---------------------------- MODULE Synch_proofs ----------------------------
(***************************************************************************)
(* Proofs about module Synch: semaphores, locks and condition variables    *)
(* use the dispatcher as it expects, queue exactly the threads that sleep, *)
(* exclude each other and lose no wakeup of a lock, for any number of      *)
(* threads, semaphores, locks and conditions.                              *)
(***************************************************************************)
EXTENDS Synch, Scheduler_proofs, TLAPS

-----------------------------------------------------------------------------
(* Queues.                                                                 *)

\* List::Append adds one member and keeps the members distinct.
LEMMA QueueAppend ==
  ASSUME NEW q \in Seq(Thread), NEW t \in Thread, Distinct(q), t \notin Members(q)
  PROVE  /\ Append(q, t) \in Seq(Thread)
         /\ Append(q, t) # <<>>
         /\ Distinct(Append(q, t))
         /\ Members(Append(q, t)) = Members(q) \cup {t}
<1>1. /\ Append(q, t) \in Seq(Thread)
      /\ Len(Append(q, t)) = Len(q) + 1
      /\ Append(q, t)[Len(q) + 1] = t
      /\ \A i \in 1..Len(q) : Append(q, t)[i] = q[i]
  OBVIOUS
<1>2. Len(q) \in Nat
  OBVIOUS
<1>3. Distinct(Append(q, t))
  BY <1>1, <1>2 DEF Distinct, Members
<1>4. Members(Append(q, t)) = Members(q) \cup {t}
  BY <1>1, <1>2 DEF Members
<1>5. QED
  BY <1>1, <1>2, <1>3, <1>4

\* List::Remove takes away the first member, if there is one.
LEMMA QueueRest ==
  ASSUME NEW q \in Seq(Thread), Distinct(q)
  PROVE  /\ Rest(q) \in Seq(Thread)
         /\ Distinct(Rest(q))
         /\ Members(Rest(q)) = Members(q) \ Waiter(q)
         /\ Waiter(q) \subseteq Members(q)
<1>1. CASE q = <<>>
  BY <1>1 DEF Rest, Waiter, Members, Distinct
<1>2. CASE q # <<>>
  <2>1. /\ Len(q) \in Nat /\ Len(q) > 0
        /\ Tail(q) \in Seq(Thread)
        /\ Len(Tail(q)) = Len(q) - 1
        /\ \A i \in 1..(Len(q) - 1) : Tail(q)[i] = q[i + 1]
        /\ Head(q) = q[1]
    BY <1>2
  <2>2. Rest(q) = Tail(q) /\ Waiter(q) = {q[1]}
    BY <1>2, <2>1 DEF Rest, Waiter
  <2>3. Distinct(Tail(q))
    BY <2>1 DEF Distinct
  <2>4. ASSUME NEW x \in Members(Tail(q))
        PROVE  x \in Members(q) \ {q[1]}
    BY <2>1, <2>4 DEF Members, Distinct
  <2>5. ASSUME NEW x \in Members(q) \ {q[1]}
        PROVE  x \in Members(Tail(q))
    <3>1. PICK i \in 1..Len(q) : x = q[i]
      BY <2>5 DEF Members
    <3>2. i # 1 /\ i - 1 \in 1..(Len(q) - 1)
      BY <3>1, <2>1, <2>5
    <3>3. Tail(q)[i - 1] = x
      BY <3>1, <3>2, <2>1
    <3>4. QED
      BY <3>2, <3>3, <2>1 DEF Members
  <2>6. q[1] \in Members(q)
    BY <2>1 DEF Members
  <2>7. QED
    BY <2>1, <2>2, <2>3, <2>4, <2>5, <2>6
<1>3. QED
  BY <1>1, <1>2

LEMMA QueueEmpty == Distinct(<<>>) /\ Members(<<>>) = {} /\ <<>> \in Seq(Thread)
  BY DEF Distinct, Members

LEMMA CallsDiffer ==
  /\ NoCall \in Call
  /\ \A s \in Semaphore : InP(s) \in Call /\ InP(s) # NoCall
  /\ \A l \in Lock : InAcquire(l) \in Call /\ InAcquire(l) # NoCall
  /\ \A c \in Condition : InWait(c) \in Call /\ InWait(c) # NoCall
  /\ \A s, r \in Semaphore : InP(s) = InP(r) => s = r
  /\ \A l, k \in Lock : InAcquire(l) = InAcquire(k) => l = k
  /\ \A c, d \in Condition : InWait(c) = InWait(d) => c = d
  /\ \A s \in Semaphore, l \in Lock : InP(s) # InAcquire(l)
  /\ \A s \in Semaphore, c \in Condition : InP(s) # InWait(c)
  /\ \A l \in Lock, c \in Condition : InAcquire(l) # InWait(c)
  BY Zenon DEF NoCall, InP, InAcquire, InWait, Call

-----------------------------------------------------------------------------
(* The inductive invariant.                                                *)

\* A thread inside a call sleeps there, or has been woken and comes back to it
\* with interrupts off.  So a thread that calls another operation, yields or
\* finishes is inside no call.
CallConsistent ==
  \A t \in Thread :
    call[t] # NoCall => /\ machineState[t] = "Sleep"
                        /\ status[t] \in {"BLOCKED", "READY", "RUNNING"}
                        /\ status[t] = "RUNNING" => level = "IntOff"

SynchInv ==
  /\ SchedInv
  /\ SynchTypeOK
  /\ CallConsistent
  /\ QueuesHoldSleepers
  /\ LockKnowsOwner
  /\ LockNoLostWakeup

LEMMA SynchInitInv == SchedInit /\ SynchInit => SynchInv
<1> SUFFICES ASSUME SchedInit, SynchInit
             PROVE  SynchInv
  OBVIOUS
<1>1. SchedInv
  BY SchedInitInv
<1>2. SynchTypeOK
  BY CallsDiffer, SynchAssumption DEF SynchInit, SynchTypeOK
<1>3. CallConsistent
  BY DEF SynchInit, CallConsistent
<1>4. Sleepers = {}
  BY Zenon DEF SchedInit, Sleepers
<1>5. QueuesHoldSleepers
  BY <1>4, QueueEmpty DEF SynchInit, QueuesHoldSleepers, AsleepIn
<1>6. LockKnowsOwner
  BY DEF SynchInit, LockKnowsOwner
<1>7. LockNoLostWakeup
  BY DEF SynchInit, LockNoLostWakeup
<1>8. QED
  BY <1>1, <1>2, <1>3, <1>5, <1>6, <1>7 DEF SynchInv

-----------------------------------------------------------------------------
(* What a step does to the threads inside calls.                           *)

\* A region: the threads of woken leave the sleepers of their call, and the
\* current thread joins those of inCall or is in no call.
LEMMA RegionCalls ==
  ASSUME SchedInv, CallConsistent, SynchTypeOK,
         NEW woken \in SUBSET Sleepers, NEW sleeps \in BOOLEAN, NEW inCall \in Call,
         Region(woken, sleeps),
         call' = [call EXCEPT ![currentThread] = inCall],
         sleeps \/ inCall = NoCall
  PROVE  /\ CallConsistent'
         /\ call' \in [Thread -> Call]
         /\ \A k \in Call :
              AsleepIn(k)' = (AsleepIn(k) \ woken)
                               \cup (IF sleeps /\ k = inCall THEN {currentThread} ELSE {})
         /\ \A k \in Call \ {NoCall} :
              WokenIn(k)' = (WokenIn(k) \ {currentThread}) \cup {t \in woken : call[t] = k}
<1>1. /\ currentThread \in Thread
      /\ status[currentThread] = "RUNNING"
      /\ currentThread \notin Sleepers
      /\ status \in [Thread -> {"NONE", "JUST_CREATED", "RUNNING", "READY", "BLOCKED"}]
      /\ machineState \in [Thread -> {"ThreadRoot", "Yield", "Sleep", "Finish"}]
      /\ call \in [Thread -> Call]
      /\ \A t \in Thread : status[t] = "RUNNING" => t = currentThread
  BY DEF SchedInv, SchedTypeOK, ProcessorOwned, Region, Sleepers, SynchTypeOK
<1>2. /\ \A t \in Thread : status'[t] = IF t \in woken THEN "READY"
                                        ELSE IF sleeps /\ t = currentThread THEN "BLOCKED"
                                        ELSE status[t]
      /\ \A t \in Thread : machineState'[t] = IF sleeps /\ t = currentThread THEN "Sleep"
                                              ELSE machineState[t]
      /\ \A t \in Thread : call'[t] = IF t = currentThread THEN inCall ELSE call[t]
      /\ sleeps => level' = "IntOff"
  BY <1>1 DEF Region, SetStatus
<1>3. \A t \in woken : t \in Thread /\ status[t] = "BLOCKED" /\ machineState[t] = "Sleep" /\ t # currentThread
  BY <1>1 DEF Sleepers
<1>4. CallConsistent'
  <2> SUFFICES ASSUME NEW t \in Thread, call'[t] # NoCall
               PROVE  /\ machineState'[t] = "Sleep"
                      /\ status'[t] \in {"BLOCKED", "READY", "RUNNING"}
                      /\ status'[t] = "RUNNING" => level' = "IntOff"
    BY DEF CallConsistent
  <2>1. CASE t = currentThread
    BY <2>1, <1>1, <1>2, <1>3
  <2>2. CASE t # currentThread
    BY <2>2, <1>1, <1>2, <1>3 DEF CallConsistent
  <2>3. QED
    BY <2>1, <2>2
<1>5. ASSUME NEW k \in Call
      PROVE  AsleepIn(k)' = (AsleepIn(k) \ woken)
                              \cup (IF sleeps /\ k = inCall THEN {currentThread} ELSE {})
  BY <1>1, <1>2, <1>3 DEF AsleepIn, Sleepers
<1>6. ASSUME NEW k \in Call \ {NoCall}
      PROVE  WokenIn(k)' = (WokenIn(k) \ {currentThread}) \cup {t \in woken : call[t] = k}
  BY <1>1, <1>2, <1>3 DEF WokenIn
<1>7. call' \in [Thread -> Call]
  BY <1>1
<1>8. QED
  BY <1>4, <1>5, <1>6, <1>7

\* V in a handler, or by a thread that finishes: no thread enters or leaves a
\* call, the threads of woken are no longer asleep.
LEMMA WakeCalls ==
  ASSUME SchedInv, CallConsistent, SynchTypeOK,
         NEW woken \in SUBSET Sleepers,
         Handler(woken) \/ Finish(woken),
         UNCHANGED call
  PROVE  /\ CallConsistent'
         /\ \A k \in Call \ {NoCall} :
              AsleepIn(k)' = AsleepIn(k) \ woken
         /\ \A k \in Call \ {NoCall} :
              WokenIn(k)' = WokenIn(k) \cup {t \in woken : call[t] = k}
<1>1. \A t \in Thread : status[t] = "RUNNING" => t = currentThread
  BY DEF SchedInv, ProcessorOwned
<1>2. \A t \in woken : t \in Thread /\ status[t] = "BLOCKED" /\ machineState[t] = "Sleep"
  BY DEF Sleepers
<1>3. CASE Handler(woken)
  <2>1. /\ \A t \in Thread : status'[t] = IF t \in woken THEN "READY" ELSE status[t]
        /\ UNCHANGED <<machineState, level>>
    BY <1>3 DEF Handler, SetStatus
  <2>2. CallConsistent'
    BY <2>1, <1>2 DEF CallConsistent
  <2>3. ASSUME NEW k \in Call \ {NoCall}
        PROVE  /\ AsleepIn(k)' = AsleepIn(k) \ woken
               /\ WokenIn(k)' = WokenIn(k) \cup {t \in woken : call[t] = k}
    BY <2>1, <1>2 DEF AsleepIn, Sleepers, WokenIn
  <2>4. QED
    BY <2>2, <2>3
<1>4. CASE Finish(woken)
  <2>1. /\ currentThread \in Thread
        /\ status[currentThread] = "RUNNING"
        /\ call[currentThread] = NoCall
        /\ currentThread \notin woken
    BY <1>4, <1>2 DEF Finish, Running, CallConsistent, SchedInv, SchedTypeOK
  <2>2. /\ \A t \in Thread : status'[t] = IF t \in woken THEN "READY"
                                          ELSE IF t = currentThread THEN "BLOCKED"
                                          ELSE status[t]
        /\ \A t \in Thread : t # currentThread => machineState'[t] = machineState[t]
        /\ level' = "IntOff"
    BY <1>4 DEF Finish, SetStatus, SchedInv, SchedTypeOK
  <2>3. CallConsistent'
    BY <2>1, <2>2, <1>2 DEF CallConsistent
  <2>4. ASSUME NEW k \in Call \ {NoCall}
        PROVE  /\ AsleepIn(k)' = AsleepIn(k) \ woken
               /\ WokenIn(k)' = WokenIn(k) \cup {t \in woken : call[t] = k}
    BY <2>1, <2>2, <1>2 DEF AsleepIn, Sleepers, WokenIn
  <2>5. QED
    BY <2>3, <2>4
<1>5. QED
  BY <1>3, <1>4

\* The dispatcher's own steps move no thread into, out of or within a call.
LEMMA SchedStepCalls ==
  ASSUME SchedInv, CallConsistent, SynchTypeOK, SchedStep \/ UNCHANGED allVars
  PROVE  /\ CallConsistent'
         /\ \A k \in Call \ {NoCall} : AsleepIn(k)' = AsleepIn(k)
         /\ \A k \in Call \ {NoCall} : WokenIn(k)' = WokenIn(k)
<1> DEFINE Goal == /\ CallConsistent'
                   /\ \A k \in Call \ {NoCall} : AsleepIn(k)' = AsleepIn(k)
                   /\ \A k \in Call \ {NoCall} : WokenIn(k)' = WokenIn(k)
<1>0. call' = call
  BY DEF SchedStep, synchVars, allVars
<1>1. /\ currentThread \in Thread
      /\ status \in [Thread -> {"NONE", "JUST_CREATED", "RUNNING", "READY", "BLOCKED"}]
      /\ machineState \in [Thread -> {"ThreadRoot", "Yield", "Sleep", "Finish"}]
      /\ \A t \in Thread : status[t] = "RUNNING" => t = currentThread
  BY DEF SchedInv, SchedTypeOK, ProcessorOwned
<1>2. ASSUME NEW t \in Thread, NewThread(t, 1) \/ DeleteThread(t) \/ Fork(t)
      PROVE  Goal
  <2>1. /\ status[t] \in {"NONE", "JUST_CREATED"}
        /\ \A u \in Thread : u # t => status'[u] = status[u] /\ machineState'[u] = machineState[u]
        /\ UNCHANGED level
    BY <1>2, <1>1 DEF NewThread, DeleteThread, Fork, SetStatus
  <2>2. call[t] = NoCall
    BY <2>1 DEF CallConsistent
  <2>3. CallConsistent'
    BY <2>1, <2>2, <1>0 DEF CallConsistent
  <2>4. QED
    BY <2>1, <2>2, <2>3, <1>0 DEF AsleepIn, WokenIn, Sleepers
\* The thread that yields has interrupts on, so it is in no call; the one that
\* sleeps stays in it; the one dispatched was READY; the carcass is in no call.
<1>3. ASSUME NEW next \in FrontOfReadyList, NEW old, NEW list, Run(next, old, list),
             \/ old = "READY" /\ Running
                  /\ machineState' = [machineState EXCEPT ![currentThread] = "Yield"]
             \/ old = status[currentThread] /\ Sleeping /\ UNCHANGED machineState
      PROVE  Goal
  <2>1. next \in Thread /\ status[next] = "READY" /\ next # threadToBeDestroyed
    BY FrontIsReady
  <2>2. threadToBeDestroyed # NULL => call[threadToBeDestroyed] = NoCall
    BY DEF SchedInv, SchedTypeOK, CarcassFinished, Finished, CallConsistent
  <2>3. Running => call[currentThread] = NoCall
    BY <1>1 DEF Running, CallConsistent
  <2>4. /\ status'[next] = "RUNNING"
        /\ \A u \in Thread : call[u] # NoCall =>
             /\ machineState'[u] = machineState[u]
             /\ u # next => status'[u] = status[u] /\ status[u] # "RUNNING"
        /\ machineState[next] = "Sleep" => level' = "IntOff"
    BY <1>1, <1>3, <2>1, <2>2, <2>3, ThreadAssumption DEF Run, Sleeping
  <2>5. CallConsistent'
    BY <2>4, <2>1, <1>0 DEF CallConsistent
  <2>6. QED
    BY <2>4, <2>5, <2>1, <1>0, <1>1 DEF AsleepIn, WokenIn, Sleepers
<1>4. CASE Yield
  BY <1>3, <1>4 DEF Yield
<1>5. CASE Dispatch
  BY <1>3, <1>5 DEF Dispatch
<1>6. CASE FinishesFree
  <2>1. {} \in SUBSET Sleepers /\ Finish({})
    BY <1>6 DEF FinishesFree
  <2>2. QED
    BY <2>1, <1>0, WakeCalls
<1>7. CASE IdleReturn \/ Halt \/ UNCHANGED allVars
  <2>1. UNCHANGED <<status, machineState, level>>
    BY <1>7 DEF IdleReturn, Halt, allVars, schedVars
  <2>2. QED
    BY <2>1, <1>0 DEF CallConsistent, AsleepIn, WokenIn, Sleepers
<1>8. QED
  BY <1>2, <1>4, <1>5, <1>6, <1>7 DEF SchedStep

-----------------------------------------------------------------------------
(* Every step uses the dispatcher as it expects.                           *)

\* The threads an operation takes from a queue sleep, in that operation.
LEMMA WaitersSleep ==
  ASSUME SynchTypeOK, QueuesHoldSleepers
  PROVE  /\ {} \in SUBSET Sleepers
         /\ \A s \in Semaphore : /\ Waiter(semQueue[s]) \in SUBSET Sleepers
                                 /\ \A t \in Waiter(semQueue[s]) : call[t] = InP(s)
         /\ \A l \in Lock : /\ Waiter(lockQueue[l]) \in SUBSET Sleepers
                            /\ \A t \in Waiter(lockQueue[l]) : call[t] = InAcquire(l)
         /\ \A c \in Condition : /\ Waiter(condQueue[c]) \in SUBSET Sleepers
                                 /\ Members(condQueue[c]) \in SUBSET Sleepers
                                 /\ \A t \in Members(condQueue[c]) : call[t] = InWait(c)
                                 /\ \A t \in Waiter(condQueue[c]) : call[t] = InWait(c)
<1>1. ASSUME NEW s \in Semaphore
      PROVE  Waiter(semQueue[s]) \subseteq AsleepIn(InP(s))
  BY QueueRest DEF SynchTypeOK, QueuesHoldSleepers
<1>2. ASSUME NEW l \in Lock
      PROVE  Waiter(lockQueue[l]) \subseteq AsleepIn(InAcquire(l))
  BY QueueRest DEF SynchTypeOK, QueuesHoldSleepers
<1>3. ASSUME NEW c \in Condition
      PROVE  /\ Waiter(condQueue[c]) \subseteq AsleepIn(InWait(c))
             /\ Members(condQueue[c]) \subseteq AsleepIn(InWait(c))
  BY QueueRest DEF SynchTypeOK, QueuesHoldSleepers
<1>4. QED
  BY <1>1, <1>2, <1>3 DEF AsleepIn

LEMMA SynchStepIsSchedStep ==
  ASSUME SynchTypeOK, QueuesHoldSleepers, [SynchNext]_allVars
  PROVE  [SchedNext]_schedVars
<1>1. CASE SchedStep
  BY <1>1, WaitersSleep, PriorityAssumption DEF SchedStep, FinishesFree, SchedNext
<1>2. CASE SynchStep
  <2>1. ASSUME NEW s \in Semaphore, P(s) \/ V(s) \/ VInHandler(s) \/ VThenFinish(s)
        PROVE  SchedNext
    BY <2>1, WaitersSleep, Zenon DEF P, PSleeps, PReturns, V, VInHandler, VThenFinish,
                              SleepsIn, Returns, SchedNext
  <2>2. ASSUME NEW l \in Lock, Acquire(l) \/ Release(l)
        PROVE  SchedNext
    BY <2>2, WaitersSleep, Zenon DEF Acquire, AcquireSleeps, AcquireReturns, Release,
                              SleepsIn, Returns, SchedNext
  <2>3. ASSUME NEW c \in Condition, Wait(c) \/ Signal(c) \/ Broadcast(c)
        PROVE  SchedNext
    BY <2>3, WaitersSleep, SynchAssumption, Zenon DEF Wait, Signal, Broadcast,
                              SleepsIn, Returns, SchedNext
  <2>4. QED
    BY <1>2, <2>1, <2>2, <2>3 DEF SynchStep
<1>3. CASE UNCHANGED allVars
  BY <1>3 DEF allVars
<1>4. QED
  BY <1>1, <1>2, <1>3 DEF SynchNext

-----------------------------------------------------------------------------
(* The invariant is preserved, one lemma per facility.                     *)

\* What remains of SynchInv' once SynchStepIsSchedStep has given SchedInv'.
SynchOnlyInv ==
  /\ SynchTypeOK
  /\ CallConsistent
  /\ QueuesHoldSleepers
  /\ LockKnowsOwner
  /\ LockNoLostWakeup

LEMMA SchedStepSynchInv ==
  ASSUME SynchInv, SchedStep \/ UNCHANGED allVars
  PROVE  SynchOnlyInv'
<1> USE DEF SynchInv
<1>1. UNCHANGED synchVars
  BY DEF SchedStep, allVars
<1>2. /\ UNCHANGED <<value, semQueue, available, ownerThread, lockQueue, condQueue, call, critical>>
  BY <1>1 DEF synchVars, semVars, lockVars, condVars
<1>3. /\ CallConsistent'
      /\ \A k \in Call \ {NoCall} : AsleepIn(k)' = AsleepIn(k)
      /\ \A k \in Call \ {NoCall} : WokenIn(k)' = WokenIn(k)
  BY SchedStepCalls
<1>4. SynchTypeOK' /\ LockKnowsOwner'
  BY <1>2 DEF SynchTypeOK, LockKnowsOwner
<1>5. QueuesHoldSleepers'
  BY <1>2, <1>3, CallsDiffer, SMTT(30) DEF QueuesHoldSleepers
<1>6. LockNoLostWakeup'
  BY <1>2, <1>3, CallsDiffer DEF LockNoLostWakeup
<1>7. QED
  BY <1>3, <1>4, <1>5, <1>6 DEF SynchOnlyInv

LEMMA SemaphoreStepInv ==
  ASSUME SynchInv, NEW s \in Semaphore, P(s) \/ V(s) \/ VInHandler(s) \/ VThenFinish(s)
  PROVE  SynchOnlyInv'
<1> USE DEF SynchInv
<1> DEFINE w == Waiter(semQueue[s])
<1>0. /\ semQueue[s] \in Seq(Thread) /\ Distinct(semQueue[s])
      /\ Members(semQueue[s]) = AsleepIn(InP(s))
      /\ currentThread \in Thread
      /\ InP(s) \in Call \ {NoCall} /\ NoCall \in Call
      /\ w \in SUBSET Sleepers /\ {} \in SUBSET Sleepers
      /\ \A t \in w : call[t] = InP(s)
  BY WaitersSleep, CallsDiffer, SMTT(30) DEF SynchTypeOK, QueuesHoldSleepers, SchedInv, SchedTypeOK
<1>1. UNCHANGED <<available, ownerThread, lockQueue, condQueue, critical>>
  BY DEF P, PSleeps, PReturns, V, VInHandler, VThenFinish, VEffect, lockVars, condVars
\* The queue of s, and only it, follows the threads asleep in P(s).
<1> DEFINE Follows(q) ==
      /\ semQueue' = [semQueue EXCEPT ![s] = q]
      /\ q \in Seq(Thread) /\ Distinct(q) /\ Members(q) = AsleepIn(InP(s))'
    OtherCall == Call \ {NoCall, InP(s)}
    Others == \A k \in OtherCall : AsleepIn(k)' = AsleepIn(k) /\ WokenIn(k)' = WokenIn(k)
<1>2. /\ CallConsistent' /\ call' \in [Thread -> Call] /\ value' \in [Semaphore -> Nat]
      /\ Others
      /\ \E q : Follows(q)
  <2>1. CASE PSleeps(s)
    <3>1. /\ Region({}, TRUE) /\ call' = [call EXCEPT ![currentThread] = InP(s)]
          /\ Enters({InP(s)}) /\ value' = value
          /\ semQueue' = [semQueue EXCEPT ![s] = Append(semQueue[s], currentThread)]
      BY <2>1, Zenon DEF PSleeps, SleepsIn
    <3>2. currentThread \notin Sleepers /\ \A k \in OtherCall : currentThread \notin WokenIn(k)
      BY <3>1 DEF Region, Sleepers, Enters, WokenIn
    <3>3. /\ CallConsistent' /\ call' \in [Thread -> Call]
          /\ \A k \in Call : AsleepIn(k)' = (AsleepIn(k) \ {})
                               \cup (IF TRUE /\ k = InP(s) THEN {currentThread} ELSE {})
          /\ \A k \in Call \ {NoCall} :
               WokenIn(k)' = (WokenIn(k) \ {currentThread}) \cup {t \in {} : call[t] = k}
      <4>1. InP(s) \in Call
        BY <1>0
      <4>2. QED
        BY <3>1, <4>1, <1>0, RegionCalls, Zenon
    <3>4. ASSUME NEW k \in OtherCall
          PROVE  AsleepIn(k)' = AsleepIn(k) /\ WokenIn(k)' = WokenIn(k)
      <4>1. k \in Call /\ k # NoCall /\ k # InP(s) /\ currentThread \notin WokenIn(k)
        BY <3>2
      <4>2. AsleepIn(k)' = AsleepIn(k)
        BY <3>3, <4>1, Zenon
      <4>3. WokenIn(k)' = WokenIn(k)
        BY <3>3, <4>1
      <4>4. QED
        BY <4>2, <4>3
    <3>5. Follows(Append(semQueue[s], currentThread))
      <4>1. currentThread \notin Members(semQueue[s])
        BY <3>2, <1>0 DEF AsleepIn
      <4>2. AsleepIn(InP(s))' = AsleepIn(InP(s)) \cup {currentThread}
        BY <3>3, <1>0
      <4>3. QED
        BY <3>1, <4>1, <4>2, <1>0, QueueAppend
    <3>6. QED
      BY <3>1, <3>3, <3>4, <3>5, Zenon DEF SynchTypeOK
  <2>2. CASE PReturns(s)
    <3>1. /\ Region({}, FALSE) /\ call' = [call EXCEPT ![currentThread] = NoCall]
          /\ Enters({InP(s)}) /\ semQueue' = semQueue
          /\ value[s] > 0 /\ value' = [value EXCEPT ![s] = @ - 1]
      BY <2>2, Zenon DEF PReturns, Returns
    <3>2. \A k \in OtherCall : currentThread \notin WokenIn(k)
      BY <3>1 DEF Enters, WokenIn
    <3>3. /\ CallConsistent' /\ call' \in [Thread -> Call]
          /\ \A k \in Call : AsleepIn(k)' = (AsleepIn(k) \ {})
                               \cup (IF FALSE /\ k = NoCall THEN {currentThread} ELSE {})
          /\ \A k \in Call \ {NoCall} :
               WokenIn(k)' = (WokenIn(k) \ {currentThread}) \cup {t \in {} : call[t] = k}
      BY <3>1, <1>0, RegionCalls, Zenon
    <3>4. Others
      BY <3>2, <3>3, SMTT(30)
    <3>5. Follows(semQueue[s])
      <4>1. AsleepIn(InP(s))' = AsleepIn(InP(s))
        BY <3>3, <1>0
      <4>2. QED
        BY <3>1, <4>1, <1>0 DEF SynchTypeOK
    <3>6. value' \in [Semaphore -> Nat]
      BY <3>1 DEF SynchTypeOK
    <3>7. QED
      BY <3>3, <3>4, <3>5, <3>6, Zenon
  \* V by a thread, by a handler, and by a thread that finishes differ only in
  \* what they do to the current thread.
  <2>3. ASSUME VEffect(s), CallConsistent', call' \in [Thread -> Call],
               \A k \in Call \ {NoCall} : AsleepIn(k)' = AsleepIn(k) \ w,
               \A k \in Call \ {NoCall} : WokenIn(k)' = WokenIn(k) \cup {t \in w : call[t] = k}
        PROVE  /\ value' \in [Semaphore -> Nat]
               /\ Others
               /\ \E q : Follows(q)
    <3>1. ASSUME NEW k \in OtherCall
          PROVE  AsleepIn(k)' = AsleepIn(k) /\ WokenIn(k)' = WokenIn(k)
      <4>1. k \in Call \ {NoCall} /\ k # InP(s)
        OBVIOUS
      <4>2. AsleepIn(k) \ w = AsleepIn(k) /\ {t \in w : call[t] = k} = {}
        BY <1>0, <4>1 DEF AsleepIn
      <4>3. QED
        BY <2>3, <4>1, <4>2, ZenonT(30)
    <3>2. Follows(Rest(semQueue[s]))
      BY <2>3, <1>0, QueueRest, Zenon DEF VEffect
    <3>3. value' \in [Semaphore -> Nat]
      BY <2>3 DEF VEffect, SynchTypeOK
    <3>4. QED
      BY <3>1, <3>2, <3>3, Zenon
  <2>4. CASE V(s)
    <3>1. /\ Region(w, FALSE) /\ call' = [call EXCEPT ![currentThread] = NoCall]
          /\ Enters({}) /\ VEffect(s)
      BY <2>4, Zenon DEF V, Returns
    <3>2. \A k \in Call \ {NoCall} : currentThread \notin WokenIn(k)
      BY <3>1 DEF Enters, WokenIn
    <3>3. /\ CallConsistent' /\ call' \in [Thread -> Call]
          /\ \A k \in Call : AsleepIn(k)' = (AsleepIn(k) \ w)
                               \cup (IF FALSE /\ k = NoCall THEN {currentThread} ELSE {})
          /\ \A k \in Call \ {NoCall} :
               WokenIn(k)' = (WokenIn(k) \ {currentThread}) \cup {t \in w : call[t] = k}
      <4> HIDE DEF w
      <4>1. QED
        BY <3>1, <1>0, RegionCalls, Zenon
    <3>4. \A k \in Call \ {NoCall} :
            /\ AsleepIn(k)' = AsleepIn(k) \ w
            /\ WokenIn(k)' = WokenIn(k) \cup {t \in w : call[t] = k}
      BY <3>2, <3>3, SMTT(30)
    <3>5. QED
      BY <3>1, <3>3, <3>4, <2>3, SMTT(30)
  <2>5. CASE VInHandler(s) \/ VThenFinish(s)
    <3>1. /\ Handler(w) \/ Finish(w)
          /\ UNCHANGED call /\ VEffect(s)
      BY <2>5 DEF VInHandler, VThenFinish
    <3>2. /\ CallConsistent' /\ call' \in [Thread -> Call]
          /\ \A k \in Call \ {NoCall} : AsleepIn(k)' = AsleepIn(k) \ w
          /\ \A k \in Call \ {NoCall} : WokenIn(k)' = WokenIn(k) \cup {t \in w : call[t] = k}
      <4> HIDE DEF w
      <4>1. QED
        BY <3>1, <1>0, WakeCalls DEF SynchTypeOK
    <3>3. QED
      BY <3>1, <3>2, <2>3
  <2>6. QED
    BY <2>1, <2>2, <2>4, <2>5 DEF P
<1>3. PICK q : Follows(q)
  BY <1>2, Zenon
<1>4. SynchTypeOK'
  BY <1>1, <1>2, <1>3 DEF SynchTypeOK
<1>5. QueuesHoldSleepers'
  <2>1. ASSUME NEW r \in Semaphore
        PROVE  Distinct(semQueue'[r]) /\ Members(semQueue'[r]) = AsleepIn(InP(r))'
    <3>1. CASE r # s
      <4>1. semQueue'[r] = semQueue[r] /\ InP(r) \in OtherCall
        BY <1>3, <3>1, CallsDiffer DEF SynchTypeOK
      <4>2. QED
        BY <4>1, <1>2 DEF QueuesHoldSleepers
    <3>2. CASE r = s
      BY <1>3, <3>2 DEF SynchTypeOK
    <3>3. QED
      BY <3>1, <3>2
  <2>2. /\ \A l \in Lock : InAcquire(l) \in OtherCall
        /\ \A c \in Condition : InWait(c) \in OtherCall
    BY CallsDiffer, SMTT(30)
  <2>3. QED
    BY <2>1, <2>2, <1>1, <1>2 DEF QueuesHoldSleepers
<1>6. LockNoLostWakeup'
  <2>1. \A l \in Lock : InAcquire(l) \in OtherCall
    BY CallsDiffer
  <2>2. QED
    BY <2>1, <1>1, <1>2 DEF LockNoLostWakeup
<1>7. LockKnowsOwner'
  BY <1>1, Zenon DEF LockKnowsOwner
<1>8. QED
  BY <1>2, <1>4, <1>5, <1>6, <1>7 DEF SynchOnlyInv

\* A region in which the woken threads are all in the call from, and which ends
\* in Sleep: only the sleepers of from and of inCall change.
LEMMA SleepEffects ==
  ASSUME SchedInv, CallConsistent, SynchTypeOK,
         NEW inCall \in Call, NEW from \in Call, NEW woken \in SUBSET AsleepIn(from),
         SleepsIn(inCall, woken), from # inCall, inCall # NoCall
  PROVE  /\ CallConsistent'
         /\ call' \in [Thread -> Call]
         /\ currentThread \in Thread /\ currentThread \notin Sleepers
         /\ \A k \in Call : k # from /\ k # inCall => AsleepIn(k)' = AsleepIn(k)
         /\ AsleepIn(from)' = AsleepIn(from) \ woken
         /\ AsleepIn(inCall)' = AsleepIn(inCall) \cup {currentThread}
         /\ \A k \in Call : k # NoCall /\ k # call[currentThread] => WokenIn(k) \subseteq WokenIn(k)'
         /\ from # NoCall => woken \subseteq WokenIn(from)'
<1>0. /\ Region(woken, TRUE) /\ call' = [call EXCEPT ![currentThread] = inCall]
      /\ woken \in SUBSET Sleepers /\ \A t \in woken : call[t] = from
  BY Zenon DEF SleepsIn, AsleepIn
<1>1. /\ CallConsistent'
      /\ call' \in [Thread -> Call]
      /\ \A k \in Call :
           AsleepIn(k)' = (AsleepIn(k) \ woken)
                            \cup (IF TRUE /\ k = inCall THEN {currentThread} ELSE {})
      /\ \A k \in Call \ {NoCall} :
           WokenIn(k)' = (WokenIn(k) \ {currentThread}) \cup {t \in woken : call[t] = k}
  BY <1>0, RegionCalls, Zenon
<1>2. currentThread \in Thread /\ currentThread \notin Sleepers
  BY <1>0 DEF SchedInv, SchedTypeOK, Region, Sleepers
<1>3. ASSUME NEW k \in Call, k # from, k # inCall
      PROVE  AsleepIn(k)' = AsleepIn(k)
  <2>1. AsleepIn(k) \ woken = AsleepIn(k)
    BY <1>0, <1>3 DEF AsleepIn
  <2>2. QED
    BY <2>1, <1>1, <1>3
<1>4. AsleepIn(from)' = AsleepIn(from) \ woken
  BY <1>1
<1>5. AsleepIn(inCall)' = AsleepIn(inCall) \cup {currentThread}
  <2>1. AsleepIn(inCall) \ woken = AsleepIn(inCall)
    BY <1>0 DEF AsleepIn
  <2>2. QED
    BY <2>1, <1>1
<1>6. ASSUME NEW k \in Call, k # NoCall, k # call[currentThread]
      PROVE  WokenIn(k) \subseteq WokenIn(k)'
  <2>1. currentThread \notin WokenIn(k)
    BY <1>6 DEF WokenIn
  <2>2. QED
    BY <2>1, <1>1, <1>6
<1>7. from # NoCall => woken \subseteq WokenIn(from)'
  BY <1>0, <1>1
<1>8. QED
  BY <1>1, <1>2, <1>3, <1>4, <1>5, <1>6, <1>7

\* The same for a region that ends with the return of the call.
LEMMA ReturnEffects ==
  ASSUME SchedInv, CallConsistent, SynchTypeOK,
         NEW from \in Call, NEW woken \in SUBSET AsleepIn(from),
         Returns(woken)
  PROVE  /\ CallConsistent'
         /\ call' \in [Thread -> Call]
         /\ currentThread \in Thread
         /\ \A k \in Call : k # from => AsleepIn(k)' = AsleepIn(k)
         /\ AsleepIn(from)' = AsleepIn(from) \ woken
         /\ \A k \in Call : k # NoCall /\ k # call[currentThread] => WokenIn(k) \subseteq WokenIn(k)'
         /\ from # NoCall => woken \subseteq WokenIn(from)'
<1>0. /\ Region(woken, FALSE) /\ call' = [call EXCEPT ![currentThread] = NoCall]
      /\ woken \in SUBSET Sleepers /\ \A t \in woken : call[t] = from
      /\ NoCall \in Call
  BY CallsDiffer, Zenon DEF Returns, AsleepIn
<1>1. /\ CallConsistent'
      /\ call' \in [Thread -> Call]
      /\ \A k \in Call :
           AsleepIn(k)' = (AsleepIn(k) \ woken)
                            \cup (IF FALSE /\ k = NoCall THEN {currentThread} ELSE {})
      /\ \A k \in Call \ {NoCall} :
           WokenIn(k)' = (WokenIn(k) \ {currentThread}) \cup {t \in woken : call[t] = k}
  BY <1>0, RegionCalls, Zenon
<1>2. currentThread \in Thread
  BY DEF SchedInv, SchedTypeOK
<1>3. ASSUME NEW k \in Call, k # from
      PROVE  AsleepIn(k)' = AsleepIn(k)
  <2>1. AsleepIn(k) \ woken = AsleepIn(k)
    BY <1>0, <1>3 DEF AsleepIn
  <2>2. QED
    BY <2>1, <1>1, <1>3
<1>4. AsleepIn(from)' = AsleepIn(from) \ woken
  BY <1>1
<1>5. ASSUME NEW k \in Call, k # NoCall, k # call[currentThread]
      PROVE  WokenIn(k) \subseteq WokenIn(k)'
  <2>1. currentThread \notin WokenIn(k)
    BY <1>5 DEF WokenIn
  <2>2. QED
    BY <2>1, <1>1, <1>5
<1>6. from # NoCall => woken \subseteq WokenIn(from)'
  BY <1>0, <1>1
<1>7. QED
  BY <1>1, <1>2, <1>3, <1>4, <1>5, <1>6

LEMMA AcquireSleepsInv ==
  ASSUME SynchInv, NEW l \in Lock, AcquireSleeps(l)
  PROVE  SynchOnlyInv'
<1> USE DEF SynchInv
<1>0. /\ SleepsIn(InAcquire(l), {})
      /\ Enters(AcquireCalls(l)) /\ ~available[l]
      /\ lockQueue' = [lockQueue EXCEPT ![l] = Append(lockQueue[l], currentThread)]
      /\ UNCHANGED <<value, semQueue, available, ownerThread, critical, condQueue>>
  BY SMTT(30) DEF AcquireSleeps, semVars, condVars
<1>1. /\ CallConsistent' /\ call' \in [Thread -> Call]
      /\ currentThread \in Thread /\ currentThread \notin Sleepers
      /\ \A k \in Call : k # NoCall /\ k # InAcquire(l) => AsleepIn(k)' = AsleepIn(k)
      /\ AsleepIn(InAcquire(l))' = AsleepIn(InAcquire(l)) \cup {currentThread}
      /\ \A k \in Call : k # NoCall /\ k # call[currentThread] => WokenIn(k) \subseteq WokenIn(k)'
  <2>1. InAcquire(l) \in Call /\ InAcquire(l) # NoCall /\ NoCall \in Call
    BY CallsDiffer
  <2>2. {} \in SUBSET AsleepIn(NoCall)
    BY SMTT(30)
  <2>3. QED
    BY <1>0, <2>1, <2>2, SleepEffects
<1>2. /\ lockQueue[l] \in Seq(Thread) /\ Distinct(lockQueue[l])
      /\ Members(lockQueue[l]) = AsleepIn(InAcquire(l))
      /\ currentThread \notin Members(lockQueue[l])
  BY <1>1, SMTT(30) DEF SynchTypeOK, QueuesHoldSleepers, AsleepIn
<1>3. SynchTypeOK'
  BY <1>0, <1>1, <1>2, QueueAppend DEF SynchTypeOK
<1>4. QueuesHoldSleepers'
  <2>1. ASSUME NEW m \in Lock
        PROVE  Distinct(lockQueue'[m]) /\ Members(lockQueue'[m]) = AsleepIn(InAcquire(m))'
    <3>1. CASE m # l
      <4>1. lockQueue'[m] = lockQueue[m] /\ AsleepIn(InAcquire(m))' = AsleepIn(InAcquire(m))
        BY <1>0, <1>1, <3>1, CallsDiffer, SMTT(30) DEF SynchTypeOK
      <4>2. QED
        BY <4>1, SMTT(30) DEF QueuesHoldSleepers
    <3>2. CASE m = l
      <4>1. lockQueue'[l] = Append(lockQueue[l], currentThread)
        BY <1>0 DEF SynchTypeOK
      <4>2. QED
        BY <4>1, <3>2, <1>1, <1>2, QueueAppend, ZenonT(30)
    <3>3. QED
      BY <3>1, <3>2, SMTT(30)
  <2>2. /\ \A s \in Semaphore : AsleepIn(InP(s))' = AsleepIn(InP(s))
        /\ \A c \in Condition : AsleepIn(InWait(c))' = AsleepIn(InWait(c))
    BY <1>1, CallsDiffer
  <2>3. QED
    BY <2>1, <2>2, <1>0, Zenon DEF QueuesHoldSleepers
<1>5. LockKnowsOwner'
  BY <1>0, Zenon DEF LockKnowsOwner
<1>6. LockNoLostWakeup'
  <2> SUFFICES ASSUME NEW m \in Lock, lockQueue'[m] # <<>>, available'[m]
               PROVE  WokenIn(InAcquire(m))' # {}
    BY DEF LockNoLostWakeup
  <2>1. m # l /\ lockQueue'[m] = lockQueue[m]
    BY <1>0, SMTT(30) DEF SynchTypeOK
  <2>2. WokenIn(InAcquire(m)) # {}
    <3>1. lockQueue[m] # <<>> /\ available[m]
      BY <2>1, <1>0, Zenon
    <3>2. QED
      BY <3>1, Zenon DEF LockNoLostWakeup
  <2>3. call[currentThread] # InAcquire(m) /\ InAcquire(m) \in Call /\ InAcquire(m) # NoCall
    BY <2>1, <1>0, CallsDiffer DEF Enters, AcquireCalls
  <2>4. QED
    BY <2>2, <2>3, <1>1
<1>7. QED
  BY <1>1, <1>3, <1>4, <1>5, <1>6 DEF SynchOnlyInv

LEMMA AcquireReturnsInv ==
  ASSUME SynchInv, NEW l \in Lock, AcquireReturns(l)
  PROVE  SynchOnlyInv'
<1> USE DEF SynchInv
<1>0. /\ Returns({})
      /\ Enters(AcquireCalls(l)) /\ available[l]
      /\ available' = [available EXCEPT ![l] = FALSE]
      /\ ownerThread' = [ownerThread EXCEPT ![l] = currentThread]
      /\ critical' = [critical EXCEPT ![l] = @ \cup {currentThread}]
      /\ UNCHANGED <<value, semQueue, lockQueue, condQueue>>
  BY SMTT(30) DEF AcquireReturns, semVars, condVars
<1>1. /\ CallConsistent' /\ call' \in [Thread -> Call]
      /\ currentThread \in Thread
      /\ \A k \in Call : k # NoCall => AsleepIn(k)' = AsleepIn(k)
      /\ \A k \in Call : k # NoCall /\ k # call[currentThread] => WokenIn(k) \subseteq WokenIn(k)'
  <2>1. NoCall \in Call
    BY CallsDiffer
  <2>2. {} \in SUBSET AsleepIn(NoCall)
    OBVIOUS
  <2>3. QED
    BY <1>0, <2>1, <2>2, ReturnEffects
<1>2. SynchTypeOK'
  BY <1>0, <1>1 DEF SynchTypeOK
<1>3. QueuesHoldSleepers'
  BY <1>0, <1>1, CallsDiffer, ZenonT(30) DEF QueuesHoldSleepers
<1>4. LockKnowsOwner'
  BY <1>0, <1>1, ThreadAssumption, ZenonT(30) DEF LockKnowsOwner, SynchTypeOK
<1>5. LockNoLostWakeup'
  <2> SUFFICES ASSUME NEW m \in Lock, lockQueue'[m] # <<>>, available'[m]
               PROVE  WokenIn(InAcquire(m))' # {}
    BY DEF LockNoLostWakeup
  <2>1. m # l /\ available[m]
    BY <1>0 DEF SynchTypeOK
  <2>2. WokenIn(InAcquire(m)) # {}
    BY <2>1, <1>0 DEF LockNoLostWakeup
  <2>3. call[currentThread] # InAcquire(m) /\ InAcquire(m) \in Call /\ InAcquire(m) # NoCall
    BY <2>1, <1>0, CallsDiffer, SMTT(30) DEF Enters, AcquireCalls
  <2>4. QED
    BY <2>2, <2>3, <1>1, SMTT(30)
<1>6. QED
  BY <1>1, <1>2, <1>3, <1>4, <1>5 DEF SynchOnlyInv

\* What Release leaves behind, in Release and in Wait.
LEMMA ReleaseEffectInv ==
  ASSUME SynchInv, NEW l \in Lock, ReleaseEffect(l), Enters({}),
         currentThread \in Thread,
         Waiter(lockQueue[l]) \subseteq WokenIn(InAcquire(l))',
         \A k \in Call : k # NoCall => WokenIn(k) \subseteq WokenIn(k)',
         \A m \in Lock : m # l => AsleepIn(InAcquire(m))' = AsleepIn(InAcquire(m)),
         AsleepIn(InAcquire(l))' = AsleepIn(InAcquire(l)) \ Waiter(lockQueue[l])
  PROVE  /\ available' \in [Lock -> BOOLEAN]
         /\ ownerThread' \in [Lock -> Thread \cup {NULL}]
         /\ lockQueue' \in [Lock -> Seq(Thread)]
         /\ critical' \in [Lock -> SUBSET Thread]
         /\ \A m \in Lock : Distinct(lockQueue'[m]) /\ Members(lockQueue'[m]) = AsleepIn(InAcquire(m))'
         /\ LockKnowsOwner'
         /\ LockNoLostWakeup'
<1> USE DEF SynchInv
<1>1. /\ lockQueue[l] \in Seq(Thread) /\ Distinct(lockQueue[l])
      /\ Members(lockQueue[l]) = AsleepIn(InAcquire(l))
      /\ lockQueue' = [lockQueue EXCEPT ![l] = Rest(lockQueue[l])]
      /\ Rest(lockQueue[l]) \in Seq(Thread)
  BY QueueRest, SMTT(30) DEF SynchTypeOK, QueuesHoldSleepers, ReleaseEffect
<1>2. /\ available' \in [Lock -> BOOLEAN]
      /\ ownerThread' \in [Lock -> Thread \cup {NULL}]
      /\ lockQueue' \in [Lock -> Seq(Thread)]
      /\ critical' \in [Lock -> SUBSET Thread]
  BY <1>1, SMTT(30) DEF SynchTypeOK, ReleaseEffect
<1>3. ASSUME NEW m \in Lock
      PROVE  Distinct(lockQueue'[m]) /\ Members(lockQueue'[m]) = AsleepIn(InAcquire(m))'
  <2>1. CASE m = l
    <3>1. lockQueue'[l] = Rest(lockQueue[l])
      BY <1>1, SMTT(30) DEF SynchTypeOK
    <3>2. QED
      BY <2>1, <3>1, <1>1, QueueRest, ZenonT(30)
  <2>2. CASE m # l
    <3>1. lockQueue'[m] = lockQueue[m]
      BY <1>1, <2>2, SMTT(30) DEF SynchTypeOK
    <3>2. QED
      BY <2>2, <3>1 DEF QueuesHoldSleepers
  <2>3. QED
    BY <2>1, <2>2, Zenon
<1>4. LockKnowsOwner'
  <2>1. critical[l] = {currentThread}
    BY ZenonT(30) DEF LockKnowsOwner, ReleaseEffect
  <2>2. QED
    BY <2>1, Zenon DEF LockKnowsOwner, ReleaseEffect, SynchTypeOK
<1>5. LockNoLostWakeup'
  <2> SUFFICES ASSUME NEW m \in Lock, lockQueue'[m] # <<>>, available'[m]
               PROVE  WokenIn(InAcquire(m))' # {}
    BY SMTT(30) DEF LockNoLostWakeup
  <2>1. CASE m = l
    BY <2>1, <1>1 DEF Waiter, Rest, SynchTypeOK
  <2>2. CASE m # l
    <3>1. available[m] /\ lockQueue[m] # <<>>
      BY <2>2, <1>1, SMTT(30) DEF ReleaseEffect, SynchTypeOK
    <3>2. QED
      BY <3>1, CallsDiffer, ZenonT(30) DEF LockNoLostWakeup
  <2>3. QED
    BY <2>1, <2>2
<1>6. QED
  BY <1>2, <1>3, <1>4, <1>5, SMTT(30)

LEMMA ReleaseInv ==
  ASSUME SynchInv, NEW l \in Lock, Release(l)
  PROVE  SynchOnlyInv'
<1> USE DEF SynchInv
<1> DEFINE w == Waiter(lockQueue[l])
<1>0. /\ Returns(w) /\ Enters({}) /\ ReleaseEffect(l)
      /\ UNCHANGED <<value, semQueue, condQueue>>
      /\ call[currentThread] = NoCall
  BY Zenon DEF Release, semVars, condVars, Enters
<1>1. /\ w \in SUBSET AsleepIn(InAcquire(l))
      /\ InAcquire(l) \in Call /\ InAcquire(l) # NoCall
  BY WaitersSleep, CallsDiffer DEF AsleepIn
<1>2. /\ CallConsistent' /\ call' \in [Thread -> Call]
      /\ currentThread \in Thread
      /\ \A k \in Call : k # InAcquire(l) => AsleepIn(k)' = AsleepIn(k)
      /\ AsleepIn(InAcquire(l))' = AsleepIn(InAcquire(l)) \ w
      /\ \A k \in Call : k # NoCall => WokenIn(k) \subseteq WokenIn(k)'
      /\ w \subseteq WokenIn(InAcquire(l))'
  <2> HIDE DEF w
  <2>1. QED
    BY <1>0, <1>1, ReturnEffects, SMTT(30)
<1>3. \A m \in Lock : m # l => AsleepIn(InAcquire(m))' = AsleepIn(InAcquire(m))
  BY <1>2, CallsDiffer, SMTT(30)
<1>4. /\ available' \in [Lock -> BOOLEAN]
      /\ ownerThread' \in [Lock -> Thread \cup {NULL}]
      /\ lockQueue' \in [Lock -> Seq(Thread)]
      /\ critical' \in [Lock -> SUBSET Thread]
      /\ \A m \in Lock : Distinct(lockQueue'[m]) /\ Members(lockQueue'[m]) = AsleepIn(InAcquire(m))'
      /\ LockKnowsOwner'
      /\ LockNoLostWakeup'
  BY <1>0, <1>2, <1>3, ReleaseEffectInv, SMTT(30)
<1>5. SynchTypeOK'
  BY <1>0, <1>2, <1>4 DEF SynchTypeOK
<1>6. QueuesHoldSleepers'
  <2>1. /\ \A s \in Semaphore : AsleepIn(InP(s))' = AsleepIn(InP(s))
        /\ \A c \in Condition : AsleepIn(InWait(c))' = AsleepIn(InWait(c))
    BY <1>2, CallsDiffer
  <2>2. QED
    BY <2>1, <1>0, <1>4, ZenonT(30) DEF QueuesHoldSleepers
<1>7. QED
  BY <1>2, <1>4, <1>5, <1>6 DEF SynchOnlyInv

LEMMA WaitInv ==
  ASSUME SynchInv, NEW c \in Condition, Wait(c)
  PROVE  SynchOnlyInv'
<1> USE DEF SynchInv
<1> DEFINE l == conditionLock[c]
           w == Waiter(lockQueue[l])
<1>l. l \in Lock
  BY SynchAssumption, SMTT(30)
<1> HIDE DEF l
<1>0. /\ SleepsIn(InWait(c), w) /\ Enters({}) /\ ReleaseEffect(l)
      /\ UNCHANGED <<value, semQueue>>
      /\ condQueue' = [condQueue EXCEPT ![c] = Append(condQueue[c], currentThread)]
      /\ call[currentThread] = NoCall
  BY Zenon DEF Wait, semVars, Enters, l
<1>1. /\ w \in SUBSET AsleepIn(InAcquire(l))
      /\ InAcquire(l) \in Call /\ InAcquire(l) # NoCall
      /\ InWait(c) \in Call /\ InWait(c) # NoCall /\ InAcquire(l) # InWait(c)
  <2>1. w \in SUBSET Sleepers /\ \A t \in w : call[t] = InAcquire(l)
    BY <1>l, WaitersSleep, Zenon
  <2>2. w \in SUBSET AsleepIn(InAcquire(l))
    BY <2>1, Zenon DEF AsleepIn
  <2>3. QED
    BY <2>2, <1>l, CallsDiffer, Zenon
<1>2. /\ CallConsistent' /\ call' \in [Thread -> Call]
      /\ currentThread \in Thread /\ currentThread \notin Sleepers
      /\ \A k \in Call : k # InAcquire(l) /\ k # InWait(c) => AsleepIn(k)' = AsleepIn(k)
      /\ AsleepIn(InAcquire(l))' = AsleepIn(InAcquire(l)) \ w
      /\ AsleepIn(InWait(c))' = AsleepIn(InWait(c)) \cup {currentThread}
      /\ \A k \in Call : k # NoCall => WokenIn(k) \subseteq WokenIn(k)'
      /\ w \subseteq WokenIn(InAcquire(l))'
  <2> HIDE DEF w
  <2>1. QED
    BY <1>0, <1>1, SleepEffects, SMTT(30)
<1>3. \A m \in Lock : m # l => AsleepIn(InAcquire(m))' = AsleepIn(InAcquire(m))
  BY <1>2, <1>l, CallsDiffer, SMTT(30)
<1>4. /\ available' \in [Lock -> BOOLEAN]
      /\ ownerThread' \in [Lock -> Thread \cup {NULL}]
      /\ lockQueue' \in [Lock -> Seq(Thread)]
      /\ critical' \in [Lock -> SUBSET Thread]
      /\ \A m \in Lock : Distinct(lockQueue'[m]) /\ Members(lockQueue'[m]) = AsleepIn(InAcquire(m))'
      /\ LockKnowsOwner'
      /\ LockNoLostWakeup'
  BY <1>l, <1>0, <1>2, <1>3, ReleaseEffectInv, SMTT(30)
<1>5. /\ condQueue[c] \in Seq(Thread) /\ Distinct(condQueue[c])
      /\ Members(condQueue[c]) = AsleepIn(InWait(c))
      /\ currentThread \notin Members(condQueue[c])
  BY <1>2, SMTT(30) DEF SynchTypeOK, QueuesHoldSleepers, AsleepIn
<1>6. SynchTypeOK'
  BY <1>0, <1>2, <1>4, <1>5, QueueAppend DEF SynchTypeOK
<1>7. QueuesHoldSleepers'
  <2>1. ASSUME NEW d \in Condition
        PROVE  Distinct(condQueue'[d]) /\ Members(condQueue'[d]) = AsleepIn(InWait(d))'
    <3>1. CASE d # c
      <4>1. condQueue'[d] = condQueue[d] /\ AsleepIn(InWait(d))' = AsleepIn(InWait(d))
        BY <1>0, <1>2, <3>1, <1>l, CallsDiffer DEF SynchTypeOK
      <4>2. QED
        BY <4>1, ZenonT(30) DEF QueuesHoldSleepers
    <3>2. CASE d = c
      <4>1. condQueue'[c] = Append(condQueue[c], currentThread)
        BY <1>0, SMTT(30) DEF SynchTypeOK
      <4>2. QED
        BY <4>1, <3>2, <1>2, <1>5, QueueAppend, Zenon
    <3>3. QED
      BY <3>1, <3>2
  <2>2. \A s \in Semaphore : AsleepIn(InP(s))' = AsleepIn(InP(s))
    BY <1>2, <1>l, CallsDiffer, SMTT(30)
  <2>3. QED
    BY <2>1, <2>2, <1>0, <1>4, Zenon DEF QueuesHoldSleepers
<1>8. QED
  BY <1>2, <1>4, <1>6, <1>7 DEF SynchOnlyInv

LEMMA SignalInv ==
  ASSUME SynchInv, NEW c \in Condition, Signal(c) \/ Broadcast(c)
  PROVE  SynchOnlyInv'
<1> USE DEF SynchInv
<1>0. /\ condQueue[c] \in Seq(Thread) /\ Distinct(condQueue[c])
      /\ Members(condQueue[c]) = AsleepIn(InWait(c))
      /\ InWait(c) \in Call /\ InWait(c) # NoCall
  BY CallsDiffer, SMTT(30) DEF SynchTypeOK, QueuesHoldSleepers
\* Signal takes the first thread and leaves the rest, Broadcast takes them all.
<1>1. \E woken \in SUBSET AsleepIn(InWait(c)), q \in Seq(Thread) :
        /\ Returns(woken)
        /\ condQueue' = [condQueue EXCEPT ![c] = q]
        /\ Distinct(q) /\ Members(q) = AsleepIn(InWait(c)) \ woken
  <2>1. CASE Signal(c)
    <3>1. /\ Returns(Waiter(condQueue[c]))
          /\ condQueue' = [condQueue EXCEPT ![c] = Rest(condQueue[c])]
      BY <2>1, Zenon DEF Signal
    <3>2. /\ Waiter(condQueue[c]) \in SUBSET AsleepIn(InWait(c))
          /\ Rest(condQueue[c]) \in Seq(Thread) /\ Distinct(Rest(condQueue[c]))
          /\ Members(Rest(condQueue[c])) = AsleepIn(InWait(c)) \ Waiter(condQueue[c])
      BY <1>0, QueueRest, SMTT(30)
    <3>3. QED
      BY <3>1, <3>2, ZenonT(30)
  <2>2. CASE Broadcast(c)
    <3>1. /\ Returns(AsleepIn(InWait(c)))
          /\ condQueue' = [condQueue EXCEPT ![c] = <<>>]
      <4>1. /\ Returns(Members(condQueue[c]))
            /\ condQueue' = [condQueue EXCEPT ![c] = <<>>]
        BY <2>2, Zenon DEF Broadcast
      <4>2. QED
        BY <4>1, <1>0, Zenon
    <3>2. /\ <<>> \in Seq(Thread) /\ Distinct(<<>>)
          /\ Members(<<>>) = AsleepIn(InWait(c)) \ AsleepIn(InWait(c))
      BY QueueEmpty
    <3>3. QED
      BY <3>1, <3>2, Zenon
  <2>3. QED
    BY <2>1, <2>2
<1>2. PICK woken \in SUBSET AsleepIn(InWait(c)), q \in Seq(Thread) :
        /\ Returns(woken)
        /\ condQueue' = [condQueue EXCEPT ![c] = q]
        /\ Distinct(q) /\ Members(q) = AsleepIn(InWait(c)) \ woken
  BY <1>1, ZenonT(30)
<1>3. /\ UNCHANGED <<value, semQueue, available, ownerThread, lockQueue, critical>>
      /\ call[currentThread] = NoCall
  BY Zenon DEF Signal, Broadcast, semVars, lockVars, Enters
<1>4. /\ CallConsistent' /\ call' \in [Thread -> Call]
      /\ \A k \in Call : k # InWait(c) => AsleepIn(k)' = AsleepIn(k)
      /\ AsleepIn(InWait(c))' = AsleepIn(InWait(c)) \ woken
      /\ \A k \in Call : k # NoCall => WokenIn(k) \subseteq WokenIn(k)'
  BY <1>0, <1>2, <1>3, ReturnEffects, SMTT(30)
<1>5. SynchTypeOK'
  BY <1>2, <1>3, <1>4 DEF SynchTypeOK
<1>6. QueuesHoldSleepers'
  <2>1. ASSUME NEW d \in Condition
        PROVE  Distinct(condQueue'[d]) /\ Members(condQueue'[d]) = AsleepIn(InWait(d))'
    <3>1. CASE d # c
      <4>1. condQueue'[d] = condQueue[d] /\ AsleepIn(InWait(d))' = AsleepIn(InWait(d))
        <5>1. InWait(d) \in Call /\ InWait(d) # InWait(c)
          BY <3>1, CallsDiffer, Zenon
        <5>2. condQueue \in [Condition -> Seq(Thread)]
          BY Zenon DEF SynchTypeOK
        <5>3. condQueue'[d] = condQueue[d]
          BY <5>2, <1>2, <3>1, Zenon
        <5>4. QED
          BY <5>1, <5>3, <1>4, Zenon
      <4>2. QED
        BY <4>1, Zenon DEF QueuesHoldSleepers
    <3>2. CASE d = c
      BY <3>2, <1>2, <1>4, SMTT(30) DEF SynchTypeOK
    <3>3. QED
      BY <3>1, <3>2, SMTT(30)
  <2>2. /\ \A s \in Semaphore : AsleepIn(InP(s))' = AsleepIn(InP(s))
        /\ \A l \in Lock : AsleepIn(InAcquire(l))' = AsleepIn(InAcquire(l))
    BY <1>4, CallsDiffer
  <2>3. QED
    BY <2>1, <2>2, <1>3, ZenonT(30) DEF QueuesHoldSleepers
<1>7. LockKnowsOwner'
  BY <1>3, ZenonT(30) DEF LockKnowsOwner
<1>8. LockNoLostWakeup'
  <2>1. \A l \in Lock : WokenIn(InAcquire(l)) \subseteq WokenIn(InAcquire(l))'
    BY <1>4, CallsDiffer
  <2>2. ASSUME NEW l \in Lock, lockQueue'[l] # <<>>, available'[l]
        PROVE  WokenIn(InAcquire(l))' # {}
    <3>1. lockQueue[l] # <<>> /\ available[l]
      BY <2>2, <1>3, Zenon
    <3>2. WokenIn(InAcquire(l)) # {}
      BY <3>1, Zenon DEF LockNoLostWakeup
    <3>3. QED
      BY <3>2, <2>1, Zenon
  <2>3. QED
    BY <2>2, Zenon DEF LockNoLostWakeup
<1>9. QED
  BY <1>4, <1>5, <1>6, <1>7, <1>8, SMTT(30) DEF SynchOnlyInv

LEMMA SynchStepInv == SynchInv /\ [SynchNext]_allVars => SynchInv'
<1> SUFFICES ASSUME SynchInv, [SynchNext]_allVars
             PROVE  SynchInv'
  OBVIOUS
<1>1. SchedInv'
  BY SynchStepIsSchedStep, SchedStepInv DEF SynchInv
<1>2. SynchOnlyInv'
  <2>1. CASE SchedStep \/ UNCHANGED allVars
    BY <2>1, SchedStepSynchInv
  <2>2. ASSUME NEW s \in Semaphore, P(s) \/ V(s) \/ VInHandler(s) \/ VThenFinish(s)
        PROVE  SynchOnlyInv'
    BY <2>2, SemaphoreStepInv
  <2>3. ASSUME NEW l \in Lock, Acquire(l) \/ Release(l)
        PROVE  SynchOnlyInv'
    BY <2>3, AcquireSleepsInv, AcquireReturnsInv, ReleaseInv DEF Acquire
  <2>4. ASSUME NEW c \in Condition, Wait(c) \/ Signal(c) \/ Broadcast(c)
        PROVE  SynchOnlyInv'
    BY <2>4, WaitInv, SignalInv
  <2>5. QED
    BY <2>1, <2>2, <2>3, <2>4 DEF SynchNext, SynchStep
<1>3. QED
  BY <1>1, <1>2 DEF SynchInv, SynchOnlyInv

-----------------------------------------------------------------------------
(* The theorems.                                                           *)

\* Every queue of synch.cc holds exactly the threads asleep in that object's
\* call: P, V, Acquire, Release, Wait, Signal and Broadcast never leave a
\* sleeping thread off its queue and never wake one that does not sleep.
THEOREM QueuesTheorem == SynchSpec => []QueuesHoldSleepers
<1>1. SynchInv => QueuesHoldSleepers
  BY DEF SynchInv
<1>2. QED
  BY <1>1, SynchInitInv, SynchStepInv, PTL DEF SynchSpec, AllInit

\* Lock::Acquire gives the lock to one thread at a time, whichever threads
\* take it between a Release and the wakeup it made.
THEOREM MutualExclusionTheorem == SynchSpec => []MutualExclusion
<1>1. SynchInv => MutualExclusion
  BY Zenon DEF SynchInv, LockKnowsOwner, MutualExclusion
<1>2. QED
  BY <1>1, SynchInitInv, SynchStepInv, PTL DEF SynchSpec, AllInit

\* available and ownerThread agree with who is inside: the ASSERTs of Acquire,
\* Wait, Signal and Broadcast cannot fail for callers that follow synch.h.
THEOREM LockKnowsOwnerTheorem == SynchSpec => []LockKnowsOwner
<1>1. SynchInv => LockKnowsOwner
  BY DEF SynchInv
<1>2. QED
  BY <1>1, SynchInitInv, SynchStepInv, PTL DEF SynchSpec, AllInit

\* A lock is never free with threads asleep on it and none on its way: the
\* wakeup a Release makes is not lost to a thread that takes the lock first.
THEOREM LockNoLostWakeupTheorem == SynchSpec => []LockNoLostWakeup
<1>1. SynchInv => LockNoLostWakeup
  BY DEF SynchInv
<1>2. QED
  BY <1>1, SynchInitInv, SynchStepInv, PTL DEF SynchSpec, AllInit

\* synch.cc uses thread.cc and scheduler.cc as the dispatcher expects, so what
\* is proved of the dispatcher holds with these callers too.
THEOREM SynchRefinesScheduler == SynchSpec => ImplementsScheduler
<1>1. SynchInv /\ [SynchNext]_allVars => [SchedNext]_schedVars
  BY SynchStepIsSchedStep DEF SynchInv
<1>2. QED
  BY <1>1, SynchInitInv, SynchStepInv, PTL DEF SynchSpec, AllInit, SchedSpec, ImplementsScheduler
=============================================================================
