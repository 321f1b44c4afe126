-------------------------------- MODULE Synch --------------------------------
(***************************************************************************)
(* Semaphores, locks and condition variables: threads/synch.cc.            *)
(*                                                                         *)
(* P, Acquire and Wait may sleep.  The part of such a call up to Sleep is  *)
(* one action; when the thread is dispatched again it is still inside the  *)
(* call, with interrupts off, and takes the loop's test once more.  call   *)
(* records the call a thread is inside.                                    *)
(*                                                                         *)
(* The callers follow the conventions of synch.h: a thread releases only a *)
(* lock it acquired, and uses a condition only while it holds its lock.    *)
(***************************************************************************)
EXTENDS Scheduler, Sequences, FiniteSets

CONSTANTS Semaphore,      \* the semaphores
          Lock,           \* the locks
          Condition,      \* the condition variables
          initialValue,   \* the value each semaphore is constructed with
          conditionLock,  \* the lock that protects each condition variable
          MaxValue        \* bound on a semaphore's value (an int in the code)

ASSUME SynchAssumption ==
  /\ initialValue \in [Semaphore -> Nat]
  /\ conditionLock \in [Condition -> Lock]
  /\ MaxValue \in Nat

\* Threads are objects in the memory of one process.
ASSUME ThreadsFinite == IsFiniteSet(Thread)

VARIABLES
  value,        \* Semaphore::value
  semQueue,     \* Semaphore::queue
  available,    \* Lock::available
  ownerThread,  \* Lock::ownerThread
  lockQueue,    \* Lock::queue
  condQueue,    \* Condition::queue
  call,         \* the call each thread is inside, if it has slept in one
  critical      \* the threads between the return of Acquire and Release

semVars   == <<value, semQueue>>
lockVars  == <<available, ownerThread, lockQueue, critical>>
condVars  == <<condQueue>>
synchVars == <<semVars, lockVars, condVars, call>>
allVars   == <<schedVars, synchVars>>

NoCall        == [op |-> "none", on |-> NULL]
InP(s)        == [op |-> "P", on |-> s]
InAcquire(l)  == [op |-> "Acquire", on |-> l]
InWait(c)     == [op |-> "Wait", on |-> c]
Call == {NoCall} \cup {InP(s) : s \in Semaphore} \cup {InAcquire(l) : l \in Lock}
                 \cup {InWait(c) : c \in Condition}

SynchTypeOK ==
  /\ value \in [Semaphore -> Nat]
  /\ semQueue \in [Semaphore -> Seq(Thread)]
  /\ available \in [Lock -> BOOLEAN]
  /\ ownerThread \in [Lock -> Thread \cup {NULL}]
  /\ lockQueue \in [Lock -> Seq(Thread)]
  /\ condQueue \in [Condition -> Seq(Thread)]
  /\ call \in [Thread -> Call]
  /\ critical \in [Lock -> SUBSET Thread]

SynchInit ==
  /\ value = initialValue
  /\ semQueue = [s \in Semaphore |-> <<>>]
  /\ available = [l \in Lock |-> TRUE]
  /\ ownerThread = [l \in Lock |-> NULL]
  /\ lockQueue = [l \in Lock |-> <<>>]
  /\ condQueue = [c \in Condition |-> <<>>]
  /\ call = [t \in Thread |-> NoCall]
  /\ critical = [l \in Lock |-> {}]

-----------------------------------------------------------------------------
(* List::Remove: the first item, if there is one.                          *)

Waiter(queue) == IF queue = <<>> THEN {} ELSE {Head(queue)}
Rest(queue)   == IF queue = <<>> THEN <<>> ELSE Tail(queue)
Members(queue) == {queue[i] : i \in 1..Len(queue)}

\* The current thread makes the call, or goes on with it after Sleep.
Enters(calls) ==
  /\ status[currentThread] = "RUNNING"
  /\ mode = "SystemMode"
  /\ \/ level = "IntOn" /\ call[currentThread] = NoCall
     \/ call[currentThread] \in calls

\* The region ends in Sleep: the thread stays inside inCall.
SleepsIn(inCall, woken) ==
  /\ Region(woken, TRUE)
  /\ call' = [call EXCEPT ![currentThread] = inCall]

\* The region ends with SetLevel(oldLevel) and the call returns.
Returns(woken) ==
  /\ Region(woken, FALSE)
  /\ call' = [call EXCEPT ![currentThread] = NoCall]

-----------------------------------------------------------------------------
(* Semaphore::P and Semaphore::V.                                          *)

PSleeps(s) ==
  /\ Enters({InP(s)})
  /\ value[s] = 0
  /\ semQueue' = [semQueue EXCEPT ![s] = Append(@, currentThread)]
  /\ SleepsIn(InP(s), {})
  /\ UNCHANGED <<value, lockVars, condVars>>

PReturns(s) ==
  /\ Enters({InP(s)})
  /\ value[s] > 0
  /\ value' = [value EXCEPT ![s] = @ - 1]
  /\ Returns({})
  /\ UNCHANGED <<semQueue, lockVars, condVars>>

\* The call, up to where it sleeps or returns.
P(s) == PSleeps(s) \/ PReturns(s)

\* What V does to the semaphore, whoever calls it.
VEffect(s) ==
  /\ value[s] < MaxValue
  /\ semQueue' = [semQueue EXCEPT ![s] = Rest(@)]
  /\ value' = [value EXCEPT ![s] = @ + 1]
  /\ UNCHANGED <<lockVars, condVars>>

\* Mutant of V: a waiter is woken only when the value was 0.
V_WakesAtZero(s) ==
  LET wakes == value[s] = 0
  IN  /\ Enters({})
      /\ value[s] < MaxValue
      /\ semQueue' = [semQueue EXCEPT ![s] = IF wakes THEN Rest(@) ELSE @]
      /\ value' = [value EXCEPT ![s] = @ + 1]
      /\ Returns(IF wakes THEN Waiter(semQueue[s]) ELSE {})
      /\ UNCHANGED <<lockVars, condVars>>

V(s) ==
  /\ Enters({})
  /\ VEffect(s)
  /\ Returns(Waiter(semQueue[s]))

\* V called by the interrupt handler of a device.
VInHandler(s) ==
  /\ VEffect(s)
  /\ Handler(Waiter(semQueue[s]))
  /\ UNCHANGED call

\* V by a thread that has turned interrupts off to finish.
VThenFinish(s) ==
  /\ \A l \in Lock : currentThread \notin critical[l]
  /\ VEffect(s)
  /\ Finish(Waiter(semQueue[s]))
  /\ UNCHANGED call

-----------------------------------------------------------------------------
(* Lock::Acquire and Lock::Release.  Acquire is also the end of a Wait on  *)
(* one of the lock's conditions.                                           *)

AcquireCalls(l) == {InAcquire(l)} \cup {InWait(c) : c \in {d \in Condition : conditionLock[d] = l}}

AcquireSleeps(l) ==
  /\ Enters(AcquireCalls(l))
  /\ currentThread \notin critical[l]
  /\ ~available[l]
  /\ lockQueue' = [lockQueue EXCEPT ![l] = Append(@, currentThread)]
  /\ SleepsIn(InAcquire(l), {})
  /\ UNCHANGED <<semVars, available, ownerThread, critical, condVars>>

\* Mutant of AcquireReturns: "if" for "while", a woken thread does not test again.
AcquireReturns_NoRetest(l) ==
  /\ Enters(AcquireCalls(l))
  /\ currentThread \notin critical[l]
  /\ available[l] \/ call[currentThread] = InAcquire(l)
  /\ available' = [available EXCEPT ![l] = FALSE]
  /\ ownerThread' = [ownerThread EXCEPT ![l] = currentThread]
  /\ critical' = [critical EXCEPT ![l] = @ \cup {currentThread}]
  /\ Returns({})
  /\ UNCHANGED <<semVars, lockQueue, condVars>>

AcquireReturns(l) ==
  /\ Enters(AcquireCalls(l))
  /\ currentThread \notin critical[l]
  /\ available[l]
  /\ available' = [available EXCEPT ![l] = FALSE]
  /\ ownerThread' = [ownerThread EXCEPT ![l] = currentThread]
  /\ critical' = [critical EXCEPT ![l] = @ \cup {currentThread}]
  /\ Returns({})
  /\ UNCHANGED <<semVars, lockQueue, condVars>>

\* The call, up to where it sleeps or returns.
Acquire(l) == AcquireSleeps(l) \/ AcquireReturns(l)

\* Mutant of ReleaseEffect: ownerThread is not reset.
ReleaseEffect_KeepsOwner(l) ==
  /\ currentThread \in critical[l]
  /\ lockQueue' = [lockQueue EXCEPT ![l] = Rest(@)]
  /\ available' = [available EXCEPT ![l] = TRUE]
  /\ critical' = [critical EXCEPT ![l] = @ \ {currentThread}]
  /\ UNCHANGED ownerThread

\* What Release does to the lock.
ReleaseEffect(l) ==
  /\ currentThread \in critical[l]
  /\ lockQueue' = [lockQueue EXCEPT ![l] = Rest(@)]
  /\ available' = [available EXCEPT ![l] = TRUE]
  /\ ownerThread' = [ownerThread EXCEPT ![l] = NULL]
  /\ critical' = [critical EXCEPT ![l] = @ \ {currentThread}]

Release(l) ==
  /\ Enters({})
  /\ ReleaseEffect(l)
  /\ Returns(Waiter(lockQueue[l]))
  /\ UNCHANGED <<semVars, condVars>>

-----------------------------------------------------------------------------
(* Condition::Wait (up to Sleep), Signal and Broadcast.                    *)

\* Mutant of Wait: the lock is released without waking a thread queued for it.
Wait_NoWakeup(c) ==
  LET l == conditionLock[c]
  IN  /\ Enters({})
      /\ currentThread \in critical[l]
      /\ available' = [available EXCEPT ![l] = TRUE]
      /\ ownerThread' = [ownerThread EXCEPT ![l] = NULL]
      /\ critical' = [critical EXCEPT ![l] = @ \ {currentThread}]
      /\ condQueue' = [condQueue EXCEPT ![c] = Append(@, currentThread)]
      /\ SleepsIn(InWait(c), {})
      /\ UNCHANGED <<semVars, lockQueue>>

\* Mutant of Wait: the thread goes to sleep holding the lock.
Wait_KeepsLock(c) ==
  /\ Enters({})
  /\ currentThread \in critical[conditionLock[c]]
  /\ condQueue' = [condQueue EXCEPT ![c] = Append(@, currentThread)]
  /\ SleepsIn(InWait(c), {})
  /\ UNCHANGED <<semVars, lockVars>>

Wait(c) ==
  LET l == conditionLock[c]
  IN  /\ Enters({})
      /\ ReleaseEffect(l)
      /\ condQueue' = [condQueue EXCEPT ![c] = Append(@, currentThread)]
      /\ SleepsIn(InWait(c), Waiter(lockQueue[l]))
      /\ UNCHANGED semVars

\* Mutant of Signal: the thread that is woken is left on the queue.
Signal_NotRemoved(c) ==
  /\ Enters({})
  /\ currentThread \in critical[conditionLock[c]]
  /\ Returns(Waiter(condQueue[c]))
  /\ UNCHANGED <<semVars, lockVars, condVars>>

Signal(c) ==
  /\ Enters({})
  /\ currentThread \in critical[conditionLock[c]]
  /\ condQueue' = [condQueue EXCEPT ![c] = Rest(@)]
  /\ Returns(Waiter(condQueue[c]))
  /\ UNCHANGED <<semVars, lockVars>>

\* Mutant of Broadcast: the queue is emptied but only its first thread is woken.
Broadcast_WakesOne(c) ==
  /\ Enters({})
  /\ currentThread \in critical[conditionLock[c]]
  /\ condQueue' = [condQueue EXCEPT ![c] = <<>>]
  /\ Returns(Waiter(condQueue[c]))
  /\ UNCHANGED <<semVars, lockVars>>

Broadcast(c) ==
  /\ Enters({})
  /\ currentThread \in critical[conditionLock[c]]
  /\ condQueue' = [condQueue EXCEPT ![c] = <<>>]
  /\ Returns(Members(condQueue[c]))
  /\ UNCHANGED <<semVars, lockVars>>

-----------------------------------------------------------------------------
(* Threads that use the three facilities in any order.                     *)

\* A thread that returns from its procedure holds no lock.
FinishesFree ==
  /\ \A l \in Lock : currentThread \notin critical[l]
  /\ Finish({})

SchedStep ==
  /\ \/ \E t \in Thread : NewThread(t, 1) \/ DeleteThread(t) \/ Fork(t)
     \/ Yield
     \/ IdleReturn
     \/ FinishesFree
     \/ Dispatch
     \/ Halt
  /\ UNCHANGED synchVars

SynchStep ==
  \/ \E s \in Semaphore : P(s) \/ V(s) \/ VInHandler(s) \/ VThenFinish(s)
  \/ \E l \in Lock : Acquire(l) \/ Release(l)
  \/ \E c \in Condition : Wait(c) \/ Signal(c) \/ Broadcast(c)

SynchNext == SchedStep \/ SynchStep

AllInit == SchedInit /\ SynchInit

SynchSpec == AllInit /\ [][SynchNext]_allVars

-----------------------------------------------------------------------------
(* Properties.                                                             *)

Distinct(queue) == \A i, j \in 1..Len(queue) : queue[i] = queue[j] => i = j

\* The threads asleep in a call.
AsleepIn(inCall) == {t \in Sleepers : call[t] = inCall}

\* A thread asleep in P, Acquire or Wait is on the queue of that very object,
\* once, and every queued thread is asleep there.  So no sleeping thread is
\* out of reach of a wakeup, and none is made ready that does not sleep.
QueuesHoldSleepers ==
  /\ \A s \in Semaphore : Distinct(semQueue[s]) /\ Members(semQueue[s]) = AsleepIn(InP(s))
  /\ \A l \in Lock : Distinct(lockQueue[l]) /\ Members(lockQueue[l]) = AsleepIn(InAcquire(l))
  /\ \A c \in Condition : Distinct(condQueue[c]) /\ Members(condQueue[c]) = AsleepIn(InWait(c))

\* No two threads are between the return of Acquire and Release of one lock,
\* although Release lets a third thread take the lock before the woken one.
MutualExclusion ==
  \A l \in Lock : \A t, u \in critical[l] : t = u

\* available and ownerThread tell who is inside, so that the ASSERTs of
\* Acquire, Release, Wait, Signal and Broadcast hold for conforming callers.
LockKnowsOwner ==
  \A l \in Lock :
    /\ available[l] <=> critical[l] = {}
    /\ critical[l] = IF ownerThread[l] = NULL THEN {} ELSE {ownerThread[l]}

\* The threads V, or Release, has woken and that have not tested again.
WokenIn(inCall) == {t \in Thread : call[t] = inCall /\ status[t] \in {"READY", "RUNNING"}}

\* While threads sleep on a semaphore, as many woken threads are about to take
\* a unit of its value as there are units: no V is lost to a sleeping thread.
SemaphoreNoLostWakeup ==
  \A s \in Semaphore : semQueue[s] # <<>> => value[s] <= Cardinality(WokenIn(InP(s)))

\* While threads sleep on a free lock, a woken thread is about to test it.
LockNoLostWakeup ==
  \A l \in Lock : lockQueue[l] # <<>> /\ available[l] => WokenIn(InAcquire(l)) # {}

\* Threads that are not in Monitor's waiting but have to enter a lock.
Entering == [l \in Lock |->
  {t \in Thread : \/ call[t] = InAcquire(l)
                  \/ \E c \in Condition : /\ conditionLock[c] = l
                                            /\ call[t] = InWait(c)
                                            /\ t \notin Sleepers}]

Mesa == INSTANCE Monitor WITH inside <- critical, waiting <- condQueue,
                              entering <- Entering

\* Locks and condition variables implement the monitor that synch.h describes.
ImplementsMonitor == Mesa!MonitorSpec

\* P, V, Acquire, Release, Wait, Signal and Broadcast use the dispatcher as it
\* expects: they make ready only threads that sleep.
ImplementsScheduler == SchedSpec
=============================================================================
