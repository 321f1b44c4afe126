-------------------------- MODULE Scheduler_proofs --------------------------
(***************************************************************************)
(* The dispatcher's invariants, for any set of threads and priorities.     *)
(***************************************************************************)
EXTENDS Scheduler, TLAPS

\* The inductive invariant: the four invariants need one another.  Deleting a
\* carcass keeps the ready list right only because a carcass is finished, a
\* dispatched thread is not the carcass only because ready threads are READY.
SchedInv ==
  /\ SchedTypeOK
  /\ ReadyListConsistent
  /\ ProcessorOwned
  /\ CarcassFinished

USE ThreadAssumption, PriorityAssumption

LEMMA SchedInitInv == SchedInit => SchedInv
  BY DEF SchedInit, SchedInv, SchedTypeOK, ReadyListConsistent, ProcessorOwned,
         CarcassFinished, Sleeping

\* The thread found by FindNextToRun is READY, on the list once, and is neither
\* a running thread nor the carcass.
LEMMA FrontIsReady ==
  ASSUME SchedInv, NEW next \in FrontOfReadyList
  PROVE  /\ next \in Thread
         /\ status[next] = "READY"
         /\ readyList[next] = 1
         /\ next # threadToBeDestroyed
  BY DEF SchedInv, SchedTypeOK, ReadyListConsistent, CarcassFinished, Finished,
         FrontOfReadyList, ReadyThreads

\* Run keeps the invariant when the thread that gives up the processor has
\* been made READY and pushed, or was already off the processor.
LEMMA RunInv ==
  ASSUME SchedInv,
         NEW next \in FrontOfReadyList,
         NEW old, NEW list,
         Run(next, old, list),
         UNCHANGED <<priorityLevel, mode>>,
         mode = "SystemMode",
         machineState' \in [Thread -> {"ThreadRoot", "Yield", "Sleep", "Finish"}],
         \A t \in Thread : t # currentThread => machineState'[t] = machineState[t],
         \/ /\ old = "READY"
            /\ status[currentThread] = "RUNNING"
            /\ list = [readyList EXCEPT ![next] = @ - 1, ![currentThread] = @ + 1]
         \/ /\ old = status[currentThread]
            /\ status[currentThread] # "RUNNING"
            /\ list = [readyList EXCEPT ![next] = @ - 1]
            /\ machineState' = machineState
  PROVE  SchedInv'
<1>1. /\ next \in Thread
      /\ status[next] = "READY"
      /\ readyList[next] = 1
      /\ next # threadToBeDestroyed
  BY FrontIsReady
<1> USE DEF SchedInv
<1>2. SchedTypeOK'
  BY <1>1 DEF SchedTypeOK, Run, ReadyListConsistent, ProcessorOwned
<1>3. ReadyListConsistent'
  BY <1>1 DEF SchedTypeOK, Run, ReadyListConsistent, ProcessorOwned, CarcassFinished, Finished
<1>4. ProcessorOwned'
  BY <1>1 DEF SchedTypeOK, Run, ProcessorOwned, Sleeping
<1>5. CarcassFinished'
  BY <1>1 DEF SchedTypeOK, Run, ProcessorOwned, CarcassFinished, Finished
<1>6. QED
  BY <1>2, <1>3, <1>4, <1>5

LEMMA SchedStepInv == SchedInv /\ [SchedNext]_schedVars => SchedInv'
<1> SUFFICES ASSUME SchedInv, [SchedNext]_schedVars
             PROVE  SchedInv'
  OBVIOUS
<1>1. ASSUME NEW t \in Thread, NEW p \in PriorityLevels, NewThread(t, p)
      PROVE  SchedInv'
  BY <1>1 DEF SchedInv, SchedTypeOK, ReadyListConsistent, ProcessorOwned,
              CarcassFinished, Finished, Sleeping, NewThread, Running
<1>2. ASSUME NEW t \in Thread, DeleteThread(t)
      PROVE  SchedInv'
  BY <1>2 DEF SchedInv, SchedTypeOK, ReadyListConsistent, ProcessorOwned,
              CarcassFinished, Finished, Sleeping, DeleteThread, Running
<1>3. ASSUME NEW t \in Thread, Fork(t)
      PROVE  SchedInv'
  BY <1>3 DEF SchedInv, SchedTypeOK, ReadyListConsistent, ProcessorOwned,
              CarcassFinished, Finished, Sleeping, Fork, SetStatus, Running
<1>4. CASE Yield
  <2>1. PICK next \in FrontOfReadyList :
               Run(next, "READY",
                   [readyList EXCEPT ![next] = @ - 1, ![currentThread] = @ + 1])
    BY <1>4 DEF Yield
  <2>2. /\ machineState' = [machineState EXCEPT ![currentThread] = "Yield"]
        /\ UNCHANGED <<priorityLevel, mode>>
        /\ mode = "SystemMode"
        /\ status[currentThread] = "RUNNING"
    BY <1>4 DEF Yield, Running
  <2>3. QED
    BY <2>1, <2>2, RunInv DEF SchedInv, SchedTypeOK
<1>5. ASSUME NEW woken \in SUBSET Sleepers, NEW sleeps \in BOOLEAN, Region(woken, sleeps)
      PROVE  SchedInv'
  BY <1>5 DEF SchedInv, SchedTypeOK, ReadyListConsistent, ProcessorOwned,
              CarcassFinished, Finished, Sleeping, Region, SetStatus, Sleepers
<1>6. ASSUME NEW woken \in SUBSET Sleepers, Handler(woken)
      PROVE  SchedInv'
  BY <1>6 DEF SchedInv, SchedTypeOK, ReadyListConsistent, ProcessorOwned,
              CarcassFinished, Finished, Sleeping, Handler, HandlerMayRun, Running,
              SetStatus, Sleepers
<1>7. CASE IdleReturn
  BY <1>7 DEF SchedInv, SchedTypeOK, ReadyListConsistent, ProcessorOwned,
              CarcassFinished, Finished, Sleeping, IdleReturn
<1>8. ASSUME NEW woken \in SUBSET Sleepers, Finish(woken)
      PROVE  SchedInv'
  BY <1>8 DEF SchedInv, SchedTypeOK, ReadyListConsistent, ProcessorOwned,
              CarcassFinished, Finished, Sleeping, Finish, Running, SetStatus, Sleepers
<1>9. CASE Dispatch
  <2>1. PICK next \in FrontOfReadyList :
               Run(next, status[currentThread], [readyList EXCEPT ![next] = @ - 1])
    BY <1>9 DEF Dispatch
  <2>2. /\ UNCHANGED <<priorityLevel, machineState, mode>>
        /\ mode = "SystemMode"
        /\ status[currentThread] # "RUNNING"
    BY <1>9 DEF Dispatch, Sleeping
  <2>3. QED
    BY <2>1, <2>2, RunInv DEF SchedInv, SchedTypeOK
<1>10. CASE Halt
  BY <1>10 DEF SchedInv, SchedTypeOK, ReadyListConsistent, ProcessorOwned,
               CarcassFinished, Finished, Sleeping, Halt
<1>11. CASE UNCHANGED schedVars
  BY <1>11 DEF SchedInv, SchedTypeOK, ReadyListConsistent, ProcessorOwned,
               CarcassFinished, Finished, Sleeping, schedVars
<1>12. QED
  BY <1>1, <1>2, <1>3, <1>4, <1>5, <1>6, <1>7, <1>8, <1>9, <1>10, <1>11 DEF SchedNext

\* The dispatcher never loses a thread, queues one twice, or deletes one that
\* can still run (ReadyToRun, FindNextToRun, Run, Sleep, Finish together).
THEOREM DispatcherSafe == SchedSpec => [](SchedTypeOK /\ DispatcherConsistent)
<1>1. SchedInv => SchedTypeOK /\ DispatcherConsistent
  BY DEF SchedInv, DispatcherConsistent
<1>2. QED
  BY <1>1, SchedInitInv, SchedStepInv, PTL DEF SchedSpec

\* ~Thread runs only on a thread that was never forked or that has finished
\* and is off the processor: the ASSERT in ~Thread cannot fail.
THEOREM DestroyedSafelyTheorem == SchedSpec => DestroyedSafely
<1>1. SchedInv /\ [SchedNext]_schedVars =>
        [\A t \in Thread :
           status[t] # "NONE" /\ status'[t] = "NONE" =>
              \/ status[t] = "JUST_CREATED"
              \/ Finished(t) /\ t # currentThread']_schedVars
  <2> SUFFICES ASSUME SchedInv, SchedNext,
                      NEW t \in Thread, status[t] # "NONE", status'[t] = "NONE",
                      status[t] # "JUST_CREATED"
               PROVE  Finished(t) /\ t # currentThread'
    BY DEF Finished
  <2>1. ASSUME NEW next \in FrontOfReadyList, NEW old, NEW list,
               Run(next, old, list), old # "NONE"
        PROVE  Finished(t) /\ t # currentThread'
    BY <2>1, FrontIsReady DEF SchedInv, SchedTypeOK, CarcassFinished, Run
  <2>2. CASE Yield
    BY <2>2, <2>1 DEF Yield
  <2>3. CASE Dispatch
    BY <2>3, <2>1 DEF Dispatch, SchedInv, ProcessorOwned
  <2>4. CASE \E u \in Thread : DeleteThread(u) \/ Fork(u)
    BY <2>4 DEF DeleteThread, Fork, SetStatus, SchedInv, SchedTypeOK
  <2>5. CASE \E u \in Thread, p \in PriorityLevels : NewThread(u, p)
    BY <2>5 DEF NewThread, SchedInv, SchedTypeOK
  <2>6. CASE \/ \E woken \in SUBSET Sleepers, sleeps \in BOOLEAN : Region(woken, sleeps)
             \/ \E woken \in SUBSET Sleepers : Handler(woken)
    BY <2>6 DEF Region, Handler, SetStatus
  <2>7. CASE IdleReturn \/ Halt
    BY <2>7 DEF IdleReturn, Halt
  <2>8. CASE \E woken \in SUBSET Sleepers : Finish(woken)
    BY <2>8 DEF Finish, SetStatus
  <2>9. QED
    BY <2>2, <2>3, <2>4, <2>5, <2>6, <2>7, <2>8 DEF SchedNext
<1>2. QED
  BY <1>1, SchedInitInv, SchedStepInv, PTL DEF SchedSpec, DestroyedSafely
=============================================================================
