--------------------------- MODULE Process_proofs ---------------------------
(***************************************************************************)
(* Proofs about module Process: the records that parents keep of their     *)
(* children and the semaphores in them stay right for any number of        *)
(* threads, programs and joins, although thread objects are deleted and    *)
(* made again.                                                             *)
(***************************************************************************)
EXTENDS Process, Synch_proofs

ChildRecord == [status : Int, thread : Thread \cup {NULL}]

ProcTypeOK ==
  /\ globalID \in Nat
  /\ child \in [Thread -> Seq(SpaceId)]
  /\ parentRecord \in [Thread -> SpaceId \cup {NULL}]
  /\ record \in [SpaceId -> ChildRecord]
  /\ pc \in [Thread -> {"user", "Exec", "Join", "Exit"}]
  /\ newborn \in [Thread -> Thread \cup {NULL}]
  /\ started \in SUBSET SpaceId
  /\ exited \in SUBSET SpaceId
  /\ joins \in [SpaceId -> Nat]

\* No program takes a lock, so every thread may finish.
LocksUnused == \A l \in Lock : critical[l] = {}

\* The ids in use are those below globalID.
IdsIssued ==
  /\ \A t \in Thread : parentRecord[t] # NULL => parentRecord[t] < globalID
  /\ \A id \in started \cup exited : id < globalID

\* The thread that Exec is creating exists, and its record points at it.
NewbornRecorded ==
  \A t \in Thread :
    /\ pc[t] = "Exec" => newborn[t] \in Thread
    /\ status[t] = "JUST_CREATED" => /\ pc[t] = "user"
                                     /\ parentRecord[t] # NULL
                                     /\ record[parentRecord[t]].thread = t

\* No two thread objects have the same record.
RecordUnique ==
  \A t, u \in Thread :
    /\ status[t] # "NONE" /\ status[u] # "NONE"
    /\ parentRecord[t] # NULL /\ parentRecord[t] = parentRecord[u]
    => t = u

\* A thread is in Exit exactly when its program is over, and finishes only there.
ExitKnown ==
  \A t \in Thread :
    /\ status[t] # "NONE" /\ parentRecord[t] # NULL =>
         (pc[t] = "Exit" <=> parentRecord[t] \in exited)
    /\ Finished(t) => pc[t] = "Exit" \/ parentRecord[t] = NULL

\* What RecordsConsistent says of the thread in a live program's record.
LiveRecords ==
  \A id \in started \ exited :
    LET t == record[id].thread
    IN  /\ t # NULL /\ parentRecord[t] = id
        /\ status[t] \notin {"NONE", "JUST_CREATED"}

\* The inductive invariant.
ProcInv ==
  /\ SynchInv
  /\ ProcTypeOK
  /\ LocksUnused
  /\ IdsIssued
  /\ NewbornRecorded
  /\ RecordUnique
  /\ ExitKnown
  /\ LiveRecords
  /\ SignalledOnce

-----------------------------------------------------------------------------
\* The first V of a record that nobody has joined yet.
LEMMA FirstSignal == \A v, j \in Nat : v + j = 0 => (v + 1) + j = 1
OBVIOUS

LEMMA ProcInitInv == Init => ProcInv
<1> SUFFICES ASSUME Init
             PROVE  ProcInv
  OBVIOUS
<1>1. SynchInv
  BY SynchInitInv DEF Init
<1>2. ProcTypeOK
  BY DEF Init, ProcTypeOK, ChildThread, ChildRecord
<1>3. LocksUnused
  BY DEF Init, SynchInit, LocksUnused
<1>4. IdsIssued /\ NewbornRecorded /\ RecordUnique /\ ExitKnown /\ LiveRecords
  BY DEF Init, SchedInit, IdsIssued, NewbornRecorded, RecordUnique, ExitKnown, LiveRecords, Finished
<1>5. SignalledOnce
  BY ProcessAssumption DEF Init, SynchInit, SignalledOnce
<1>6. QED
  BY <1>1, <1>2, <1>3, <1>4, <1>5 DEF ProcInv

-----------------------------------------------------------------------------
(* What a step does to the life of the threads.                            *)

\* The dispatcher, and a region of synchronization code, create no thread and
\* delete none but a finished one.
LEMMA LifeKept ==
  ASSUME SchedInv,
         \/ \E woken \in SUBSET Sleepers : Returns(woken) \/ \E inCall \in Call : SleepsIn(inCall, woken)
         \/ Yield \/ Dispatch \/ Halt \/ UNCHANGED schedVars
  PROVE  \A t \in Thread :
           /\ status[t] = "NONE" => status'[t] = "NONE"
           /\ status'[t] = "NONE" => status[t] = "NONE" \/ Finished(t)
           /\ status'[t] = "JUST_CREATED" <=> status[t] = "JUST_CREATED"
           /\ Finished(t)' => Finished(t)
<1> DEFINE Goal == \A t \in Thread :
           /\ status[t] = "NONE" => status'[t] = "NONE"
           /\ status'[t] = "NONE" => status[t] = "NONE" \/ Finished(t)
           /\ status'[t] = "JUST_CREATED" <=> status[t] = "JUST_CREATED"
           /\ Finished(t)' => Finished(t)
<1>0. /\ currentThread \in Thread
      /\ status \in [Thread -> {"NONE", "JUST_CREATED", "RUNNING", "READY", "BLOCKED"}]
      /\ machineState \in [Thread -> {"ThreadRoot", "Yield", "Sleep", "Finish"}]
  BY DEF SchedInv, SchedTypeOK
<1>1. ASSUME NEW woken \in SUBSET Sleepers, NEW sleeps \in BOOLEAN, Region(woken, sleeps)
      PROVE  Goal
  <2>1. /\ status[currentThread] = "RUNNING"
        /\ \A t \in Thread : status'[t] = IF t \in woken THEN "READY"
                                          ELSE IF sleeps /\ t = currentThread THEN "BLOCKED"
                                          ELSE status[t]
        /\ \A t \in Thread : machineState'[t] = IF sleeps /\ t = currentThread THEN "Sleep"
                                                ELSE machineState[t]
    BY <1>0, <1>1 DEF Region, SetStatus
  <2>2. \A t \in woken : status[t] = "BLOCKED"
    BY DEF Sleepers
  <2>3. QED
    BY <2>1, <2>2 DEF Finished
<1>2. ASSUME NEW next \in FrontOfReadyList, NEW old, NEW list, Run(next, old, list),
             \/ old = "READY" /\ Running
                  /\ machineState' = [machineState EXCEPT ![currentThread] = "Yield"]
             \/ old = status[currentThread] /\ Sleeping /\ UNCHANGED machineState
      PROVE  Goal
  <2>1. next \in Thread /\ status[next] = "READY" /\ next # threadToBeDestroyed
    BY FrontIsReady
  <2>2. threadToBeDestroyed # NULL => Finished(threadToBeDestroyed)
    BY DEF SchedInv, CarcassFinished
  <2>3. status[currentThread] \in {"RUNNING", "BLOCKED", "READY"}
    BY DEF SchedInv, ProcessorOwned
  <2>4. \A t \in Thread : \/ t = next /\ status'[t] = "RUNNING"
                          \/ t = threadToBeDestroyed /\ status'[t] = "NONE"
                          \/ t = currentThread /\ status'[t] = old
                          \/ t # currentThread /\ status'[t] = status[t]
    BY <1>2, <2>1, ThreadAssumption DEF Run
  <2>5. QED
    BY <1>0, <1>2, <2>1, <2>2, <2>3, <2>4, ThreadAssumption DEF Finished, Running
<1>3. CASE Yield
  BY <1>2, <1>3 DEF Yield
<1>4. CASE Dispatch
  BY <1>2, <1>4 DEF Dispatch
<1>5. CASE Halt \/ UNCHANGED schedVars
  BY <1>5 DEF Halt, schedVars, Finished
<1>6. CASE \E woken \in SUBSET Sleepers : Returns(woken) \/ \E inCall \in Call : SleepsIn(inCall, woken)
  BY <1>1, <1>6, Zenon DEF Returns, SleepsIn
<1>7. QED
  BY <1>3, <1>4, <1>5, <1>6

\* Finish makes the current thread a finished one.
LEMMA FinishLife ==
  ASSUME SchedInv, NEW woken \in SUBSET Sleepers, Finish(woken)
  PROVE  \A t \in Thread :
           /\ status'[t] = "NONE" <=> status[t] = "NONE"
           /\ status'[t] = "JUST_CREATED" <=> status[t] = "JUST_CREATED"
           /\ Finished(t)' => Finished(t) \/ t = currentThread
<1>1. /\ currentThread \in Thread /\ status[currentThread] = "RUNNING"
      /\ status \in [Thread -> {"NONE", "JUST_CREATED", "RUNNING", "READY", "BLOCKED"}]
      /\ machineState \in [Thread -> {"ThreadRoot", "Yield", "Sleep", "Finish"}]
  BY DEF SchedInv, SchedTypeOK, Finish, Running
<1>2. /\ \A t \in Thread : status'[t] = IF t \in woken THEN "READY"
                                        ELSE IF t = currentThread THEN "BLOCKED"
                                        ELSE status[t]
      /\ \A t \in Thread : t # currentThread => machineState'[t] = machineState[t]
  BY <1>1 DEF Finish, SetStatus
<1>3. \A t \in woken : status[t] = "BLOCKED"
  BY DEF Sleepers
<1>4. QED
  BY <1>1, <1>2, <1>3 DEF Finished

-----------------------------------------------------------------------------
(* The steps.                                                              *)

\* System calls touch threads and semaphores only through the operations of
\* modules Scheduler and Synch.
LEMMA ProcStepIsSynchStep == ProcInv /\ [Next]_vars => [SynchNext]_allVars
<1> SUFFICES ASSUME ProcInv, [Next]_vars
             PROVE  [SynchNext]_allVars
  OBVIOUS
<1> USE DEF ProcInv
<1>0. /\ currentThread \in Thread
      /\ pc[currentThread] = "Exec" => newborn[currentThread] \in Thread
      /\ parentRecord[currentThread] # NULL => parentRecord[currentThread] \in Semaphore
      /\ \A l \in Lock : currentThread \notin critical[l]
      /\ SpaceId = Semaphore
  BY ProcessAssumption DEF SynchInv, SchedInv, SchedTypeOK, NewbornRecorded, ProcTypeOK, LocksUnused
<1>1. CASE \E t \in Thread : ExecBegins(t)
  BY <1>1, Zenon DEF ExecBegins, SynchNext, SchedStep
<1>2. CASE ExecForks \/ ExecFails
  BY <1>0, <1>2, Zenon DEF ExecForks, ExecFails, At, SynchNext, SchedStep
<1>3. CASE \E id \in SpaceId : Join(id)
  <2>1. \E id \in Semaphore : P(id)
    BY <1>0, <1>3, Zenon DEF Join
  <2>2. QED
    BY <2>1, Zenon DEF SynchNext, SynchStep
<1>4. CASE Faults \/ \E s \in ExitStatus : ExitNotifies(s)
  BY <1>0, <1>4, Zenon DEF Faults, ExitNotifies, SynchNext, SynchStep
<1>5. CASE ExitFinishes \/ DispatcherStep
  BY <1>0, <1>5, Zenon DEF ExitFinishes, DispatcherStep, FinishesFree, SynchNext, SchedStep
<1>6. CASE UNCHANGED vars
  BY <1>6 DEF vars
<1>7. QED
  BY <1>1, <1>2, <1>3, <1>4, <1>5, <1>6 DEF Next

\* What remains of ProcInv' once ProcStepIsSynchStep has given SynchInv'.
ProcOnlyInv ==
  /\ ProcTypeOK
  /\ LocksUnused
  /\ IdsIssued
  /\ NewbornRecorded
  /\ RecordUnique
  /\ ExitKnown
  /\ LiveRecords
  /\ SignalledOnce

\* The thread in a live program's record has neither finished nor reached Exit.
LEMMA LiveThread ==
  ASSUME ProcInv, NEW id \in started \ exited
  PROVE  /\ record[id].thread \in Thread
         /\ parentRecord[record[id].thread] = id
         /\ status[record[id].thread] \notin {"NONE", "JUST_CREATED"}
         /\ pc[record[id].thread] # "Exit"
         /\ ~Finished(record[id].thread)
<1> USE DEF ProcInv
<1>1. /\ record[id].thread \in Thread /\ id \in SpaceId
      /\ parentRecord[record[id].thread] = id
      /\ status[record[id].thread] \notin {"NONE", "JUST_CREATED"}
  BY DEF LiveRecords, ProcTypeOK, ChildRecord
<1>2. id # NULL
  BY <1>1, ProcessAssumption
<1>3. pc[record[id].thread] # "Exit" /\ ~Finished(record[id].thread)
  BY <1>1, <1>2 DEF ExitKnown
<1>4. QED
  BY <1>1, <1>3

\* Steps that leave the records alone: they delete only finished threads, let
\* only threads in Exit finish, and turn a unit of a semaphore into a join.
LEMMA RecordsKept ==
  ASSUME ProcInv,
         UNCHANGED <<globalID, child, parentRecord, record, newborn, started, exited, critical>>,
         pc' \in [Thread -> {"user", "Exec", "Join", "Exit"}],
         joins' \in [SpaceId -> Nat],
         \A id \in SpaceId : value'[id] + joins'[id] = value[id] + joins[id],
         \A t \in Thread :
           /\ pc'[t] = "Exit" <=> pc[t] = "Exit"
           /\ pc'[t] = "Exec" <=> pc[t] = "Exec"
           /\ status[t] = "JUST_CREATED" => pc'[t] = pc[t]
           /\ status[t] = "NONE" => status'[t] = "NONE"
           /\ status'[t] = "NONE" => status[t] = "NONE" \/ Finished(t)
           /\ status'[t] = "JUST_CREATED" <=> status[t] = "JUST_CREATED"
           /\ Finished(t)' => Finished(t) \/ pc[t] = "Exit" \/ parentRecord[t] = NULL
  PROVE  ProcOnlyInv'
<1> USE DEF ProcInv
<1>1. ProcTypeOK' /\ LocksUnused' /\ IdsIssued'
  BY DEF ProcTypeOK, LocksUnused, IdsIssued
<1>2. NewbornRecorded'
  BY DEF NewbornRecorded
<1>3. RecordUnique'
  BY DEF RecordUnique
<1>4. ExitKnown'
  <2> SUFFICES ASSUME NEW t \in Thread
               PROVE  /\ status'[t] # "NONE" /\ parentRecord'[t] # NULL =>
                           (pc'[t] = "Exit" <=> parentRecord'[t] \in exited')
                      /\ Finished(t)' => pc'[t] = "Exit" \/ parentRecord'[t] = NULL
    BY DEF ExitKnown
  <2>1. QED
    BY DEF ExitKnown
<1>5. LiveRecords'
  <2> SUFFICES ASSUME NEW id \in started' \ exited'
               PROVE  /\ record'[id].thread # NULL /\ parentRecord'[record'[id].thread] = id
                      /\ status'[record'[id].thread] \notin {"NONE", "JUST_CREATED"}
    BY DEF LiveRecords
  <2>1. id \in started \ exited /\ record' = record /\ parentRecord' = parentRecord
    OBVIOUS
  <2>2. QED
    BY <2>1, LiveThread, ThreadAssumption
<1>6. SignalledOnce'
  BY DEF SignalledOnce
<1>7. QED
  BY <1>1, <1>2, <1>3, <1>4, <1>5, <1>6 DEF ProcOnlyInv

LEMMA DispatcherStepInv ==
  ASSUME ProcInv, DispatcherStep \/ UNCHANGED vars
  PROVE  ProcOnlyInv'
<1>1. UNCHANGED <<globalID, child, parentRecord, record, newborn, started, exited, critical,
                  pc, joins, value>>
  BY DEF DispatcherStep, vars, allVars, synchVars, semVars, lockVars, procVars
<1>2. Yield \/ Dispatch \/ Halt \/ UNCHANGED schedVars
  BY DEF DispatcherStep, vars, allVars
<1>3. \A t \in Thread :
           /\ status[t] = "NONE" => status'[t] = "NONE"
           /\ status'[t] = "NONE" => status[t] = "NONE" \/ Finished(t)
           /\ status'[t] = "JUST_CREATED" <=> status[t] = "JUST_CREATED"
           /\ Finished(t)' => Finished(t)
  BY <1>2, LifeKept DEF ProcInv, SynchInv
<1>4. /\ pc' \in [Thread -> {"user", "Exec", "Join", "Exit"}] /\ joins' \in [SpaceId -> Nat]
  BY <1>1 DEF ProcInv, ProcTypeOK
<1>5. QED
  BY <1>1, <1>3, <1>4, RecordsKept

LEMMA ExitFinishesInv ==
  ASSUME ProcInv, ExitFinishes
  PROVE  ProcOnlyInv'
<1>1. /\ UNCHANGED <<globalID, child, parentRecord, record, newborn, started, exited, critical,
                     pc, joins, value>>
      /\ pc[currentThread] = "Exit" \/ parentRecord[currentThread] = NULL
      /\ Finish({})
  BY DEF ExitFinishes, At, synchVars, semVars, lockVars, procVars
<1>2. \A t \in Thread :
           /\ status'[t] = "NONE" <=> status[t] = "NONE"
           /\ status'[t] = "JUST_CREATED" <=> status[t] = "JUST_CREATED"
           /\ Finished(t)' => Finished(t) \/ t = currentThread
  <2>1. {} \in SUBSET Sleepers
    OBVIOUS
  <2>2. QED
    BY <1>1, <2>1, FinishLife, Zenon DEF ProcInv, SynchInv
<1>3. /\ pc' \in [Thread -> {"user", "Exec", "Join", "Exit"}] /\ joins' \in [SpaceId -> Nat]
  BY <1>1 DEF ProcInv, ProcTypeOK
<1>4. QED
  BY <1>1, <1>2, <1>3, RecordsKept

\* Join takes the unit that the child's end left, or sleeps.
LEMMA JoinInv ==
  ASSUME ProcInv, NEW id \in SpaceId, Join(id)
  PROVE  ProcOnlyInv'
<1> USE DEF ProcInv
<1>0. /\ currentThread \in Thread /\ id \in Semaphore
      /\ value \in [Semaphore -> Nat] /\ joins \in [SpaceId -> Nat] /\ SpaceId = Semaphore
      /\ call \in [Thread -> Call] /\ InP(id) # NoCall /\ InP(id) \in Call
      /\ pc \in [Thread -> {"user", "Exec", "Join", "Exit"}]
  BY ProcessAssumption, CallsDiffer DEF SynchInv, SchedInv, SchedTypeOK, SynchTypeOK, ProcTypeOK
<1>1. /\ UNCHANGED <<globalID, child, parentRecord, record, newborn, started, exited>>
      /\ pc[currentThread] \in {"user", "Join"} /\ P(id)
      /\ IF call'[currentThread] = NoCall
         THEN joins' = [joins EXCEPT ![id] = @ + 1] /\ pc' = [pc EXCEPT ![currentThread] = "user"]
         ELSE joins' = joins /\ pc' = [pc EXCEPT ![currentThread] = "Join"]
  BY DEF Join, At, Goto
<1>2. /\ UNCHANGED critical /\ status[currentThread] = "RUNNING"
      /\ \E inCall \in Call : SleepsIn(inCall, {}) \/ Returns({})
      /\ \/ value' = value /\ call'[currentThread] = InP(id)
         \/ /\ value[id] > 0 /\ value' = [value EXCEPT ![id] = @ - 1]
            /\ call'[currentThread] = NoCall
  <2>1. CASE PSleeps(id)
    <3>1. SleepsIn(InP(id), {}) /\ status[currentThread] = "RUNNING"
      BY <2>1 DEF PSleeps, Enters
    <3>2. UNCHANGED <<critical, value>> /\ call'[currentThread] = InP(id)
      BY <2>1, <1>0 DEF PSleeps, SleepsIn, lockVars
    <3>3. QED
      BY <3>1, <3>2, <1>0, Zenon
  <2>2. CASE PReturns(id)
    <3>1. Returns({}) /\ status[currentThread] = "RUNNING" /\ value[id] > 0
      BY <2>2 DEF PReturns, Enters
    <3>2. /\ UNCHANGED critical /\ value' = [value EXCEPT ![id] = @ - 1]
          /\ call'[currentThread] = NoCall
      BY <2>2, <1>0 DEF PReturns, Returns, lockVars
    <3>3. QED
      BY <3>1, <3>2, <1>0, Zenon
  <2>3. QED
    BY <1>1, <2>1, <2>2 DEF P
<1>3. \A t \in Thread :
           /\ status[t] = "NONE" => status'[t] = "NONE"
           /\ status'[t] = "NONE" => status[t] = "NONE" \/ Finished(t)
           /\ status'[t] = "JUST_CREATED" <=> status[t] = "JUST_CREATED"
           /\ Finished(t)' => Finished(t)
  <2>1. {} \in SUBSET Sleepers /\ SchedInv
    BY DEF SynchInv
  <2>2. \E woken \in SUBSET Sleepers : Returns(woken) \/ \E inCall \in Call : SleepsIn(inCall, woken)
    BY <1>2, <2>1, Zenon
  <2>3. QED
    BY <2>1, <2>2, LifeKept, Zenon
<1>4. /\ joins' \in [SpaceId -> Nat]
      /\ \A i \in SpaceId : value'[i] + joins'[i] = value[i] + joins[i]
  BY <1>0, <1>1, <1>2
<1>5. /\ pc' \in [Thread -> {"user", "Exec", "Join", "Exit"}]
      /\ \A t \in Thread : /\ pc'[t] = "Exit" <=> pc[t] = "Exit"
                           /\ pc'[t] = "Exec" <=> pc[t] = "Exec"
                           /\ status[t] = "JUST_CREATED" => pc'[t] = pc[t]
  BY <1>0, <1>1, <1>2
<1>6. QED
  BY <1>1, <1>2, <1>3, <1>4, <1>5, RecordsKept

\* Exec gives the new thread a record no other thread has.
LEMMA ExecBeginsInv ==
  ASSUME ProcInv, NEW t \in Thread, ExecBegins(t)
  PROVE  ProcOnlyInv'
<1> USE DEF ProcInv
<1>0. /\ currentThread \in Thread /\ globalID \in SpaceId /\ globalID # NULL
      /\ status \in [Thread -> {"NONE", "JUST_CREATED", "RUNNING", "READY", "BLOCKED"}]
  BY ProcessAssumption DEF ExecBegins, ProcTypeOK, SpaceId, SynchInv, SchedInv, SchedTypeOK
<1>1. /\ globalID' = globalID + 1
      /\ child' = [child EXCEPT ![currentThread] = Append(@, globalID), ![t] = <<>>]
      /\ parentRecord' = [parentRecord EXCEPT ![t] = globalID]
      /\ record' = [record EXCEPT ![globalID] = ChildThread(t)]
      /\ newborn' = [newborn EXCEPT ![currentThread] = t]
      /\ pc' = [pc EXCEPT ![currentThread] = "Exec", ![t] = "user"]
      /\ UNCHANGED <<value, critical, started, exited, joins>>
  BY DEF ExecBegins, synchVars, semVars, lockVars
<1>2. /\ status[t] = "NONE" /\ t # currentThread /\ status[currentThread] = "RUNNING"
      /\ status' = [status EXCEPT ![t] = "JUST_CREATED"]
      /\ machineState' = machineState /\ pc[currentThread] = "user"
  BY DEF ExecBegins, NewThread, Running, At
<1>3. ChildThread(t) \in ChildRecord /\ ChildThread(t).thread = t
  BY DEF ChildThread, ChildRecord
<1>4. ProcTypeOK'
  <2>1. child' \in [Thread -> Seq(SpaceId)]
    <3>1. Append(child[currentThread], globalID) \in Seq(SpaceId) /\ <<>> \in Seq(SpaceId)
      BY <1>0 DEF ProcTypeOK
    <3>2. QED
      BY <1>1, <3>1 DEF ProcTypeOK
  <2>2. record' \in [SpaceId -> ChildRecord] /\ parentRecord' \in [Thread -> SpaceId \cup {NULL}]
    BY <1>0, <1>1, <1>3 DEF ProcTypeOK
  <2>3. newborn' \in [Thread -> Thread \cup {NULL}] /\ globalID' \in Nat
    BY <1>0, <1>1 DEF ProcTypeOK
  <2>4. pc' \in [Thread -> {"user", "Exec", "Join", "Exit"}]
    BY <1>0, <1>1 DEF ProcTypeOK
  <2>5. QED
    BY <1>1, <2>1, <2>2, <2>3, <2>4 DEF ProcTypeOK
<1>5. LocksUnused' /\ SignalledOnce'
  BY <1>1 DEF LocksUnused, SignalledOnce
<1>6. IdsIssued'
  BY <1>0, <1>1 DEF IdsIssued, ProcTypeOK, SpaceId
\* globalID is no thread's record yet, nor started or exited.
<1>7. /\ \A u \in Thread : parentRecord[u] # globalID
      /\ globalID \notin started /\ globalID \notin exited
  BY <1>0 DEF IdsIssued, SpaceId
<1>8. NewbornRecorded'
  <2> SUFFICES ASSUME NEW u \in Thread
               PROVE  /\ pc'[u] = "Exec" => newborn'[u] \in Thread
                      /\ status'[u] = "JUST_CREATED" => /\ pc'[u] = "user"
                                                        /\ parentRecord'[u] # NULL
                                                        /\ record'[parentRecord'[u]].thread = u
    BY DEF NewbornRecorded
  <2>1. CASE u = t
    BY <2>1, <1>0, <1>1, <1>2, <1>3 DEF ProcTypeOK
  <2>2. CASE u # t
    BY <2>2, <1>0, <1>1, <1>2, <1>7 DEF ProcTypeOK, NewbornRecorded
  <2>3. QED
    BY <2>1, <2>2
<1>9. RecordUnique'
  BY <1>0, <1>1, <1>2, <1>7 DEF ProcTypeOK, RecordUnique
<1>10. ExitKnown'
  <2> SUFFICES ASSUME NEW u \in Thread
               PROVE  /\ status'[u] # "NONE" /\ parentRecord'[u] # NULL =>
                           (pc'[u] = "Exit" <=> parentRecord'[u] \in exited')
                      /\ Finished(u)' => pc'[u] = "Exit" \/ parentRecord'[u] = NULL
    BY DEF ExitKnown
  <2>1. CASE u = t
    BY <2>1, <1>0, <1>1, <1>2, <1>7 DEF ProcTypeOK, Finished
  <2>2. CASE u # t /\ u = currentThread
    BY <2>2, <1>0, <1>1, <1>2 DEF ProcTypeOK, ExitKnown, Finished
  <2>3. CASE u # t /\ u # currentThread
    BY <2>3, <1>0, <1>1, <1>2 DEF ProcTypeOK, ExitKnown, Finished
  <2>4. QED
    BY <2>1, <2>2, <2>3
<1>11. LiveRecords'
  <2> SUFFICES ASSUME NEW id \in started' \ exited'
               PROVE  /\ record'[id].thread # NULL /\ parentRecord'[record'[id].thread] = id
                      /\ status'[record'[id].thread] \notin {"NONE", "JUST_CREATED"}
    BY DEF LiveRecords
  <2>1. id \in started \ exited /\ id # globalID /\ id \in SpaceId
    BY <1>1, <1>7 DEF ProcTypeOK
  <2>2. record'[id] = record[id]
    BY <1>1, <2>1 DEF ProcTypeOK
  <2>3. /\ record[id].thread \in Thread /\ parentRecord[record[id].thread] = id
        /\ status[record[id].thread] \notin {"NONE", "JUST_CREATED"}
    BY <2>1, LiveThread
  <2>4. QED
    BY <2>2, <2>3, <1>1, <1>2, <1>0, ThreadAssumption DEF ProcTypeOK
<1>12. QED
  BY <1>4, <1>5, <1>6, <1>8, <1>9, <1>10, <1>11 DEF ProcOnlyInv

\* Exec ends: the thread is forked and its id returned, or it is deleted.
LEMMA ExecEndsInv ==
  ASSUME ProcInv, ExecForks \/ ExecFails
  PROVE  ProcOnlyInv'
<1> USE DEF ProcInv
<1> DEFINE t == newborn[currentThread]
<1>0. /\ currentThread \in Thread /\ pc[currentThread] = "Exec" /\ t \in Thread
      /\ status[currentThread] = "RUNNING"
      /\ status \in [Thread -> {"NONE", "JUST_CREATED", "RUNNING", "READY", "BLOCKED"}]
      /\ machineState \in [Thread -> {"ThreadRoot", "Yield", "Sleep", "Finish"}]
  BY DEF ExecForks, ExecFails, At, Running, NewbornRecorded, SynchInv, SchedInv, SchedTypeOK
<1> HIDE DEF t
<1>1. /\ UNCHANGED <<value, critical, globalID, child, parentRecord, record, exited, joins>>
      /\ newborn' = [newborn EXCEPT ![currentThread] = NULL]
      /\ pc' = [pc EXCEPT ![currentThread] = "user"]
  BY DEF ExecForks, ExecFails, Goto, synchVars, semVars, lockVars
<1>2. /\ status[t] = "JUST_CREATED" /\ t # currentThread
      /\ \A u \in Thread : u # t => status'[u] = status[u] /\ machineState'[u] = machineState[u]
      /\ \/ status'[t] = "READY" /\ started' = started \cup {parentRecord[t]}
         \/ status'[t] = "NONE" /\ started' = started
  <2>1. CASE ExecForks
    <3>1. Fork(t) /\ started' = started \cup {parentRecord[t]}
      BY <2>1, Zenon DEF ExecForks, t
    <3>2. status[t] = "JUST_CREATED" /\ t # currentThread
      BY <3>1, <1>0 DEF Fork
    <3>3. /\ status' = [u \in Thread |-> IF u \in {t} THEN "READY"
                                        ELSE IF u \in {} THEN "BLOCKED" ELSE status[u]]
          /\ machineState' = [machineState EXCEPT ![t] = "ThreadRoot"]
      BY <3>1, Zenon DEF Fork, SetStatus
    <3>4. QED
      BY <3>1, <3>2, <3>3, <1>0
  <2>2. CASE ExecFails
    <3>1. DeleteThread(t) /\ started' = started
      BY <2>2, Zenon DEF ExecFails, t
    <3>2. status[t] = "JUST_CREATED" /\ t # currentThread
      BY <3>1, <1>0 DEF DeleteThread
    <3>3. status' = [status EXCEPT ![t] = "NONE"] /\ machineState' = machineState
      BY <3>1, Zenon DEF DeleteThread
    <3>4. QED
      BY <3>2, <3>3, <3>1, <1>0
  <2>3. QED
    BY <2>1, <2>2
<1>3. /\ pc[t] = "user" /\ parentRecord[t] \in SpaceId /\ parentRecord[t] # NULL
      /\ record[parentRecord[t]].thread = t
  <2>1. pc[t] = "user" /\ parentRecord[t] # NULL /\ record[parentRecord[t]].thread = t
    BY <1>0, <1>2, Zenon DEF NewbornRecorded
  <2>2. QED
    BY <2>1, <1>0 DEF ProcTypeOK
<1>4. ProcTypeOK' /\ LocksUnused' /\ SignalledOnce'
  BY <1>1, <1>2, <1>3 DEF ProcTypeOK, LocksUnused, SignalledOnce
<1>5. IdsIssued'
  BY <1>0, <1>1, <1>2, <1>3 DEF IdsIssued
<1>6. NewbornRecorded'
  BY <1>0, <1>1, <1>2 DEF NewbornRecorded, ProcTypeOK
<1>7. RecordUnique'
  <2>1. \A u \in Thread : status'[u] # "NONE" => status[u] # "NONE"
    BY <1>2
  <2>2. parentRecord' = parentRecord
    BY <1>1
  <2>3. QED
    BY <2>1, <2>2 DEF RecordUnique
<1>8. ExitKnown'
  <2> SUFFICES ASSUME NEW u \in Thread
               PROVE  /\ status'[u] # "NONE" /\ parentRecord'[u] # NULL =>
                           (pc'[u] = "Exit" <=> parentRecord'[u] \in exited')
                      /\ Finished(u)' => pc'[u] = "Exit" \/ parentRecord'[u] = NULL
    BY DEF ExitKnown
  <2>1. pc'[u] = "Exit" <=> pc[u] = "Exit"
    BY <1>0, <1>1 DEF ProcTypeOK
  <2>2. QED
    BY <2>1, <1>0, <1>1, <1>2 DEF ExitKnown, Finished
<1>9. LiveRecords'
  <2> SUFFICES ASSUME NEW id \in started' \ exited'
               PROVE  /\ record'[id].thread # NULL /\ parentRecord'[record'[id].thread] = id
                      /\ status'[record'[id].thread] \notin {"NONE", "JUST_CREATED"}
    BY DEF LiveRecords
  <2>1. record' = record /\ parentRecord' = parentRecord
    BY <1>1
  <2>2. CASE id \in started
    <3>1. id \in started \ exited
      BY <2>2, <1>1
    <3>2. /\ record[id].thread \in Thread /\ parentRecord[record[id].thread] = id
          /\ status[record[id].thread] \notin {"NONE", "JUST_CREATED"}
      BY <3>1, LiveThread
    <3>3. QED
      BY <2>1, <3>2, <1>2, ThreadAssumption
  <2>3. CASE id \notin started
    <3>1. id = parentRecord[t] /\ status'[t] = "READY"
      BY <2>3, <1>2
    <3>2. QED
      BY <3>1, <2>1, <1>0, <1>3, ThreadAssumption
  <2>4. QED
    BY <2>2, <2>3
<1>10. QED
  BY <1>4, <1>5, <1>6, <1>7, <1>8, <1>9 DEF ProcOnlyInv

\* A program ends: its record is signalled, for the first time.
LEMMA ExitInv ==
  ASSUME ProcInv, Faults \/ \E s \in ExitStatus : ExitNotifies(s)
  PROVE  ProcOnlyInv'
<1> USE DEF ProcInv
<1> DEFINE id == parentRecord[currentThread]
<1>0. /\ currentThread \in Thread /\ id \in SpaceId /\ id # NULL
      /\ pc[currentThread] = "user" /\ status[currentThread] = "RUNNING"
      /\ SpaceId = Semaphore /\ value \in [Semaphore -> Nat]
  BY ProcessAssumption
     DEF Faults, ExitNotifies, At, Running, ProcTypeOK, SynchInv, SchedInv, SchedTypeOK, SynchTypeOK
<1>1. /\ UNCHANGED <<globalID, child, parentRecord, newborn, started, joins, critical>>
      /\ pc' = [pc EXCEPT ![currentThread] = "Exit"]
      /\ exited' = exited \cup {id}
      /\ \E s \in Int : record' = [record EXCEPT ![id] = [status |-> s, thread |-> NULL]]
      /\ value' = [value EXCEPT ![id] = @ + 1]
  <2>1. CASE Faults
    <3>1. /\ UNCHANGED <<globalID, child, parentRecord, newborn, started, joins>>
          /\ pc' = [pc EXCEPT ![currentThread] = "Exit"]
          /\ exited' = exited \cup {id}
          /\ record' = [record EXCEPT ![id] = [status |-> -1, thread |-> NULL]]
      BY <2>1 DEF Faults, Goto, NotifyParent
    <3>2. value' = [value EXCEPT ![id] = @ + 1] /\ UNCHANGED critical
      <4>1. VThenFinish(id)
        BY <2>1, Zenon DEF Faults, id
      <4>2. QED
        BY <4>1 DEF VThenFinish, VEffect, lockVars
    <3>3. -1 \in Int
      OBVIOUS
    <3>4. QED
      BY <3>1, <3>2, <3>3, Zenon
  <2>2. ASSUME NEW s \in ExitStatus, ExitNotifies(s)
        PROVE  /\ UNCHANGED <<globalID, child, parentRecord, newborn, started, joins, critical>>
               /\ pc' = [pc EXCEPT ![currentThread] = "Exit"]
               /\ exited' = exited \cup {id}
               /\ record' = [record EXCEPT ![id] = [status |-> s, thread |-> NULL]]
               /\ value' = [value EXCEPT ![id] = @ + 1]
    <3>1. /\ UNCHANGED <<globalID, child, parentRecord, newborn, started, joins>>
          /\ pc' = [pc EXCEPT ![currentThread] = "Exit"]
          /\ exited' = exited \cup {id}
          /\ record' = [record EXCEPT ![id] = [status |-> s, thread |-> NULL]]
      BY <2>2 DEF ExitNotifies, Goto, NotifyParent
    <3>2. value' = [value EXCEPT ![id] = @ + 1] /\ UNCHANGED critical
      <4>1. V(id)
        BY <2>2, Zenon DEF ExitNotifies, id
      <4>2. QED
        BY <4>1 DEF V, VEffect, lockVars
    <3>3. QED
      BY <3>1, <3>2
  <2>3. QED
    BY <2>1, <2>2, ProcessAssumption
<1>2. \A t \in Thread :
           /\ status[t] = "NONE" => status'[t] = "NONE"
           /\ status'[t] = "NONE" => status[t] = "NONE" \/ Finished(t)
           /\ status'[t] = "JUST_CREATED" <=> status[t] = "JUST_CREATED"
           /\ Finished(t)' => Finished(t) \/ t = currentThread
  <2>1. Waiter(semQueue[id]) \in SUBSET Sleepers
    BY <1>0, WaitersSleep DEF SynchInv
  <2>2. Finish(Waiter(semQueue[id])) \/ Returns(Waiter(semQueue[id]))
    BY Zenon DEF Faults, VThenFinish, ExitNotifies, V
  <2> HIDE DEF id
  <2>3. SchedInv
    BY DEF SynchInv
  <2>4. CASE Finish(Waiter(semQueue[id]))
    BY <2>1, <2>3, <2>4, FinishLife
  <2>5. CASE Returns(Waiter(semQueue[id]))
    <3>1. \E woken \in SUBSET Sleepers : Returns(woken) \/ \E inCall \in Call : SleepsIn(inCall, woken)
      BY <2>1, <2>5, Zenon
    <3>2. QED
      BY <3>1, <2>3, LifeKept
  <2>6. QED
    BY <2>2, <2>4, <2>5
<1> HIDE DEF id
\* It had not ended before, and no other thread has its record.
<1>3. /\ id \notin exited
      /\ \A u \in Thread : status[u] # "NONE" /\ parentRecord[u] = id => u = currentThread
  BY <1>0 DEF ExitKnown, RecordUnique, id
<1>4. ProcTypeOK' /\ LocksUnused'
  <2>1. record' \in [SpaceId -> ChildRecord]
    BY <1>0, <1>1 DEF ProcTypeOK, ChildRecord
  <2>2. pc' \in [Thread -> {"user", "Exec", "Join", "Exit"}] /\ exited' \in SUBSET SpaceId
    BY <1>0, <1>1 DEF ProcTypeOK
  <2>3. UNCHANGED <<globalID, child, parentRecord, newborn, started, joins, critical>>
    BY <1>1
  <2>4. QED
    BY <2>1, <2>2, <2>3 DEF ProcTypeOK, LocksUnused
<1>5. IdsIssued'
  BY <1>0, <1>1 DEF IdsIssued, id
<1>6. NewbornRecorded'
  <2> SUFFICES ASSUME NEW u \in Thread
               PROVE  /\ pc'[u] = "Exec" => newborn'[u] \in Thread
                      /\ status'[u] = "JUST_CREATED" => /\ pc'[u] = "user"
                                                        /\ parentRecord'[u] # NULL
                                                        /\ record'[parentRecord'[u]].thread = u
    BY DEF NewbornRecorded
  <2>1. pc'[u] = "Exec" => newborn'[u] \in Thread
    BY <1>0, <1>1 DEF NewbornRecorded, ProcTypeOK
  <2>2. ASSUME status'[u] = "JUST_CREATED"
        PROVE  /\ pc'[u] = "user" /\ parentRecord'[u] # NULL
               /\ record'[parentRecord'[u]].thread = u
    <3>1. status[u] = "JUST_CREATED" /\ u # currentThread
      BY <1>0, <1>2, <2>2
    <3>2. parentRecord[u] # id /\ parentRecord[u] \in SpaceId /\ pc[u] = "user"
          /\ record[parentRecord[u]].thread = u
      <4>1. pc[u] = "user" /\ parentRecord[u] # NULL /\ record[parentRecord[u]].thread = u
        BY <3>1, Zenon DEF NewbornRecorded
      <4>2. parentRecord[u] \in SpaceId
        BY <4>1 DEF ProcTypeOK
      <4>3. parentRecord[u] # id
        BY <1>3, <3>1
      <4>4. QED
        BY <4>1, <4>2, <4>3
    <3>3. record'[parentRecord[u]] = record[parentRecord[u]]
      BY <1>1, <3>2 DEF ProcTypeOK
    <3>4. QED
      BY <1>0, <1>1, <3>1, <3>2, <3>3, ProcessAssumption DEF ProcTypeOK
  <2>3. QED
    BY <2>1, <2>2
<1>7. RecordUnique'
  BY <1>1, <1>2 DEF RecordUnique
<1>8. ExitKnown'
  <2> SUFFICES ASSUME NEW u \in Thread
               PROVE  /\ status'[u] # "NONE" /\ parentRecord'[u] # NULL =>
                           (pc'[u] = "Exit" <=> parentRecord'[u] \in exited')
                      /\ Finished(u)' => pc'[u] = "Exit" \/ parentRecord'[u] = NULL
    BY DEF ExitKnown
  <2>1. CASE u = currentThread
    BY <2>1, <1>0, <1>1 DEF ProcTypeOK, id
  <2>2. CASE u # currentThread
    BY <2>2, <1>0, <1>1, <1>2, <1>3 DEF ProcTypeOK, ExitKnown
  <2>3. QED
    BY <2>1, <2>2
<1>9. LiveRecords'
  <2> SUFFICES ASSUME NEW i \in started' \ exited'
               PROVE  /\ record'[i].thread # NULL /\ parentRecord'[record'[i].thread] = i
                      /\ status'[record'[i].thread] \notin {"NONE", "JUST_CREATED"}
    BY DEF LiveRecords
  <2>1. i \in started \ exited /\ i # id /\ i \in SpaceId
    BY <1>1 DEF ProcTypeOK
  <2>2. record'[i] = record[i]
    BY <1>1, <2>1 DEF ProcTypeOK
  <2>3. /\ record[i].thread \in Thread /\ parentRecord[record[i].thread] = i
        /\ status[record[i].thread] \notin {"NONE", "JUST_CREATED"} /\ ~Finished(record[i].thread)
    BY <2>1, LiveThread
  <2>4. parentRecord' = parentRecord
    BY <1>1
  <2>5. QED
    BY <2>2, <2>3, <2>4, <1>2, ThreadAssumption
<1>10. SignalledOnce'
  <2> SUFFICES ASSUME NEW i \in SpaceId
               PROVE  value'[i] + joins'[i] = IF i \in exited' THEN 1 ELSE 0
    BY DEF SignalledOnce
  <2>1. /\ value[i] \in Nat /\ joins[i] \in Nat
        /\ value[i] + joins[i] = IF i \in exited THEN 1 ELSE 0
    BY <1>0 DEF SignalledOnce, ProcTypeOK
  <2>2. CASE i = id
    <3>1. value[i] + joins[i] = 0 /\ i \in exited'
      BY <2>1, <2>2, <1>1, <1>3
    <3>2. value'[i] = value[i] + 1 /\ joins'[i] = joins[i]
      BY <2>2, <1>0, <1>1
    <3>3. (value[i] + 1) + joins[i] = 1
      BY <2>1, <3>1, FirstSignal, Zenon
    <3>4. QED
      BY <3>1, <3>2, <3>3, Zenon
  <2>3. CASE i # id
    BY <2>1, <2>3, <1>0, <1>1
  <2>4. QED
    BY <2>2, <2>3
<1>11. QED
  BY <1>4, <1>5, <1>6, <1>7, <1>8, <1>9, <1>10 DEF ProcOnlyInv

LEMMA ProcStepInv == ProcInv /\ [Next]_vars => ProcInv'
<1> SUFFICES ASSUME ProcInv, [Next]_vars
             PROVE  ProcInv'
  OBVIOUS
<1>1. SynchInv'
  BY ProcStepIsSynchStep, SynchStepInv DEF ProcInv
<1>2. ProcOnlyInv'
  BY ExecBeginsInv, ExecEndsInv, JoinInv, ExitInv, ExitFinishesInv, DispatcherStepInv, Zenon DEF Next
<1>3. QED
  BY <1>1, <1>2 DEF ProcInv, ProcOnlyInv

-----------------------------------------------------------------------------
(* The theorems.                                                           *)

\* notifyParent signals each record's semaphore exactly once, on whichever of
\* Exit and the fatal exceptions the program ends.
THEOREM SignalledOnceTheorem == Spec => []SignalledOnce
<1>1. ProcInv => SignalledOnce
  BY DEF ProcInv
<1>2. QED
  BY <1>1, ProcInitInv, ProcStepInv, PTL DEF Spec

\* Join_Syscall_Func returns only for a program that is over: the thread of that
\* id runs no user code again, even when thread objects are reused.
THEOREM JoinReturnsAfterExitTheorem == Spec => []JoinReturnsAfterExit
<1>1. ASSUME ProcInv
      PROVE  JoinReturnsAfterExit
  <2>0. SynchTypeOK /\ ProcTypeOK /\ SignalledOnce /\ ExitKnown
    BY <1>1, Zenon DEF ProcInv, SynchInv
  <2> SUFFICES ASSUME NEW id \in SpaceId, joins[id] > 0
               PROVE  /\ id \in exited
                      /\ \A t \in Thread : parentRecord[t] = id /\ status[t] # "NONE" => pc[t] = "Exit"
    BY DEF JoinReturnsAfterExit
  <2>1. value[id] \in Nat /\ joins[id] \in Nat
    BY <2>0, ProcessAssumption DEF SynchTypeOK, ProcTypeOK
  <2>2. value[id] + joins[id] = IF id \in exited THEN 1 ELSE 0
    BY <2>0 DEF SignalledOnce
  <2>3. id \in exited /\ id # NULL
    BY <2>1, <2>2, ProcessAssumption
  <2>4. QED
    BY <2>0, <2>3 DEF ExitKnown
<1>2. QED
  BY <1>1, ProcInitInv, ProcStepInv, PTL DEF Spec

\* A ChildThread record and the thread of its program point at each other for
\* as long as the program runs, and no other thread object has the record.
THEOREM RecordsConsistentTheorem == Spec => []RecordsConsistent
<1>1. ASSUME ProcInv
      PROVE  RecordsConsistent
  <2> SUFFICES ASSUME NEW id \in started \ exited
               PROVE  LET t == record[id].thread
                      IN  /\ t # NULL /\ parentRecord[t] = id
                          /\ status[t] \notin {"NONE", "JUST_CREATED"} /\ ~Finished(t)
                          /\ \A u \in Thread : parentRecord[u] = id /\ status[u] # "NONE" => u = t
    BY DEF RecordsConsistent
  <2>1. /\ record[id].thread \in Thread /\ parentRecord[record[id].thread] = id
        /\ status[record[id].thread] \notin {"NONE", "JUST_CREATED"}
        /\ ~Finished(record[id].thread)
    BY <1>1, LiveThread
  <2>2. id # NULL
    BY <1>1, ProcessAssumption DEF ProcInv, ProcTypeOK
  <2>3. \A u \in Thread : parentRecord[u] = id /\ status[u] # "NONE" => u = record[id].thread
    BY <1>1, <2>1, <2>2 DEF ProcInv, RecordUnique
  <2>4. QED
    BY <2>1, <2>3, ThreadAssumption
<1>2. QED
  BY <1>1, ProcInitInv, ProcStepInv, PTL DEF Spec

\* The system calls use threads and semaphores as synch.cc expects, so what is
\* proved of module Synch holds of them.
THEOREM ProcessImplementsSynch == Spec => SynchSpec
<1>1. Init => AllInit
  BY DEF Init, AllInit
<1>2. QED
  BY <1>1, ProcInitInv, ProcStepInv, ProcStepIsSynchStep, PTL DEF Spec, SynchSpec
=============================================================================
