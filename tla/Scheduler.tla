------------------------------ MODULE Scheduler ------------------------------
(***************************************************************************)
(* Threads and the dispatcher: threads/thread.cc, threads/scheduler.cc.    *)
(*                                                                         *)
(* Nachos runs on one processor and makes kernel code atomic by turning    *)
(* interrupts off.  A thread can lose the processor only where interrupts  *)
(* are turned back on (SetLevel(IntOn) calls OneTick, which may run        *)
(* interrupt handlers and then Yield), so one action of this module is     *)
(* one stretch of code between two such points.                            *)
(*                                                                         *)
(* The module leaves open why a thread sleeps and who wakes it: Region and *)
(* Handler let the current thread or an interrupt handler wake any threads *)
(* that sleep in a synchronization call.  Module Synch says which ones.    *)
(***************************************************************************)
EXTENDS Integers

CONSTANTS Thread,         \* the Thread objects that may ever exist
          Main,           \* the thread Initialize makes for main()
          NULL,           \* the null pointer
          PriorityLevels  \* values an int priorityLevel is given in the model

ASSUME ThreadAssumption == Main \in Thread /\ NULL \notin Thread

ASSUME PriorityAssumption == PriorityLevels \subseteq Int /\ 1 \in PriorityLevels

VARIABLES
  currentThread,        \* the thread whose stack the processor is on
  status,               \* Thread::status, or "NONE" while there is no object
  readyList,            \* how many times each thread is in the priority queue
  priorityLevel,        \* Thread::priorityLevel
  machineState,         \* where a thread that is switched out will resume
  threadToBeDestroyed,  \* the carcass Scheduler::Run is to delete
  level,                \* Interrupt::level
  mode                  \* Interrupt::status; "Halted" once Cleanup has run

schedVars == <<currentThread, status, readyList, priorityLevel, machineState,
               threadToBeDestroyed, level, mode>>

SchedTypeOK ==
  /\ currentThread \in Thread
  /\ status \in [Thread -> {"NONE", "JUST_CREATED", "RUNNING", "READY", "BLOCKED"}]
  /\ readyList \in [Thread -> Nat]
  /\ priorityLevel \in [Thread -> PriorityLevels]
  /\ machineState \in [Thread -> {"ThreadRoot", "Yield", "Sleep", "Finish"}]
  /\ threadToBeDestroyed \in Thread \cup {NULL}
  /\ level \in {"IntOn", "IntOff"}
  /\ mode \in {"SystemMode", "IdleMode", "Halted"}

(***************************************************************************)
(* Initialize(): only the main thread exists and runs.  Its constructor,   *)
(* Thread(char* ), never assigns priorityLevel, so the value is arbitrary. *)
(***************************************************************************)
SchedInit ==
  /\ currentThread = Main
  /\ status = [t \in Thread |-> IF t = Main THEN "RUNNING" ELSE "NONE"]
  /\ readyList = [t \in Thread |-> 0]
  /\ \E p \in PriorityLevels : priorityLevel = [t \in Thread |-> p]
  /\ machineState = [t \in Thread |-> "ThreadRoot"]
  /\ threadToBeDestroyed = NULL
  /\ level = "IntOn"
  /\ mode = "SystemMode"

-----------------------------------------------------------------------------
(* The state the operations below test.                                    *)

\* The current thread executes its own code, with interrupts enabled.
Running == /\ status[currentThread] = "RUNNING"
           /\ level = "IntOn"
           /\ mode = "SystemMode"

\* The current thread is in Thread::Sleep, looking for someone to run.
Sleeping == status[currentThread] # "RUNNING"

ReadyThreads == {t \in Thread : readyList[t] > 0}

\* What readyList->top() may return: MyCmp puts the smallest level in front;
\* std::priority_queue leaves the order of equal elements open.
FrontOfReadyList ==
  {t \in ReadyThreads : \A u \in ReadyThreads : priorityLevel[t] <= priorityLevel[u]}

\* Threads that went to sleep in a synchronization call and were not woken.
Sleepers == {t \in Thread : status[t] = "BLOCKED" /\ machineState[t] = "Sleep"}

\* An interrupt handler runs in OneTick (interrupts enabled by a running
\* thread) or in Idle, which Sleep calls when nobody is ready.
HandlerMayRun ==
  \/ Running
  \/ Sleeping /\ mode = "IdleMode"
  \/ Sleeping /\ mode = "SystemMode" /\ ReadyThreads = {}

-----------------------------------------------------------------------------
(* Building blocks.                                                        *)

\* ReadyToRun for every thread of woken; the threads of asleep block.
SetStatus(woken, asleep) ==
  /\ status' = [t \in Thread |-> IF t \in woken THEN "READY"
                                 ELSE IF t \in asleep THEN "BLOCKED"
                                 ELSE status[t]]
  /\ readyList' = [t \in Thread |-> IF t \in woken THEN readyList[t] + 1
                                    ELSE readyList[t]]

(***************************************************************************)
(* Scheduler::Run(next), in a state where the thread giving up the         *)
(* processor has status old and where list is the ready list once next has *)
(* been removed.  What follows SWITCH is executed by next, where it had    *)
(* left off: a new thread starts in ThreadRoot and skips the deletion of   *)
(* the carcass.  A thread that resumes in Sleep still has interrupts off;  *)
(* Yield and ThreadRoot enable them at once.                               *)
(***************************************************************************)
Run(next, old, list) ==
  LET resumes == machineState[next] # "ThreadRoot"
      carcass == IF resumes THEN threadToBeDestroyed ELSE NULL
  IN  /\ currentThread' = next
      /\ readyList' = list
      /\ status' = [t \in Thread |-> IF t = next THEN "RUNNING"
                                     ELSE IF t = carcass THEN "NONE"
                                     ELSE IF t = currentThread THEN old
                                     ELSE status[t]]
      /\ threadToBeDestroyed' = IF resumes THEN NULL ELSE threadToBeDestroyed
      /\ level' = IF machineState[next] = "Sleep" THEN "IntOff" ELSE "IntOn"

-----------------------------------------------------------------------------
(* The operations.                                                         *)

\* Thread::Thread by the running thread.  One constructor sets priorityLevel
\* to 1, one to its argument, one not at all.
NewThread(t, p) ==
  /\ Running
  /\ status[t] = "NONE"
  /\ status' = [status EXCEPT ![t] = "JUST_CREATED"]
  /\ priorityLevel' = [priorityLevel EXCEPT ![t] = p]
  /\ UNCHANGED <<currentThread, readyList, machineState, threadToBeDestroyed, level, mode>>

\* Mutant of DeleteThread: also deletes a thread that has been forked.
DeleteThread_AfterFork(t) ==
  /\ Running
  /\ status[t] \in {"JUST_CREATED", "READY"}
  /\ status' = [status EXCEPT ![t] = "NONE"]
  /\ UNCHANGED <<currentThread, readyList, priorityLevel, machineState,
                 threadToBeDestroyed, level, mode>>

\* delete of a thread that was never forked (Exec_Syscall_Func's failure path).
DeleteThread(t) ==
  /\ Running
  /\ status[t] = "JUST_CREATED"
  /\ status' = [status EXCEPT ![t] = "NONE"]
  /\ UNCHANGED <<currentThread, readyList, priorityLevel, machineState,
                 threadToBeDestroyed, level, mode>>

\* Thread::Fork: StackAllocate, then ReadyToRun.
Fork(t) ==
  /\ Running
  /\ status[t] = "JUST_CREATED"
  /\ SetStatus({t}, {})
  /\ machineState' = [machineState EXCEPT ![t] = "ThreadRoot"]
  /\ UNCHANGED <<currentThread, priorityLevel, threadToBeDestroyed, level, mode>>

\* Thread::Yield, called by the thread or for it by OneTick (yieldOnReturn).
\* With an empty ready list it returns at once.
Yield ==
  /\ Running
  /\ \E next \in FrontOfReadyList :
       Run(next, "READY",
           [readyList EXCEPT ![next] = @ - 1, ![currentThread] = @ + 1])
  /\ machineState' = [machineState EXCEPT ![currentThread] = "Yield"]
  /\ UNCHANGED <<priorityLevel, mode>>

\* The running thread turns interrupts off (or has them off, resumed in a
\* synchronization call), makes the threads of woken ready, and leaves the
\* region: either it goes to sleep or it turns interrupts back on.
Region(woken, sleeps) ==
  /\ status[currentThread] = "RUNNING"
  /\ mode = "SystemMode"
  /\ SetStatus(woken, IF sleeps THEN {currentThread} ELSE {})
  /\ machineState' = [machineState EXCEPT ![currentThread] =
                        IF sleeps THEN "Sleep" ELSE @]
  /\ level' = IF sleeps THEN "IntOff" ELSE "IntOn"
  /\ UNCHANGED <<currentThread, priorityLevel, threadToBeDestroyed, mode>>

\* An interrupt handler makes the threads of woken ready.
Handler(woken) ==
  /\ HandlerMayRun
  /\ SetStatus(woken, {})
  /\ mode' = IF Sleeping THEN "IdleMode" ELSE mode
  /\ UNCHANGED <<currentThread, priorityLevel, machineState, threadToBeDestroyed, level>>

\* Interrupt::Idle returns to Sleep after the handlers that were due.
IdleReturn ==
  /\ mode = "IdleMode"
  /\ mode' = "SystemMode"
  /\ UNCHANGED <<currentThread, status, readyList, priorityLevel, machineState,
                 threadToBeDestroyed, level>>

\* Thread::Finish: the carcass is left to the next thread that returns from SWITCH.
\* A caller that has turned interrupts off before may have made woken ready.
Finish(woken) ==
  /\ Running
  /\ threadToBeDestroyed' = currentThread
  /\ SetStatus(woken, {currentThread})
  /\ machineState' = [machineState EXCEPT ![currentThread] = "Finish"]
  /\ level' = "IntOff"
  /\ UNCHANGED <<currentThread, priorityLevel, mode>>

\* Mutant of Dispatch: the thread is looked at with top() and not popped.
Dispatch_NotPopped ==
  /\ Sleeping
  /\ mode = "SystemMode"
  /\ \E next \in FrontOfReadyList : Run(next, status[currentThread], readyList)
  /\ UNCHANGED <<priorityLevel, machineState, mode>>

\* The end of Thread::Sleep: somebody is ready, Run it.  The thread found may
\* be the sleeping thread itself, woken by a handler while it idled.
Dispatch ==
  /\ Sleeping
  /\ mode = "SystemMode"
  /\ \E next \in FrontOfReadyList :
       Run(next, status[currentThread], [readyList EXCEPT ![next] = @ - 1])
  /\ UNCHANGED <<priorityLevel, machineState, mode>>

\* Interrupt::Halt: Idle found no interrupt pending, or the SC_Halt call.
Halt ==
  /\ \/ Running
     \/ Sleeping /\ mode = "SystemMode" /\ ReadyThreads = {}
  /\ mode' = "Halted"
  /\ UNCHANGED <<currentThread, status, readyList, priorityLevel, machineState,
                 threadToBeDestroyed, level>>

SchedNext ==
  \/ \E t \in Thread, p \in PriorityLevels : NewThread(t, p)
  \/ \E t \in Thread : DeleteThread(t) \/ Fork(t)
  \/ Yield
  \/ \E woken \in SUBSET Sleepers, sleeps \in BOOLEAN : Region(woken, sleeps)
  \/ \E woken \in SUBSET Sleepers : Handler(woken)
  \/ \E woken \in SUBSET Sleepers : Finish(woken)
  \/ IdleReturn
  \/ Dispatch
  \/ Halt

SchedSpec == SchedInit /\ [][SchedNext]_schedVars

-----------------------------------------------------------------------------
(* Properties.                                                             *)

Finished(t) == status[t] = "BLOCKED" /\ machineState[t] = "Finish"

\* The ready list holds every READY thread exactly once and no other thread:
\* ReadyToRun pushes and FindNextToRun pops in step with status, so no thread
\* is dispatched twice, after it finished, or after it was deleted.
ReadyListConsistent ==
  \A t \in Thread : readyList[t] = IF status[t] = "READY" THEN 1 ELSE 0

\* A RUNNING thread is the current one, and the current thread is not RUNNING
\* only while it is in Sleep with interrupts off.  The processor is never on
\* the stack of a thread object that does not exist or was not forked.
ProcessorOwned ==
  /\ \A t \in Thread : status[t] = "RUNNING" => t = currentThread
  /\ status[currentThread] \in {"RUNNING", "BLOCKED", "READY"}
  /\ Sleeping => level = "IntOff"
  /\ mode = "IdleMode" => Sleeping

\* threadToBeDestroyed is a finished thread that still exists: Run never
\* deletes a thread twice, nor one that can still run.
CarcassFinished ==
  threadToBeDestroyed # NULL => Finished(threadToBeDestroyed)

\* The ready list, the processor and the carcass fit together in every order of
\* Fork, Yield, Sleep, Finish, wakeups and deletions.
DispatcherConsistent == ReadyListConsistent /\ ProcessorOwned /\ CarcassFinished

\* A thread object goes away only if it was never forked, or has finished and
\* no longer has the processor (the ASSERT in ~Thread).
DestroyedSafely ==
  [][\A t \in Thread :
       status[t] # "NONE" /\ status'[t] = "NONE" =>
          \/ status[t] = "JUST_CREATED"
          \/ Finished(t) /\ t # currentThread']_schedVars

\* thread.cc:171, of Finish: "we set threadToBeDestroyed, so that
\* Scheduler::Run() will call the destructor".  Every finished thread is still
\* the one to be destroyed, so none of them is forgotten.
CarcassNotForgotten ==
  \A t \in Thread : Finished(t) => threadToBeDestroyed = t
=============================================================================
