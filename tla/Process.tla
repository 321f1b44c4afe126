------------------------------- MODULE Process -------------------------------
(***************************************************************************)
(* User processes: the Exec, Exit and Join system calls and the fatal      *)
(* exceptions (userprog/exception.cc), with the records that parents keep  *)
(* of their children (Thread(char*, Thread* ), notifyParent and ~Thread in *)
(* threads/thread.cc, class ChildThread).                                  *)
(*                                                                         *)
(* A record has the SpaceId of its child as name; its join_sem is the      *)
(* semaphore of that name.  The loop in ~Thread that would delete a dead   *)
(* parent's records never iterates, so records live on.                    *)
(***************************************************************************)
EXTENDS Synch

CONSTANTS MaxSpaces,   \* bound on globalID
          ExitStatus   \* what programs pass to Exit

\* The ids that Exec hands out.
SpaceId == 0..(MaxSpaces - 1)

ASSUME ProcessAssumption ==
  /\ MaxSpaces \in Nat
  /\ NULL \notin SpaceId
  /\ Semaphore = SpaceId /\ \A id \in SpaceId : initialValue[id] = 0
  /\ ExitStatus \subseteq Int

VARIABLES
  globalID,      \* the next id
  child,         \* Thread::child: the ids in a parent's list, in order
  parentRecord,  \* Thread::parentRecord
  record,        \* the ChildThread objects: status and thread
  pc,            \* where in a system call each thread is
  newborn,       \* the thread that Exec is creating
  started,       \* the ids that Exec has returned
  exited,        \* the ids whose programs are over
  joins,         \* how often each id was joined
  result         \* what Join returned last, for each id

procVars == <<globalID, child, parentRecord, record, pc, newborn, started, exited,
              joins, result>>
vars == <<allVars, procVars>>

\* A new record; its semaphore is at 0.
ChildThread(t) == [status |-> -1, thread |-> t]

\* StartProcess runs the first program in the main thread.
Init ==
  /\ SchedInit /\ SynchInit
  /\ globalID = 0
  /\ child = [t \in Thread |-> <<>>]
  /\ parentRecord = [t \in Thread |-> NULL]
  /\ record = [id \in SpaceId |-> ChildThread(NULL)]
  /\ pc = [t \in Thread |-> "user"]
  /\ newborn = [t \in Thread |-> NULL]
  /\ started = {}
  /\ exited = {}
  /\ joins = [id \in SpaceId |-> 0]
  /\ result = [id \in SpaceId |-> NULL]

-----------------------------------------------------------------------------
At(place) == Running /\ pc[currentThread] = place

Goto(place) == pc' = [pc EXCEPT ![currentThread] = place]

\* Mutant of ExecBegins: globalID is not advanced.
ExecBegins_SameID(t) ==
  /\ At("user")
  /\ globalID < MaxSpaces
  /\ NewThread(t, 1)
  /\ child' = [child EXCEPT ![currentThread] = Append(@, globalID), ![t] = <<>>]
  /\ parentRecord' = [parentRecord EXCEPT ![t] = globalID]
  /\ record' = [record EXCEPT ![globalID] = ChildThread(t)]
  /\ newborn' = [newborn EXCEPT ![currentThread] = t]
  /\ pc' = [pc EXCEPT ![currentThread] = "Exec", ![t] = "user"]
  /\ UNCHANGED <<synchVars, globalID, started, exited, joins, result>>

(* Exec: the new thread's record is made before its address space, and what *)
(* comes between may lose the processor (page faults take locks).          *)
ExecBegins(t) ==
  /\ At("user")
  /\ globalID < MaxSpaces
  /\ NewThread(t, 1)
  /\ globalID' = globalID + 1
  /\ child' = [child EXCEPT ![currentThread] = Append(@, globalID), ![t] = <<>>]
  /\ parentRecord' = [parentRecord EXCEPT ![t] = globalID]
  /\ record' = [record EXCEPT ![globalID] = ChildThread(t)]
  /\ newborn' = [newborn EXCEPT ![currentThread] = t]
  /\ pc' = [pc EXCEPT ![currentThread] = "Exec", ![t] = "user"]
  /\ UNCHANGED <<synchVars, started, exited, joins, result>>

\* The address space was created: Fork, and return the id.
ExecForks ==
  LET t == newborn[currentThread]
  IN  /\ At("Exec")
      /\ Fork(t)
      /\ started' = started \cup {parentRecord[t]}
      /\ newborn' = [newborn EXCEPT ![currentThread] = NULL]
      /\ Goto("user")
      /\ UNCHANGED <<synchVars, globalID, child, parentRecord, record, exited, joins, result>>

\* The constructor of AddrSpace threw: delete the thread, return -1.  The record
\* stays in the parent's list.
ExecFails ==
  /\ At("Exec")
  /\ DeleteThread(newborn[currentThread])
  /\ newborn' = [newborn EXCEPT ![currentThread] = NULL]
  /\ Goto("user")
  /\ UNCHANGED <<synchVars, globalID, child, parentRecord, record, started, exited, joins, result>>

\* Mutant of Join: the child is found but not waited for.
Join_NoWait(id) ==
  /\ At("user") /\ id \in Members(child[currentThread]) /\ joins[id] = 0
  /\ joins' = [joins EXCEPT ![id] = @ + 1]
  /\ result' = [result EXCEPT ![id] = 0]
  /\ UNCHANGED <<allVars, globalID, child, parentRecord, record, pc, newborn,
                 started, exited>>

\* Join(id) of any id in the list: wait on the record's semaphore and return 0.
\* The record may be that of a failed Exec, or of a child joined before; nobody
\* signals these again.  An id that is not in the list is refused with -1, which
\* changes nothing.
Join(id) ==
  /\ \/ At("user") /\ id \in Members(child[currentThread])
     \/ pc[currentThread] = "Join" /\ call[currentThread] = InP(id)
  /\ P(id)
  /\ IF call'[currentThread] = NoCall
     THEN /\ joins' = [joins EXCEPT ![id] = @ + 1]
          /\ result' = [result EXCEPT ![id] = 0]
          /\ Goto("user")
     ELSE /\ Goto("Join")
          /\ UNCHANGED <<joins, result>>
  /\ UNCHANGED <<globalID, child, parentRecord, record, newborn, started, exited>>

\* What notifyParent writes into the record of the current thread.
NotifyParent(exitStatus) ==
  LET id == parentRecord[currentThread]
  IN  /\ record' = [record EXCEPT ![id] = [status |-> exitStatus, thread |-> NULL]]
      /\ exited' = exited \cup {id}

\* Mutant of ExitNotifies: the parent is not signalled.
ExitNotifies_NoV(exitStatus) ==
  /\ At("user")
  /\ parentRecord[currentThread] # NULL
  /\ NotifyParent(exitStatus)
  /\ Goto("Exit")
  /\ UNCHANGED <<allVars, globalID, child, parentRecord, newborn, started, joins, result>>

\* Exit(status), or a page fault that cannot be served: notifyParent signals the
\* parent with interrupts on; Finish comes later.
ExitNotifies(exitStatus) ==
  /\ At("user")
  /\ parentRecord[currentThread] # NULL
  /\ NotifyParent(exitStatus)
  /\ V(parentRecord[currentThread])
  /\ Goto("Exit")
  /\ UNCHANGED <<globalID, child, parentRecord, newborn, started, joins, result>>

\* The Finish after notifyParent; notifyParent does nothing for the first program.
ExitFinishes ==
  /\ \/ At("Exit")
     \/ At("user") /\ parentRecord[currentThread] = NULL
  /\ Finish({})
  /\ UNCHANGED <<synchVars, procVars>>

\* Mutant of Faults: the fault is noted once more when the thread finishes.
Faults_Twice ==
  /\ At("user") \/ At("Exit")
  /\ parentRecord[currentThread] # NULL
  /\ NotifyParent(-1)
  /\ VThenFinish(parentRecord[currentThread])
  /\ Goto("Exit")
  /\ UNCHANGED <<globalID, child, parentRecord, newborn, started, joins, result>>

\* Address error, overflow, read-only: interrupts are off from notifyParent to
\* Finish.
Faults ==
  /\ At("user")
  /\ parentRecord[currentThread] # NULL
  /\ NotifyParent(-1)
  /\ VThenFinish(parentRecord[currentThread])
  /\ Goto("Exit")
  /\ UNCHANGED <<globalID, child, parentRecord, newborn, started, joins, result>>

\* The dispatcher.  Only time slices are pending while programs run, so Idle
\* halts when nobody is ready; SC_Halt halts at once.
DispatcherStep ==
  /\ Yield \/ Dispatch \/ (At("user") /\ Halt) \/ (Sleeping /\ Halt)
  /\ UNCHANGED <<synchVars, procVars>>

Next ==
  \/ \E t \in Thread : ExecBegins(t)
  \/ ExecForks \/ ExecFails
  \/ \E id \in SpaceId : Join(id)
  \/ \E s \in ExitStatus : ExitNotifies(s)
  \/ ExitFinishes \/ Faults
  \/ DispatcherStep

(* Fairness: every thread gets the processor again and again; programs do   *)
(* not loop for ever, and get on with a system call once they are in it.   *)
Proceeds(t) ==
  /\ currentThread = t
  /\ \/ ExecForks \/ ExecFails \/ ExitFinishes \/ Faults
     \/ \E id \in SpaceId : pc[t] = "Join" /\ Join(id)

Dispatches(t) == /\ Yield \/ Dispatch
                 /\ currentThread' = t
                 /\ UNCHANGED <<synchVars, procVars>>

Fairness == \A t \in Thread : SF_vars(Proceeds(t)) /\ SF_vars(Dispatches(t))

Spec == Init /\ [][Next]_vars /\ Fairness

-----------------------------------------------------------------------------
(* Properties.                                                             *)

\* syscall.h: Join is to "only return once the user program id has finished".
\* A Join that has returned was for a program that is over: its thread, if it
\* still has the processor to get, runs no user code again.
JoinReturnsAfterExit ==
  \A id \in SpaceId :
    joins[id] > 0 => /\ id \in exited
                     /\ \A t \in Thread : parentRecord[t] = id /\ status[t] # "NONE"
                                          => pc[t] = "Exit"

\* notifyParent signals each record's semaphore exactly once, on whichever path
\* the program ends, also when its parent has finished and is gone.
SignalledOnce ==
  \A id \in SpaceId : value[id] + joins[id] = IF id \in exited THEN 1 ELSE 0

\* A live program's thread and its record point at each other; no other thread
\* has the record, although thread objects are deleted and created again.
RecordsConsistent ==
  \A id \in started \ exited :
    LET t == record[id].thread
    IN  /\ t # NULL /\ parentRecord[t] = id
        /\ status[t] \notin {"NONE", "JUST_CREATED"} /\ ~Finished(t)
        /\ \A u \in Thread : parentRecord[u] = id /\ status[u] # "NONE" => u = t

\* Nobody will signal the record: its Exec failed, or its one signal was used up.
Spent(id) == id \notin started \/ joins[id] > 0

\* The thread is in a Join of a spent record, or of a program that is itself in
\* such a Join, and so on.
JoinsInVain(t) ==
  \E stuck \in SUBSET Thread :
    /\ t \in stuck
    /\ \A u \in stuck :
         \E id \in SpaceId :
           /\ pc[u] = "Join" /\ call[u] = InP(id)
           /\ Spent(id) \/ (id \notin exited /\ record[id].thread \in stuck)

\* A program in Join is kept waiting for ever only by what it asked for: it returns,
\* unless another program halts the machine, or it waits, through a chain of Joins,
\* for a record that Exec_Syscall_Func left behind when it failed or that was
\* joined before (Join_Syscall_Func sleeps on both, exception.cc 354-361).  No
\* signal is lost, whether it comes before or after the Join, by Exit or by a
\* fault, and the machine does not halt for want of a ready thread meanwhile.
JoinReturns ==
  \A t \in Thread :
    pc[t] = "Join" ~> (pc[t] = "user" \/ (mode = "Halted" /\ ~Sleeping) \/ JoinsInVain(t))

\* syscall.h:68, of Join: "Return the exit status."
JoinReturnsStatus ==
  \A id \in SpaceId : result[id] # NULL => result[id] = record[id].status
=============================================================================
