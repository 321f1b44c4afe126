------------------------------ MODULE Callers ------------------------------
(***************************************************************************)
(* Threads inside calls of synchronized objects.  Locks and conditions are *)
(* the monitor that threads/synch.cc implements (Monitor); pc says where   *)
(* in which call each thread is.                                           *)
(***************************************************************************)
EXTENDS Monitor

CONSTANT MaxCalls       \* how many calls there may be

VARIABLES pc, calls

callerVars == <<pc, calls, monitorVars>>

CallersInit ==
  /\ MonitorInit
  /\ pc = [t \in Thread |-> "idle"]
  /\ calls = 0

Calls(t, call) ==
  /\ pc[t] = "idle" /\ calls < MaxCalls
  /\ calls' = calls + 1
  /\ pc' = [pc EXCEPT ![t] = call]
  /\ UNCHANGED monitorVars

Goto(t, from, to) ==
  /\ pc[t] = from
  /\ pc' = [pc EXCEPT ![t] = to]
  /\ UNCHANGED calls

Acquires(t, lock, from, to) == Goto(t, from, to) /\ Enter(t, lock)
Releases(t, lock, from) == Goto(t, from, "idle") /\ Leave(t, lock)
=============================================================================
