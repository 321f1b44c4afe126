------------------------------- MODULE Monitor -------------------------------
(***************************************************************************)
(* What locks and condition variables promise (the comments of             *)
(* threads/synch.h), without threads, queues of a lock or a scheduler:     *)
(* a Mesa-style monitor.  At most one thread is inside a lock; Wait leaves *)
(* the lock and joins the condition's waiters in one step, so that no      *)
(* signal falls between the two; Signal lets the longest waiter go on,     *)
(* Broadcast all of them; a waiter let go must enter the lock again before *)
(* its Wait returns.                                                       *)
(***************************************************************************)
EXTENDS Sequences, Naturals

CONSTANTS Thread, Lock, Condition, conditionLock

VARIABLES inside,    \* the threads inside each lock
          waiting,   \* the threads waiting on each condition, longest first
          entering   \* the threads queued up to enter each lock

monitorVars == <<inside, waiting, entering>>

Waits(t) == \E c \in Condition : \E i \in 1..Len(waiting[c]) : waiting[c][i] = t

\* A thread does one thing at a time: it neither waits nor queues up.
Free(t) == ~Waits(t) /\ \A l \in Lock : t \notin entering[l]

MonitorInit ==
  /\ inside = [l \in Lock |-> {}]
  /\ waiting = [c \in Condition |-> <<>>]
  /\ entering = [l \in Lock |-> {}]

QueueUp(t, l) ==
  /\ Free(t) /\ t \notin inside[l]
  /\ entering' = [entering EXCEPT ![l] = @ \cup {t}]
  /\ UNCHANGED <<inside, waiting>>

Enter(t, l) ==
  /\ t \in entering[l] \/ Free(t)
  /\ inside[l] = {}
  /\ inside' = [inside EXCEPT ![l] = {t}]
  /\ entering' = [entering EXCEPT ![l] = @ \ {t}]
  /\ UNCHANGED waiting

Leave(t, l) ==
  /\ Free(t) /\ t \in inside[l]
  /\ inside' = [inside EXCEPT ![l] = @ \ {t}]
  /\ UNCHANGED <<waiting, entering>>

WaitOn(t, c) ==
  /\ Free(t) /\ t \in inside[conditionLock[c]]
  /\ inside' = [inside EXCEPT ![conditionLock[c]] = @ \ {t}]
  /\ waiting' = [waiting EXCEPT ![c] = Append(@, t)]
  /\ UNCHANGED entering

SignalTo(t, c) ==
  /\ Free(t) /\ t \in inside[conditionLock[c]]
  /\ waiting[c] # <<>>
  /\ waiting' = [waiting EXCEPT ![c] = Tail(@)]
  /\ entering' = [entering EXCEPT ![conditionLock[c]] = @ \cup {Head(waiting[c])}]
  /\ UNCHANGED inside

SignalAll(t, c) ==
  /\ Free(t) /\ t \in inside[conditionLock[c]]
  /\ waiting' = [waiting EXCEPT ![c] = <<>>]
  /\ entering' = [entering EXCEPT ![conditionLock[c]] =
                    @ \cup {waiting[c][i] : i \in 1..Len(waiting[c])}]
  /\ UNCHANGED inside

MonitorNext ==
  \E t \in Thread :
    \/ \E l \in Lock : QueueUp(t, l) \/ Enter(t, l) \/ Leave(t, l)
    \/ \E c \in Condition : WaitOn(t, c) \/ SignalTo(t, c) \/ SignalAll(t, c)

MonitorSpec == MonitorInit /\ [][MonitorNext]_monitorVars
=============================================================================
