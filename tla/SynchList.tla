----------------------------- MODULE SynchList -----------------------------
(***************************************************************************)
(* A list that threads share (threads/synchlist.cc), and a list that the   *)
(* kernel keeps in order with interrupts off, as the pending interrupts.   *)
(***************************************************************************)
EXTENDS Callers, List

CONSTANTS ListLock, listEmpty,   \* the lock and the condition of the list
          Keys, Names,           \* of the items of the ordered list
          MaxItems               \* how many it may hold

VARIABLES list,       \* the shared list
          ordered,    \* the ordered one
          contents    \* history: for each of the two, what should be in it

listVars == <<list, ordered, contents>>

SynchListInit ==
  /\ list = NewList
  /\ ordered = NewList
  /\ contents = [list |-> <<>>, ordered |-> <<>>]

-----------------------------------------------------------------------------
(* SynchList::Append; the item is the number of the call.                  *)

AppendCalls(t) == Calls(t, "append lock") /\ UNCHANGED listVars

AppendLocks(t) == Acquires(t, ListLock, "append lock", "append") /\ UNCHANGED listVars

Appends(t) ==
  /\ Goto(t, "append", "append signal")
  /\ list' = AppendItem(list, calls)
  /\ contents' = [contents EXCEPT !.list = Append(@, calls)]
  /\ UNCHANGED <<ordered, monitorVars>>

\* Mutant of AppendSignals: the waiter is not woken.
AppendSignals_Silent(t) ==
  /\ Goto(t, "append signal", "append unlock")
  /\ UNCHANGED <<monitorVars, listVars>>

AppendSignals(t) ==
  /\ Goto(t, "append signal", "append unlock")
  /\ IF waiting[listEmpty] = <<>> THEN UNCHANGED monitorVars ELSE SignalTo(t, listEmpty)
  /\ UNCHANGED listVars

AppendUnlocks(t) == Releases(t, ListLock, "append unlock") /\ UNCHANGED listVars

-----------------------------------------------------------------------------
(* SynchList::Remove.                                                      *)

RemoveCalls(t) == Calls(t, "remove lock") /\ UNCHANGED listVars

RemoveLocks(t) ==
  /\ \/ Acquires(t, ListLock, "remove lock", "remove")
     \/ Acquires(t, ListLock, "remove waits", "remove")
  /\ UNCHANGED listVars

RemoveWaits(t) ==
  /\ Goto(t, "remove", "remove waits")
  /\ IsEmpty(list)
  /\ WaitOn(t, listEmpty)
  /\ UNCHANGED listVars

Removes(t) ==
  /\ Goto(t, "remove", "remove unlock")
  /\ ~IsEmpty(list)
  /\ list' = SortedRemove(list)
  /\ contents' = [contents EXCEPT !.list = Tail(@)]
  /\ UNCHANGED <<ordered, monitorVars>>

RemoveUnlocks(t) == Releases(t, ListLock, "remove unlock") /\ UNCHANGED listVars

-----------------------------------------------------------------------------
(* The ordered list; Prepend puts an item with key 0 in front.             *)

\* The sequence with the item behind every one whose key is not greater.
Inserted(s, item) ==
  LET n == Cardinality({i \in DOMAIN s : s[i].key <= item.key})
  IN  SubSeq(s, 1, n) \o <<item>> \o SubSeq(s, n + 1, Len(s))

Inserts(item) ==
  /\ Len(contents.ordered) < MaxItems
  /\ ordered' = SortedInsert(ordered, item, item.key)
  /\ contents' = [contents EXCEPT !.ordered = Inserted(@, item)]
  /\ UNCHANGED <<list, callerVars>>

Prepends(name) ==
  /\ Len(contents.ordered) < MaxItems
  /\ ordered' = Prepend(ordered, [key |-> 0, name |-> name])
  /\ contents' = [contents EXCEPT !.ordered = <<[key |-> 0, name |-> name]>> \o @]
  /\ UNCHANGED <<list, callerVars>>

TakesFirst ==
  /\ ~IsEmpty(ordered)
  /\ ordered' = SortedRemove(ordered)
  /\ contents' = [contents EXCEPT !.ordered = Tail(@)]
  /\ UNCHANGED <<list, callerVars>>

SynchListStep(t) ==
  \/ AppendLocks(t) \/ Appends(t) \/ AppendSignals(t) \/ AppendUnlocks(t)
  \/ RemoveLocks(t) \/ RemoveWaits(t) \/ Removes(t) \/ RemoveUnlocks(t)

SynchListNext == \E t \in Thread : AppendCalls(t) \/ RemoveCalls(t) \/ SynchListStep(t)

OrderedNext ==
  \/ \E item \in [key : Keys, name : Names] : Inserts(item)
  \/ \E name \in Names : Prepends(name)
  \/ TakesFirst

-----------------------------------------------------------------------------
(* Properties.                                                             *)

\* Whatever is appended, prepended, inserted by key and removed, by threads in
\* any order, the cells from first to last are the items in order, a list that
\* becomes empty forgets its last cell, and none is lost (list.cc).
ListsRepresent ==
  Represents(list, contents.list) /\ Represents(ordered, contents.ordered)

\* While the list holds items, a thread waiting in Remove does not wait for ever
\* (SynchList::Append signals once for each item, and Remove tests again).
ItemsReachRemovers ==
  \A t \in Thread :
    (pc[t] = "remove waits" /\ ~IsEmpty(list)) ~> (pc[t] # "remove waits" \/ IsEmpty(list))
=============================================================================
