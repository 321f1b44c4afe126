------------------------------ MODULE ReadyList ------------------------------
(***************************************************************************)
(* The ready list as it is represented: the binary heap of                 *)
(* std::priority_queue<Thread*, std::vector<Thread*>, MyCmp>               *)
(* (threads/scheduler.h, threads/scheduler.cc).                            *)
(*                                                                         *)
(* Module Scheduler leaves open which of several equally urgent threads    *)
(* runs next.  Here the heap decides, as libstdc++ keeps it, and threads   *)
(* run until they are sliced, sleep, or are woken again.                   *)
(***************************************************************************)
EXTENDS Integers, Sequences

CONSTANTS Runnable, NULL,  \* the threads, and none
          priorityLevel,  \* Thread::priorityLevel; smaller runs first
          First,          \* the thread that runs at the start
          MaxReady        \* bound on the number of threads ready at a time

ASSUME ReadyListAssumption ==
  /\ NULL \notin Runnable /\ First \in Runnable
  /\ priorityLevel \in [Runnable -> Int]
  /\ MaxReady \in Nat

VARIABLES readyList,  \* the vector underlying the priority queue
          processor     \* the thread that has the processor, or NULL when idle

readyVars == <<readyList, processor>>

Queued == {readyList[i] : i \in 1..Len(readyList)}

-----------------------------------------------------------------------------
(* The heap.                                                               *)

\* MyCmp::operator(): a is to run after b.
MyCmp(a, b) == priorityLevel[a] > priorityLevel[b]

\* std::__push_heap: v moves up from the hole past parents that run after it.
RECURSIVE SiftUp(_, _, _)
SiftUp(heap, hole, v) ==
  LET parent == hole \div 2
  IN  IF hole > 1 /\ MyCmp(heap[parent], v)
      THEN SiftUp([heap EXCEPT ![hole] = heap[parent]], parent, v)
      ELSE [heap EXCEPT ![hole] = v]

\* std::__adjust_heap: the hole moves down to a leaf, the more urgent child
\* (the right one of equals) taking its place; then v moves up from there.
RECURSIVE SiftDown(_, _, _)
SiftDown(heap, hole, v) ==
  LET left  == 2 * hole
      right == left + 1
      child == IF right > Len(heap) \/ MyCmp(heap[right], heap[left]) THEN left ELSE right
  IN  IF left > Len(heap)
      THEN SiftUp(heap, hole, v)
      ELSE SiftDown([heap EXCEPT ![hole] = heap[child]], child, v)

Push(heap, v) == SiftUp(Append(heap, v), Len(heap) + 1, v)

\* Mutant of Pop: the last element takes the place of the first.
Pop_NoSift(heap) ==
  LET rest == SubSeq(heap, 1, Len(heap) - 1)
  IN  IF rest = <<>> THEN <<>> ELSE [rest EXCEPT ![1] = heap[Len(heap)]]

\* std::priority_queue::pop
Pop(heap) ==
  LET rest == SubSeq(heap, 1, Len(heap) - 1)
  IN  IF rest = <<>> THEN <<>> ELSE SiftDown(rest, 1, heap[Len(heap)])

-----------------------------------------------------------------------------
(* The dispatcher.                                                         *)

ReadyInit == readyList = <<>> /\ processor = First

\* Mutant of Yield: the thread that yields goes back in before the next one is
\* taken out.
Yield_PushFirst ==
  LET pushed == Push(readyList, processor)
  IN  /\ processor # NULL /\ readyList # <<>>
      /\ processor' = pushed[1]
      /\ readyList' = Pop(pushed)

\* Thread::Yield, at the latest when the time slice is over.
Yield ==
  /\ processor # NULL /\ readyList # <<>>
  /\ processor' = readyList[1]
  /\ readyList' = Push(Pop(readyList), processor)

\* Thread::Sleep: the next ready thread runs, or the processor idles.
Sleep ==
  /\ processor # NULL
  /\ processor' = IF readyList = <<>> THEN NULL ELSE readyList[1]
  /\ readyList' = IF readyList = <<>> THEN <<>> ELSE Pop(readyList)

\* ReadyToRun, by the running thread (Fork, V, Release, Signal) or a handler;
\* an idle processor takes the thread at once.
Wake(t) ==
  /\ t # processor /\ t \notin Queued
  /\ Len(readyList) < MaxReady
  /\ IF processor = NULL
     THEN processor' = t /\ UNCHANGED readyList
     ELSE readyList' = Push(readyList, t) /\ UNCHANGED processor

ReadyNext == Yield \/ Sleep \/ \E t \in Runnable : Wake(t)

\* The time slice interrupt (RoundRobin, every 20 ticks) keeps coming.
ReadySpec == ReadyInit /\ [][ReadyNext]_readyVars /\ WF_readyVars(Yield)

-----------------------------------------------------------------------------
(* Properties.                                                             *)

\* "the smallest priority level would be at the front of queue" (scheduler.h:29):
\* whenever a thread leaves the ready list for the processor, nobody on the
\* list has a smaller level.
MostUrgentFirst ==
  [][processor' # processor /\ processor' \in Queued =>
       \A t \in Queued : priorityLevel[processor'] <= priorityLevel[t]]_readyVars

\* thread.cc:196, of Yield: "put the thread on the end of the ready list, so that
\* it will eventually be re-scheduled".  With time slices that keep coming, every
\* ready thread runs again, unless more urgent threads come in its way.
EventuallyRescheduled ==
  \A t \in Runnable :
    t \in Queued ~> \/ processor = t
                    \/ \E u \in Queued \cup {processor} : u # NULL /\ MyCmp(t, u)
=============================================================================
