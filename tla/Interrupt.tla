------------------------------ MODULE Interrupt ------------------------------
(***************************************************************************)
(* The simulated interrupt hardware: machine/interrupt.cc, with the two    *)
(* sources of time slices (machine/timer.cc and RoundRobin in              *)
(* userprog/progtest.cc) and one device whose completion wakes a thread.   *)
(*                                                                         *)
(* Time advances when interrupts are enabled (SystemTick), when a user     *)
(* instruction is executed (UserTick) and when the machine idles.  Only    *)
(* the distance to each pending interrupt is kept, so the model is finite  *)
(* without a bound on the clock.                                           *)
(***************************************************************************)
EXTENDS Scheduler, Sequences

CONSTANTS SystemTick, UserTick,
          TimeSlicers,   \* the sources of type TimerInt in use
          Delay          \* Delay[src]: how far ahead src may schedule an interrupt

Device == "Device"
Source == TimeSlicers \cup {Device}

ASSUME InterruptAssumption ==
  /\ SystemTick \in Nat \ {0} /\ UserTick \in Nat \ {0}
  /\ Device \notin TimeSlicers
  /\ Delay \in [Source -> SUBSET (Nat \ {0})]
  /\ \A src \in Source : Delay[src] # {}

VARIABLES
  pending,        \* the pending interrupts by time, with the ticks still to go
  yieldOnReturn,  \* a handler asked for a context switch
  owedTick,       \* interrupts were just enabled: SetLevel is to call OneTick
  requester,      \* the thread that waits for the device
  expired         \* history: a time slice ended under the thread that has the
                  \* processor, which has not yielded it since

intVars == <<pending, yieldOnReturn, owedTick, requester, expired>>
vars == <<schedVars, intVars>>

-----------------------------------------------------------------------------
(* The list of pending interrupts.                                         *)

\* List::SortedInsert: after the items that are due no later.
SortedInsert(list, item) ==
  LET notLater(x) == x.due <= item.due
      later(x)    == x.due > item.due
  IN  Append(SelectSeq(list, notLater), item) \o SelectSeq(list, later)

PendingInterrupt(src, when) == [src |-> src, due |-> when]

Schedule(list, src, fromNow) == SortedInsert(list, PendingInterrupt(src, fromNow))

Advance(list, ticks) == [i \in 1..Len(list) |-> [list[i] EXCEPT !.due = @ - ticks]]

\* Mutant of PutBack: an interrupt that is not due is forgotten.
PutBack_Lost(list) == Tail(list)

\* CheckIfDue removes the first interrupt to look at it.  Put back, it comes
\* after the others that are due at the same time.
PutBack(list) == SortedInsert(Tail(list), Head(list))

\* Mutant of OnlyTimeSlicer: the type of the interrupt is not looked at.
OnlyTimeSlicer_Never(list) == FALSE

\* In IdleMode a time slicer that is the only thing pending is put back.
OnlyTimeSlicer(list) == Len(list) = 1 /\ Head(list).src \in TimeSlicers

\* The loop around CheckIfDue(FALSE): the handlers of the interrupts that are
\* due.  A time slicer schedules its next interrupt, delay[src] ahead.
RECURSIVE FireDue(_, _, _)
FireDue(state, delay, idle) ==
  LET list == state.list
      src  == Head(list).src
      rest == Tail(list)
  IN  IF list = <<>> THEN state
      ELSE IF Head(list).due > 0 \/ (idle /\ OnlyTimeSlicer(list))
      THEN [state EXCEPT !.list = PutBack(list)]
      ELSE FireDue([list  |-> IF src \in TimeSlicers THEN Schedule(rest, src, delay[src])
                              ELSE rest,
                    fired |-> state.fired \cup {src}],
                   delay, idle)

\* Mutant of WokenBy: the handler makes the interrupted thread ready.
WokenBy_Current(fired) == IF Device \in fired THEN {currentThread} ELSE {}

\* The thread the device's handler makes ready.
WokenBy(fired) == IF Device \in fired THEN {requester} ELSE {}

\* The delays the sources may choose, one for each.
Delays == {d \in [Source -> UNION {Delay[src] : src \in Source}] :
             \A src \in Source : d[src] \in Delay[src]}

-----------------------------------------------------------------------------
\* The current thread executes code of its own: no tick and no yield is due.
Proceeds == Running /\ ~owedTick /\ ~yieldOnReturn

\* Initialize(): the timer is started if option -rs asks for it; the main thread
\* then enables interrupts.
Init ==
  /\ SchedInit
  /\ \E d \in Delays :
       pending = IF "Timer" \in TimeSlicers THEN Schedule(<<>>, "Timer", d["Timer"]) ELSE <<>>
  /\ yieldOnReturn = FALSE
  /\ owedTick = TRUE
  /\ requester = NULL
  /\ expired = FALSE

\* StartProcess starts the round robin time slices.
StartProcess ==
  /\ Proceeds
  /\ "RoundRobin" \in TimeSlicers
  /\ \A i \in 1..Len(pending) : pending[i].src # "RoundRobin"
  /\ \E d \in Delays : pending' = Schedule(pending, "RoundRobin", d["RoundRobin"])
  /\ UNCHANGED <<schedVars, yieldOnReturn, owedTick, requester, expired>>

\* Mutant of OneTick: the handler of one due interrupt is run, not of all.
OneTick_FiresOne ==
  /\ Running /\ ~yieldOnReturn
  /\ LET aged == Advance(pending, IF owedTick THEN SystemTick ELSE UserTick)
         fires == aged # <<>> /\ Head(aged).due <= 0
         src == Head(aged).src
     IN  \E d \in Delays :
           /\ pending' = IF ~fires THEN aged
                         ELSE IF src \in TimeSlicers THEN Schedule(Tail(aged), src, d[src])
                         ELSE Tail(aged)
           /\ yieldOnReturn' = (fires /\ src \in TimeSlicers)
           /\ expired' = yieldOnReturn'
           /\ requester' = IF fires /\ src = Device THEN NULL ELSE requester
           /\ Handler(IF fires THEN WokenBy({src}) ELSE {})
  /\ owedTick' = FALSE

\* Interrupt::OneTick, called by SetLevel or after a user instruction.
OneTick ==
  /\ Running /\ ~yieldOnReturn
  /\ \E d \in Delays :
       LET aged == Advance(pending, IF owedTick THEN SystemTick ELSE UserTick)
           r == FireDue([list |-> aged, fired |-> {}], d, FALSE)
       IN  /\ pending' = r.list
           /\ yieldOnReturn' = (r.fired \cap TimeSlicers # {})
           /\ expired' = (r.fired \cap TimeSlicers # {})
           /\ requester' = IF Device \in r.fired THEN NULL ELSE requester
           /\ Handler(WokenBy(r.fired))
  /\ owedTick' = FALSE

\* The end of OneTick: the context switch a handler asked for.  The thread that
\* runs next enables interrupts, unless it resumes in Sleep.
TimeSliceEnds ==
  /\ Running /\ yieldOnReturn
  /\ IF ReadyThreads = {} THEN UNCHANGED schedVars ELSE Yield
  /\ yieldOnReturn' = FALSE
  /\ expired' = FALSE
  /\ owedTick' = (level' = "IntOn")
  /\ UNCHANGED <<pending, requester>>

\* The device is asked to do something; the thread sleeps until it is done.
Request ==
  /\ Proceeds
  /\ requester = NULL
  /\ \E d \in Delays : pending' = Schedule(pending, Device, d[Device])
  /\ requester' = currentThread
  /\ Region({}, TRUE)
  /\ UNCHANGED <<yieldOnReturn, owedTick, expired>>

\* The thread resumes in Sleep and enables interrupts again.
SleepReturns ==
  /\ status[currentThread] = "RUNNING" /\ level = "IntOff" /\ mode = "SystemMode"
  /\ Region({}, FALSE)
  /\ owedTick' = TRUE
  /\ UNCHANGED <<pending, yieldOnReturn, requester, expired>>

\* Thread creation and the end of a thread.
ThreadStep ==
  /\ Proceeds
  /\ \/ /\ \E t \in Thread : NewThread(t, 1)
        /\ UNCHANGED owedTick
     \/ /\ \E t \in Thread : Fork(t)
        /\ owedTick' = TRUE
     \/ /\ Finish({})
        /\ UNCHANGED owedTick
  /\ UNCHANGED <<pending, yieldOnReturn, requester, expired>>

SleepDispatches ==
  /\ Dispatch
  /\ owedTick' = (level' = "IntOn")
  /\ expired' = FALSE
  /\ UNCHANGED <<pending, yieldOnReturn, requester>>

\* Sleep finds nobody ready and calls Idle.
Idles == Sleeping /\ mode = "SystemMode" /\ ReadyThreads = {}

\* Interrupt::Idle with something to wait for: the clock jumps to the first
\* pending interrupt; its handler and those of others due then are run.
Idle ==
  /\ Idles
  /\ pending # <<>> /\ ~OnlyTimeSlicer(pending)
  /\ \E d \in Delays :
       LET jump == IF Head(pending).due > 0 THEN Head(pending).due ELSE 0
           r == FireDue([list |-> Advance(pending, jump), fired |-> {}], d, TRUE)
       IN  /\ pending' = r.list
           /\ requester' = IF Device \in r.fired THEN NULL ELSE requester
           /\ Handler(WokenBy(r.fired))
  /\ yieldOnReturn' = FALSE
  /\ UNCHANGED <<owedTick, expired>>

\* Mutant of IdleHalts: any time slicer at the head of the list ends it all.
IdleHalts_TimerFirst ==
  /\ Idles
  /\ pending # <<>> => Head(pending).src \in TimeSlicers
  /\ Halt
  /\ UNCHANGED intVars

\* Interrupt::Idle with nothing pending but a time slicer: halt.
IdleHalts ==
  /\ Idles
  /\ pending = <<>> \/ OnlyTimeSlicer(pending)
  /\ Halt
  /\ UNCHANGED intVars

IdleEnds == IdleReturn /\ UNCHANGED intVars

Next ==
  \/ StartProcess \/ OneTick \/ TimeSliceEnds
  \/ Request \/ SleepReturns \/ ThreadStep \/ SleepDispatches
  \/ Idle \/ IdleHalts \/ IdleEnds

\* The simulated processor never stops by itself.
Spec == Init /\ [][Next]_vars /\ WF_vars(Next)

-----------------------------------------------------------------------------
(* Properties.                                                             *)

PendingSources == {pending[i].src : i \in 1..Len(pending)}

\* The pending list is in order of time (CheckIfDue looks at its head only); a
\* source is on it at most once; the device is on it exactly while a thread
\* sleeps for its completion; and while a thread executes code of its own, nothing
\* on it is overdue.
PendingConsistent ==
  /\ \A i, j \in 1..Len(pending) : i < j => /\ pending[i].due <= pending[j].due
                                            /\ pending[i].src # pending[j].src
  /\ Device \in PendingSources <=> requester # NULL
  /\ requester # NULL => requester \in Sleepers
  /\ Proceeds => \A i \in 1..Len(pending) : pending[i].due > 0

\* The idle machine halts only when no thread waits for a device.
HaltsOnlyWhenQuiet == mode = "Halted" => requester = NULL

\* No path through CheckIfDue and the handlers loses an interrupt: every request to
\* the device is answered, whatever runs meanwhile; a time slicer that was started
\* is pending ever after; and a thread is made to yield if a time slice ended while
\* it had the processor, and only then: yieldOnReturn is neither lost between the
\* handler and the end of OneTick nor left over from handlers that Idle has run
\* (interrupt.cc 169-175, 218).
NoInterruptLost ==
  /\ requester # NULL ~> requester = NULL
  /\ [][\A src \in TimeSlicers : src \in PendingSources => src \in PendingSources']_vars
  /\ [](Running => (yieldOnReturn <=> expired))

\* interrupt.cc:286, of CheckIfDue: "If the pending interrupt is just the
\* time-slice daemon, however, then we're done!"  Once nobody is left to run
\* and only time slicers are pending, the machine halts.
IdleMachineHalts ==
  (Idles /\ Device \notin PendingSources) ~> mode = "Halted"

\* The interrupt hardware uses the dispatcher as Scheduler describes.
ImplementsScheduler == SchedSpec
=============================================================================
