------------------------------ MODULE SynchDisk ------------------------------
(***************************************************************************)
(* The synchronous disk, filesys/synchdisk.cc, on the asynchronous one of  *)
(* machine/disk.cc: threads read and write sectors at the same time; a     *)
(* lock lets one request through, a semaphore holds its thread until the   *)
(* disk's interrupt.                                                       *)
(*                                                                         *)
(* The disk moves the data when the request is made and interrupts later;  *)
(* how much later (ComputeLatency) is left open.                           *)
(***************************************************************************)
EXTENDS Synch

CONSTANTS Sector, Data,
          diskSemaphore,  \* SynchDisk::semaphore
          diskLock,       \* SynchDisk::lock
          MaxCalls        \* bound on the calls each thread makes

ASSUME SynchDiskAssumption ==
  /\ diskSemaphore \in Semaphore /\ initialValue[diskSemaphore] = 0
  /\ diskLock \in Lock
  /\ Sector # {} /\ Data # {}
  /\ MaxCalls \in Nat

VARIABLES
  sectors,  \* what is on the disk
  active,   \* Disk::active: a request is in progress
  pc,       \* where in ReadSector or WriteSector each thread is
  buffer,   \* the sector and the data of each thread's call
  calls     \* how many calls each thread has made

diskVars == <<sectors, active, pc, buffer, calls>>
vars == <<allVars, diskVars>>

Buffer == [op : {"Read", "Write"}, sector : Sector, data : Data]

Init ==
  /\ SchedInit /\ SynchInit
  /\ \E d \in Data : sectors = [s \in Sector |-> d]
  /\ buffer = [t \in Thread |-> CHOOSE b \in Buffer : TRUE]
  /\ active = FALSE
  /\ pc = [t \in Thread |-> "outside"]
  /\ calls = [t \in Thread |-> 0]

-----------------------------------------------------------------------------
At(place) == Running /\ pc[currentThread] = place

Goto(place) == pc' = [pc EXCEPT ![currentThread] = place]

\* The current thread calls ReadSector or WriteSector with b.  What is in the
\* buffer of a read does not matter.
Calls(b) ==
  /\ At("outside")
  /\ calls[currentThread] < MaxCalls
  /\ b.op = "Read" => b.data = buffer[currentThread].data
  /\ calls' = [calls EXCEPT ![currentThread] = @ + 1]
  /\ buffer' = [buffer EXCEPT ![currentThread] = b]
  /\ Goto("Acquire")
  /\ UNCHANGED <<allVars, sectors, active>>

\* lock->Acquire()
AcquiresLock ==
  /\ pc[currentThread] = "Acquire"
  /\ Acquire(diskLock)
  /\ IF currentThread \in critical'[diskLock] THEN Goto("Request") ELSE UNCHANGED pc
  /\ UNCHANGED <<sectors, active, buffer, calls>>

\* Disk::ReadRequest and Disk::WriteRequest.
DiskRequest ==
  LET b == buffer[currentThread]
  IN  /\ active' = TRUE
      /\ IF b.op = "Write"
         THEN /\ sectors' = [sectors EXCEPT ![b.sector] = b.data]
              /\ UNCHANGED buffer
         ELSE /\ buffer' = [buffer EXCEPT ![currentThread].data = sectors[b.sector]]
              /\ UNCHANGED sectors

\* disk->ReadRequest or WriteRequest, and semaphore->P() up to where it sleeps:
\* interrupts are not enabled in between.
Requests ==
  /\ At("Request")
  /\ DiskRequest
  /\ P(diskSemaphore)
  /\ Goto(IF call'[currentThread] = NoCall THEN "Release" ELSE "P")
  /\ UNCHANGED calls

\* Mutant of Awaits: semaphore->P() returns when the thread is dispatched.
Awaits_NoRetest ==
  /\ pc[currentThread] = "P"
  /\ Enters({InP(diskSemaphore)})
  /\ Returns({})
  /\ Goto("Release")
  /\ UNCHANGED <<semVars, lockVars, condVars, sectors, active, buffer, calls>>

\* semaphore->P() goes on after Sleep.
Awaits ==
  /\ pc[currentThread] = "P"
  /\ P(diskSemaphore)
  /\ Goto(IF call'[currentThread] = NoCall THEN "Release" ELSE "P")
  /\ UNCHANGED <<sectors, active, buffer, calls>>

\* lock->Release(), and the call returns.
ReleasesLock ==
  /\ At("Release")
  /\ Release(diskLock)
  /\ Goto("outside")
  /\ UNCHANGED <<sectors, active, buffer, calls>>

\* Mutant of HandleInterrupt: the handler is called before active is reset, and
\* the request stays active.
HandleInterrupt_StaysActive ==
  /\ active
  /\ VInHandler(diskSemaphore)
  /\ UNCHANGED diskVars

\* Mutant of HandleInterrupt: the semaphore is not signalled.
HandleInterrupt_NoV ==
  /\ active
  /\ active' = FALSE
  /\ Handler({})
  /\ UNCHANGED <<synchVars, sectors, pc, buffer, calls>>

RequestDone == VInHandler(diskSemaphore)

\* Disk::HandleInterrupt, with the callback DiskRequestDone.
HandleInterrupt ==
  /\ active
  /\ active' = FALSE
  /\ RequestDone
  /\ UNCHANGED <<sectors, pc, buffer, calls>>

\* The threads' life around the calls.  Idle halts only when no interrupt of
\* the disk is pending.
ThreadStep ==
  /\ \/ /\ At("outside")
        /\ \/ \E t \in Thread : NewThread(t, 1) \/ Fork(t)
           \/ FinishesFree
     \/ Yield \/ Dispatch \/ IdleReturn
     \/ Sleeping /\ ~active /\ Halt
  /\ UNCHANGED <<synchVars, diskVars>>

Next ==
  \/ \E b \in Buffer : Calls(b)
  \/ AcquiresLock \/ Requests \/ Awaits \/ ReleasesLock
  \/ HandleInterrupt
  \/ ThreadStep

-----------------------------------------------------------------------------
(* Fairness.  A thread that is given the processor again and again gets on *)
(* with its code; a ready thread is given the processor again and again    *)
(* (run parts, for up to four threads of one priority); the disk           *)
(* interrupts if interrupts are enabled again and again, as the clock then *)
(* goes on (run interrupt).                                                *)

Proceeds(t) == /\ currentThread = t
               /\ \/ AcquiresLock \/ Requests \/ Awaits \/ ReleasesLock
                  \/ At("outside") /\ FinishesFree /\ UNCHANGED <<synchVars, diskVars>>

Dispatches(t) == /\ Yield \/ Dispatch
                 /\ currentThread' = t
                 /\ UNCHANGED <<synchVars, diskVars>>

Fairness ==
  /\ \A t \in Thread : SF_vars(Proceeds(t)) /\ SF_vars(Dispatches(t))
  /\ SF_vars(HandleInterrupt)
  /\ WF_vars(IdleReturn /\ UNCHANGED <<synchVars, diskVars>>)

Spec == Init /\ [][Next]_vars /\ Fairness

-----------------------------------------------------------------------------
(* Properties.                                                             *)

\* The ASSERT(!active) of ReadRequest and WriteRequest holds: the lock lets no
\* thread make a request while the disk works on another's; and a call returns
\* "only once the data is actually read or written" (synchdisk.h): past P, the disk
\* has interrupted for the thread's own request.
RequestsInTurn ==
  \A t \in Thread :
    /\ pc[t] = "Request" => ~active
    /\ pc[t] = "Release" => ~active /\ value[diskSemaphore] = 0

\* From its request until it releases the lock, a thread's buffer agrees with
\* the disk: nobody's request comes between.
BufferCurrent ==
  \A t \in Thread : pc[t] \in {"P", "Release"} =>
                      buffer[t].data = sectors[buffer[t].sector]

\* Every call of ReadSector and WriteSector returns.
CallsReturn ==
  \A t \in Thread : pc[t] = "Acquire" ~> pc[t] = "outside"

\* The synchronous disk uses locks and semaphores as module Synch describes, so
\* what is shown there holds here.
ImplementsSynch == SynchSpec
=============================================================================
