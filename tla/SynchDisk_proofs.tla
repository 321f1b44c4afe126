-------------------------- MODULE SynchDisk_proofs --------------------------
(***************************************************************************)
(* Proofs about module SynchDisk: the lock and the semaphore of the        *)
(* synchronous disk let one request through at a time and hold its thread  *)
(* until the disk is done, for any number of threads, sectors and calls.   *)
(***************************************************************************)
EXTENDS SynchDisk, Synch_proofs

DiskTypeOK ==
  /\ sectors \in [Sector -> Data]
  /\ active \in BOOLEAN
  /\ pc \in [Thread -> {"outside", "Acquire", "Request", "P", "Release"}]
  /\ buffer \in [Thread -> Buffer]
  /\ calls \in [Thread -> Nat]

\* Where a thread is in ReadSector or WriteSector tells whether it holds the
\* lock and which call it is asleep in.
PlacesConsistent ==
  \A t \in Thread :
    /\ t \in critical[diskLock] <=> pc[t] \in {"Request", "P", "Release"}
    /\ pc[t] \in {"outside", "Request", "Release"} => call[t] = NoCall
    /\ pc[t] = "P" => call[t] = InP(diskSemaphore)

\* A request in progress, or the unit of the semaphore its interrupt leaves,
\* belongs to a thread in P; there is never more than one of the two.
RequestOwned ==
  value[diskSemaphore] + (IF active THEN 1 ELSE 0) =
    IF \E t \in Thread : pc[t] = "P" THEN 1 ELSE 0

\* The inductive invariant.
DiskInv ==
  /\ SynchInv
  /\ DiskTypeOK
  /\ PlacesConsistent
  /\ RequestOwned
  /\ BufferCurrent

-----------------------------------------------------------------------------
LEMMA BufferType ==
  /\ Buffer # {}
  /\ \A b \in Buffer : b.op \in {"Read", "Write"} /\ b.sector \in Sector /\ b.data \in Data
<1>1. PICK s \in Sector, d \in Data : TRUE
  BY SynchDiskAssumption
<1>2. [op |-> "Read", sector |-> s, data |-> d] \in Buffer
  BY DEF Buffer
<1>3. QED
  BY <1>2 DEF Buffer

LEMMA DiskInitInv == Init => DiskInv
<1> SUFFICES ASSUME Init
             PROVE  DiskInv
  OBVIOUS
<1>1. SynchInv
  BY SynchInitInv DEF Init
<1>2. DiskTypeOK
  BY BufferType DEF Init, DiskTypeOK
<1>3. PlacesConsistent
  BY SynchDiskAssumption DEF Init, SynchInit, PlacesConsistent
<1>4. RequestOwned
  BY SynchDiskAssumption DEF Init, SynchInit, RequestOwned
<1>5. BufferCurrent
  BY DEF Init, BufferCurrent
<1>6. QED
  BY <1>1, <1>2, <1>3, <1>4, <1>5 DEF DiskInv

\* Every step is a step of module Synch: ReadSector and WriteSector touch locks
\* and semaphores only through Acquire, Release, P and V.
LEMMA DiskStepIsSynchStep == [Next]_vars => [SynchNext]_allVars
<1> SUFFICES ASSUME [Next]_vars
             PROVE  [SynchNext]_allVars
  OBVIOUS
<1>1. CASE (\E b \in Buffer : Calls(b)) \/ UNCHANGED vars
  BY <1>1 DEF Calls, vars
<1>2. CASE AcquiresLock \/ ReleasesLock
  BY <1>2, SynchDiskAssumption, Zenon DEF AcquiresLock, ReleasesLock, SynchNext, SynchStep
<1>3. CASE Requests \/ Awaits \/ HandleInterrupt
  BY <1>3, SynchDiskAssumption, Zenon DEF Requests, Awaits, HandleInterrupt, RequestDone,
                                          SynchNext, SynchStep
<1>4. CASE ThreadStep
  BY <1>4, Zenon DEF ThreadStep, SynchNext, SchedStep
<1>5. QED
  BY <1>1, <1>2, <1>3, <1>4 DEF Next

\* Of two threads past Acquire one is the other.
LEMMA OneInside ==
  ASSUME DiskInv, NEW t \in Thread, NEW u \in Thread,
         pc[t] \in {"Request", "P", "Release"}, pc[u] \in {"Request", "P", "Release"}
  PROVE  t = u
<1>1. t \in critical[diskLock] /\ u \in critical[diskLock]
  BY DEF DiskInv, PlacesConsistent
<1>2. critical[diskLock] = IF ownerThread[diskLock] = NULL THEN {} ELSE {ownerThread[diskLock]}
  BY SynchDiskAssumption DEF DiskInv, SynchInv, LockKnowsOwner
<1>3. QED
  BY <1>1, <1>2

-----------------------------------------------------------------------------
(* The steps.                                                              *)

\* What remains of DiskInv' once DiskStepIsSynchStep has given SynchInv'.
DiskOnlyInv == DiskTypeOK /\ PlacesConsistent /\ RequestOwned /\ BufferCurrent

\* P of the disk's semaphore takes its unit and returns, or sleeps without one.
LEMMA PEffects ==
  ASSUME SynchInv, P(diskSemaphore)
  PROVE  /\ currentThread \in Thread
         /\ UNCHANGED critical
         /\ \A t \in Thread : t # currentThread => call'[t] = call[t]
         /\ \/ /\ value[diskSemaphore] = 0 /\ value'[diskSemaphore] = 0
               /\ call'[currentThread] = InP(diskSemaphore)
            \/ /\ value[diskSemaphore] > 0
               /\ value'[diskSemaphore] = value[diskSemaphore] - 1
               /\ call'[currentThread] = NoCall
<1>1. /\ currentThread \in Thread /\ diskSemaphore \in Semaphore
      /\ value \in [Semaphore -> Nat] /\ call \in [Thread -> Call]
  BY SynchDiskAssumption DEF SynchInv, SchedInv, SchedTypeOK, SynchTypeOK
<1>2. CASE PSleeps(diskSemaphore)
  BY <1>1, <1>2 DEF PSleeps, SleepsIn, lockVars
<1>3. CASE PReturns(diskSemaphore)
  BY <1>1, <1>3 DEF PReturns, Returns, lockVars
<1>4. QED
  BY <1>2, <1>3 DEF P

\* A call begins, or the dispatcher moves on.
LEMMA OutsideStepInv ==
  ASSUME DiskInv, (\E b \in Buffer : Calls(b)) \/ ThreadStep \/ UNCHANGED vars
  PROVE  DiskOnlyInv'
<1> USE DEF DiskInv
<1>1. CASE ThreadStep \/ UNCHANGED vars
  <2>1. UNCHANGED <<value, call, critical, sectors, active, pc, buffer, calls>>
    BY <1>1 DEF ThreadStep, vars, allVars, synchVars, semVars, lockVars, diskVars
  <2>2. QED
    BY <2>1 DEF DiskOnlyInv, DiskTypeOK, PlacesConsistent, RequestOwned, BufferCurrent
<1>2. ASSUME NEW b \in Buffer, Calls(b)
      PROVE  DiskOnlyInv'
  <2>1. /\ UNCHANGED <<value, call, critical, sectors, active>>
        /\ pc[currentThread] = "outside" /\ currentThread \in Thread
        /\ pc' = [pc EXCEPT ![currentThread] = "Acquire"]
        /\ buffer' = [buffer EXCEPT ![currentThread] = b]
        /\ calls' = [calls EXCEPT ![currentThread] = @ + 1]
    BY <1>2 DEF Calls, At, Goto, allVars, synchVars, semVars, lockVars, SynchInv, SchedInv, SchedTypeOK
  <2>2. DiskTypeOK'
    BY <2>1 DEF DiskTypeOK
  <2>3. PlacesConsistent'
    BY <2>1 DEF PlacesConsistent, DiskTypeOK
  <2>4. (\E t \in Thread : pc'[t] = "P") <=> (\E t \in Thread : pc[t] = "P")
    BY <2>1 DEF DiskTypeOK
  <2>5. RequestOwned' /\ BufferCurrent'
    BY <2>1, <2>4 DEF RequestOwned, BufferCurrent, DiskTypeOK
  <2>6. QED
    BY <2>2, <2>3, <2>5 DEF DiskOnlyInv
<1>3. QED
  BY <1>1, <1>2

LEMMA LockStepInv ==
  ASSUME DiskInv, AcquiresLock \/ ReleasesLock
  PROVE  DiskOnlyInv'
<1> USE DEF DiskInv
<1>0. /\ currentThread \in Thread /\ diskLock \in Lock
      /\ critical \in [Lock -> SUBSET Thread] /\ call \in [Thread -> Call]
  BY SynchDiskAssumption DEF SynchInv, SchedInv, SchedTypeOK, SynchTypeOK
\* Acquire and Release change the lock for the current thread only, and leave
\* it in no call unless it sleeps in Acquire.
<1>1. /\ UNCHANGED <<value, sectors, active, buffer, calls>>
      /\ \A t \in Thread : t # currentThread =>
           /\ call'[t] = call[t] /\ pc'[t] = pc[t]
           /\ t \in critical'[diskLock] <=> t \in critical[diskLock]
      /\ pc' \in [Thread -> {"outside", "Acquire", "Request", "P", "Release"}]
      /\ pc'[currentThread] # "P" /\ pc[currentThread] # "P"
      /\ \/ /\ pc'[currentThread] = "Acquire" /\ currentThread \notin critical'[diskLock]
         \/ /\ pc'[currentThread] = "Request" /\ currentThread \in critical'[diskLock]
            /\ call'[currentThread] = NoCall
         \/ /\ pc'[currentThread] = "outside" /\ currentThread \notin critical'[diskLock]
            /\ call'[currentThread] = NoCall
  <2>1. CASE AcquiresLock
    <3>1. /\ pc[currentThread] = "Acquire" /\ UNCHANGED <<sectors, active, buffer, calls>>
          /\ IF currentThread \in critical'[diskLock] THEN pc' = [pc EXCEPT ![currentThread] = "Request"]
             ELSE UNCHANGED pc
      BY <2>1 DEF AcquiresLock, Goto
    <3>2. CASE AcquireSleeps(diskLock)
      <4>1. /\ UNCHANGED <<value, critical>> /\ currentThread \notin critical[diskLock]
            /\ call' = [call EXCEPT ![currentThread] = InAcquire(diskLock)]
        BY <3>2 DEF AcquireSleeps, SleepsIn, semVars
      <4>2. QED
        BY <3>1, <4>1, <1>0 DEF DiskTypeOK
    <3>3. CASE AcquireReturns(diskLock)
      <4>1. /\ UNCHANGED value
            /\ critical' = [critical EXCEPT ![diskLock] = @ \cup {currentThread}]
            /\ call' = [call EXCEPT ![currentThread] = NoCall]
        BY <3>3 DEF AcquireReturns, Returns, semVars
      <4>2. QED
        BY <3>1, <4>1, <1>0 DEF DiskTypeOK
    <3>4. QED
      BY <2>1, <3>2, <3>3 DEF AcquiresLock, Acquire
  <2>2. CASE ReleasesLock
    <3>1. /\ pc[currentThread] = "Release" /\ UNCHANGED <<value, sectors, active, buffer, calls>>
          /\ pc' = [pc EXCEPT ![currentThread] = "outside"]
          /\ critical' = [critical EXCEPT ![diskLock] = @ \ {currentThread}]
          /\ call' = [call EXCEPT ![currentThread] = NoCall]
      BY <2>2, SMTT(30) DEF ReleasesLock, At, Goto, Release, ReleaseEffect, Returns, semVars
    <3>2. QED
      BY <3>1, <1>0 DEF DiskTypeOK
  <2>3. QED
    BY <2>1, <2>2
<1>2. DiskTypeOK'
  BY <1>1 DEF DiskTypeOK
<1>3. PlacesConsistent'
  BY <1>0, <1>1 DEF PlacesConsistent
<1>4. RequestOwned'
  <2>1. (\E t \in Thread : pc'[t] = "P") <=> (\E t \in Thread : pc[t] = "P")
    BY <1>1
  <2>2. QED
    BY <1>1, <2>1 DEF RequestOwned
<1>5. BufferCurrent'
  BY <1>1 DEF BufferCurrent
<1>6. QED
  BY <1>2, <1>3, <1>4, <1>5 DEF DiskOnlyInv

\* A request: the disk was idle and the semaphore 0, so P sleeps.
LEMMA RequestsInv ==
  ASSUME DiskInv, Requests
  PROVE  DiskOnlyInv'
<1> USE DEF DiskInv
<1> DEFINE b == buffer[currentThread]
<1>1. /\ currentThread \in Thread /\ pc[currentThread] = "Request" /\ active' = TRUE
      /\ calls' = calls /\ P(diskSemaphore) /\ DiskRequest
      /\ pc' = [pc EXCEPT ![currentThread] = IF call'[currentThread] = NoCall THEN "Release" ELSE "P"]
  BY DEF Requests, At, Goto, DiskRequest, SynchInv, SchedInv, SchedTypeOK
<1>2. ~active /\ value[diskSemaphore] = 0
  <2>1. \A t \in Thread : pc[t] # "P"
    BY <1>1, OneInside
  <2>2. value[diskSemaphore] \in Nat /\ active \in BOOLEAN
    BY SynchDiskAssumption DEF SynchInv, SynchTypeOK, DiskTypeOK
  <2>3. QED
    BY <2>1, <2>2 DEF RequestOwned
<1>3. /\ UNCHANGED critical /\ value'[diskSemaphore] = 0
      /\ \A t \in Thread : t # currentThread => call'[t] = call[t]
      /\ call'[currentThread] = InP(diskSemaphore)
      /\ pc' = [pc EXCEPT ![currentThread] = "P"]
  <2>1. /\ UNCHANGED critical /\ value'[diskSemaphore] = 0
        /\ \A t \in Thread : t # currentThread => call'[t] = call[t]
        /\ call'[currentThread] = InP(diskSemaphore)
    BY <1>1, <1>2, PEffects
  <2>2. InP(diskSemaphore) # NoCall
    BY CallsDiffer, SynchDiskAssumption
  <2>3. QED
    BY <1>1, <2>1, <2>2
<1>4. /\ b.sector \in Sector /\ b.data \in Data /\ b \in Buffer
  BY <1>1, BufferType DEF DiskTypeOK
<1>5. /\ sectors' \in [Sector -> Data] /\ buffer' \in [Thread -> Buffer]
      /\ buffer'[currentThread].data = sectors'[buffer'[currentThread].sector]
  <2>1. CASE b.op = "Write"
    <3>1. sectors' = [sectors EXCEPT ![b.sector] = b.data] /\ buffer' = buffer
      BY <1>1, <2>1 DEF DiskRequest
    <3>2. QED
      BY <3>1, <1>4 DEF DiskTypeOK
  <2>2. CASE b.op # "Write"
    <3>1. /\ buffer' = [buffer EXCEPT ![currentThread] = [@ EXCEPT !.data = sectors[b.sector]]]
          /\ sectors' = sectors
      BY <1>1, <2>2 DEF DiskRequest
    <3>2. /\ buffer'[currentThread] = [b EXCEPT !.data = sectors[b.sector]]
          /\ sectors[b.sector] \in Data
      BY <3>1, <1>1, <1>4 DEF DiskTypeOK
    <3>3. /\ [b EXCEPT !.data = sectors[b.sector]] \in Buffer
          /\ [b EXCEPT !.data = sectors[b.sector]].data = sectors[b.sector]
          /\ [b EXCEPT !.data = sectors[b.sector]].sector = b.sector
      BY <1>4, <3>2 DEF Buffer
    <3>4. buffer' \in [Thread -> Buffer]
      BY <3>1, <3>3, <1>1 DEF DiskTypeOK
    <3>5. QED
      BY <3>1, <3>2, <3>3, <3>4 DEF DiskTypeOK
  <2>3. QED
    BY <2>1, <2>2
<1>6. DiskTypeOK'
  BY <1>1, <1>3, <1>5 DEF DiskTypeOK
<1>7. PlacesConsistent'
  BY <1>1, <1>3 DEF PlacesConsistent, DiskTypeOK
<1>8. RequestOwned'
  <2>1. \E t \in Thread : pc'[t] = "P"
    BY <1>1, <1>3 DEF DiskTypeOK
  <2>2. QED
    BY <2>1, <1>1, <1>3 DEF RequestOwned
<1>9. BufferCurrent'
  <2>1. \A t \in Thread : t # currentThread => pc'[t] \notin {"P", "Release"}
    BY <1>1, <1>3, OneInside DEF DiskTypeOK
  <2>2. QED
    BY <2>1, <1>5 DEF BufferCurrent
<1>10. QED
  BY <1>6, <1>7, <1>8, <1>9 DEF DiskOnlyInv

\* P goes on: it returns with the unit its own request's interrupt left.
LEMMA AwaitsInv ==
  ASSUME DiskInv, Awaits
  PROVE  DiskOnlyInv'
<1> USE DEF DiskInv
<1>1. /\ currentThread \in Thread /\ pc[currentThread] = "P"
      /\ UNCHANGED <<sectors, active, buffer, calls>> /\ P(diskSemaphore)
      /\ pc' = [pc EXCEPT ![currentThread] = IF call'[currentThread] = NoCall THEN "Release" ELSE "P"]
  BY DEF Awaits, Goto, SynchInv, SchedInv, SchedTypeOK
<1>2. /\ UNCHANGED critical
      /\ \A t \in Thread : t # currentThread => call'[t] = call[t]
      /\ \/ /\ value[diskSemaphore] = 0 /\ value'[diskSemaphore] = 0
            /\ call'[currentThread] = InP(diskSemaphore)
            /\ pc' = [pc EXCEPT ![currentThread] = "P"]
         \/ /\ value[diskSemaphore] > 0
            /\ value'[diskSemaphore] = value[diskSemaphore] - 1
            /\ call'[currentThread] = NoCall
            /\ pc' = [pc EXCEPT ![currentThread] = "Release"]
  BY <1>1, PEffects, CallsDiffer, SynchDiskAssumption
<1>3. DiskTypeOK'
  BY <1>1 DEF DiskTypeOK
<1>4. PlacesConsistent'
  BY <1>1, <1>2 DEF PlacesConsistent, DiskTypeOK
<1>5. RequestOwned'
  <2>1. value[diskSemaphore] + (IF active THEN 1 ELSE 0) = 1 /\ value[diskSemaphore] \in Nat
    BY <1>1, SynchDiskAssumption DEF RequestOwned, SynchInv, SynchTypeOK
  <2>2. CASE pc' = [pc EXCEPT ![currentThread] = "P"]
    <3>1. pc' = pc
      BY <2>2, <1>1 DEF DiskTypeOK
    <3>2. value'[diskSemaphore] = value[diskSemaphore]
      BY <1>1, <1>2, <3>1 DEF DiskTypeOK
    <3>3. QED
      BY <3>1, <3>2, <1>1 DEF RequestOwned
  <2>3. CASE pc' = [pc EXCEPT ![currentThread] = "Release"]
    <3>1. /\ value[diskSemaphore] > 0 /\ value'[diskSemaphore] = value[diskSemaphore] - 1
      BY <1>1, <1>2, <2>3 DEF DiskTypeOK
    <3>2. ~active /\ value'[diskSemaphore] = 0
      BY <3>1, <2>1
    <3>3. \A t \in Thread : pc'[t] # "P"
      BY <2>3, <1>1, OneInside DEF DiskTypeOK
    <3>4. QED
      BY <3>2, <3>3, <1>1 DEF RequestOwned
  <2>4. QED
    BY <1>2, <2>2, <2>3
<1>6. BufferCurrent'
  BY <1>1, <1>2 DEF BufferCurrent, DiskTypeOK
<1>7. QED
  BY <1>3, <1>4, <1>5, <1>6 DEF DiskOnlyInv

\* The interrupt of the request in progress leaves a unit of the semaphore.
LEMMA HandleInterruptInv ==
  ASSUME DiskInv, HandleInterrupt
  PROVE  DiskOnlyInv'
<1> USE DEF DiskInv
<1>1. /\ active /\ active' = FALSE
      /\ UNCHANGED <<sectors, pc, buffer, calls, call, critical>>
      /\ value' = [value EXCEPT ![diskSemaphore] = @ + 1]
  BY SMTT(30) DEF HandleInterrupt, RequestDone, VInHandler, VEffect, lockVars
<1>2. value'[diskSemaphore] = value[diskSemaphore] + 1 /\ value[diskSemaphore] \in Nat
  BY <1>1, SynchDiskAssumption DEF SynchInv, SynchTypeOK
<1>3. RequestOwned'
  BY <1>1, <1>2 DEF RequestOwned
<1>4. DiskTypeOK' /\ PlacesConsistent' /\ BufferCurrent'
  BY <1>1 DEF DiskTypeOK, PlacesConsistent, BufferCurrent
<1>5. QED
  BY <1>3, <1>4 DEF DiskOnlyInv

LEMMA DiskStepInv == DiskInv /\ [Next]_vars => DiskInv'
<1> SUFFICES ASSUME DiskInv, [Next]_vars
             PROVE  DiskInv'
  OBVIOUS
<1>1. SynchInv'
  BY DiskStepIsSynchStep, SynchStepInv DEF DiskInv
<1>2. DiskOnlyInv'
  BY OutsideStepInv, LockStepInv, RequestsInv, AwaitsInv, HandleInterruptInv, Zenon DEF Next
<1>3. QED
  BY <1>1, <1>2 DEF DiskInv, DiskOnlyInv

-----------------------------------------------------------------------------
(* The theorems.                                                           *)

\* ReadSector and WriteSector make their request while the disk is idle, the
\* ASSERT(!active) of disk.cc, and return only after the interrupt for their
\* own request.
THEOREM RequestsInTurnTheorem == Spec => []RequestsInTurn
<1>1. ASSUME DiskInv
      PROVE  RequestsInTurn
  <2> SUFFICES ASSUME NEW t \in Thread, pc[t] \in {"Request", "Release"}
               PROVE  ~active /\ value[diskSemaphore] = 0
    BY DEF RequestsInTurn
  <2>1. \A u \in Thread : pc[u] # "P"
    BY <1>1, OneInside
  <2>2. value[diskSemaphore] \in Nat /\ active \in BOOLEAN
    BY <1>1, SynchDiskAssumption DEF DiskInv, SynchInv, SynchTypeOK, DiskTypeOK
  <2>3. QED
    BY <1>1, <2>1, <2>2 DEF DiskInv, RequestOwned
<1>2. QED
  BY <1>1, DiskInitInv, DiskStepInv, PTL DEF Spec

\* What ReadSector has read is still on the disk, and what WriteSector has
\* written has not been overwritten, when the thread releases the lock.
THEOREM BufferCurrentTheorem == Spec => []BufferCurrent
<1>1. DiskInv => BufferCurrent
  BY DEF DiskInv
<1>2. QED
  BY <1>1, DiskInitInv, DiskStepInv, PTL DEF Spec

\* synchdisk.cc uses synch.cc as module Synch describes, so that no wakeup of
\* its lock or semaphore is lost and its lock excludes.
THEOREM DiskImplementsSynch == Spec => ImplementsSynch
<1>1. Init => AllInit
  BY DEF Init, AllInit
<1>2. QED
  BY <1>1, DiskStepIsSynchStep, PTL DEF Spec, ImplementsSynch, SynchSpec
=============================================================================
