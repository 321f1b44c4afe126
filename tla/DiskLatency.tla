---------------------------- MODULE DiskLatency ----------------------------
(***************************************************************************)
(* How long a disk request takes (machine/disk.cc): the seek, the rotation *)
(* until the sector has passed under the head, or the transfer from the    *)
(* track buffer.  The data and the interrupt are in SynchDisk.             *)
(***************************************************************************)
EXTENDS Integers

CONSTANTS SectorsPerTrack, NumTracks, RotationTime, SeekTime, MaxTicks

ASSUME GeometryAssumption ==
  /\ SectorsPerTrack \in Nat \ {0} /\ NumTracks \in Nat \ {0}
  /\ RotationTime \in Nat \ {0} /\ SeekTime \in Nat

VARIABLES totalTicks, lastSector, bufferInit,
          active,      \* a request is under way
          arrived,     \* history: when the head came to rest on its track
          request      \* the last request: sector, when asked, latency, from the buffer

latencyVars == <<totalTicks, lastSector, bufferInit, active, arrived, request>>

Sectors == 0..(SectorsPerTrack * NumTracks - 1)

Track(s) == s \div SectorsPerTrack

abs(i) == IF i < 0 THEN -i ELSE i

Seek(newSector) == abs(Track(newSector) - Track(lastSector)) * SeekTime

\* From the end of the seek to the next sector boundary.
Rotation(newSector) ==
  LET over == (totalTicks + Seek(newSector)) % RotationTime
  IN  IF over > 0 THEN RotationTime - over ELSE 0

ModuloDiff(to, from) ==
  (((to % SectorsPerTrack) - (from % SectorsPerTrack)) + SectorsPerTrack) % SectorsPerTrack

InTrackBuffer(newSector, writing) ==
  LET timeAfter == totalTicks + Seek(newSector) + Rotation(newSector)
  IN  /\ ~writing
      /\ Seek(newSector) = 0
      /\ (timeAfter - bufferInit) \div RotationTime
           > ModuloDiff(newSector, bufferInit \div RotationTime)

ComputeLatency(newSector, writing) ==
  LET timeAfter == totalTicks + Seek(newSector) + Rotation(newSector)
  IN  IF InTrackBuffer(newSector, writing) THEN RotationTime
      ELSE Seek(newSector) + Rotation(newSector)
             + ModuloDiff(newSector, timeAfter \div RotationTime) * RotationTime
             + RotationTime

\* Mutant of UpdateLast: the track buffer is not discarded after a seek.
UpdateLast_KeepsBuffer(newSector) ==
  /\ bufferInit' = bufferInit
  /\ lastSector' = newSector

UpdateLast(newSector) ==
  /\ bufferInit' = IF Seek(newSector) # 0
                   THEN totalTicks + Seek(newSector) + Rotation(newSector)
                   ELSE bufferInit
  /\ lastSector' = newSector

-----------------------------------------------------------------------------
LatencyInit ==
  /\ totalTicks = 0 /\ lastSector = 0 /\ bufferInit = 0 /\ arrived = 0
  /\ active = FALSE
  /\ request = [sector |-> 0, at |-> 0, seek |-> 0, latency |-> RotationTime, buffered |-> FALSE]

\* ReadRequest and WriteRequest.
Request(s, writing) ==
  /\ ~active /\ totalTicks < MaxTicks
  /\ active' = TRUE
  /\ request' = [sector |-> s, at |-> totalTicks, seek |-> Seek(s),
                 latency |-> ComputeLatency(s, writing),
                 buffered |-> InTrackBuffer(s, writing)]
  /\ UpdateLast(s)
  /\ arrived' = IF Seek(s) # 0 THEN totalTicks + Seek(s) ELSE arrived
  /\ UNCHANGED totalTicks

\* The interrupt comes when the latency is over.
HandleInterrupt ==
  /\ active
  /\ active' = FALSE
  /\ totalTicks' = request.at + request.latency
  /\ UNCHANGED <<lastSector, bufferInit, arrived, request>>

\* Time in which the disk is idle.
Idle ==
  /\ ~active /\ totalTicks < MaxTicks
  /\ totalTicks' = totalTicks + 1
  /\ UNCHANGED <<lastSector, bufferInit, active, arrived, request>>

LatencyNext ==
  \/ \E s \in Sectors, writing \in BOOLEAN : Request(s, writing)
  \/ HandleInterrupt \/ Idle

-----------------------------------------------------------------------------
\* From k on, for RotationTime ticks, the sector is under the head.
PassesAt(s, k) == k % RotationTime = 0 /\ (k \div RotationTime) % SectorsPerTrack = s % SectorsPerTrack

\* The interrupt of a request comes exactly when the head, after the seek, has first
\* passed completely over the sector; a read served from the track buffer is one
\* whose sector has passed under the head since it came to this track
\* (Disk::ComputeLatency 232-253, UpdateLast 261-271).
LatencyExact ==
  LET end == request.at + request.latency
      passes(from, to) == {k \in from..(to - RotationTime) : PassesAt(request.sector, k)}
  IN  IF request.buffered THEN passes(arrived, end) # {}
      ELSE passes(request.at + request.seek, end) = {end - RotationTime}
=============================================================================
