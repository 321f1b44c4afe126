--------------------------- MODULE Machine_proofs ---------------------------
(***************************************************************************)
(* Proofs about two parts of the machine, each on its own: how long a      *)
(* request of the disk takes, and the context switch.                      *)
(***************************************************************************)
EXTENDS DiskLatency, Switch, SequenceTheorems, TLAPS

-----------------------------------------------------------------------------
(* The latency of the disk.                                                *)

LatencySpec == LatencyInit /\ [][LatencyNext]_latencyVars

LatencyTypeOK ==
  /\ totalTicks \in Nat /\ lastSector \in Nat /\ bufferInit \in Nat /\ arrived \in Nat
  /\ request \in [sector : Nat, at : Nat, seek : Nat, latency : Nat, buffered : BOOLEAN]

\* The track buffer is filled from the first sector boundary after the seek.
BufferAligned == bufferInit >= arrived /\ bufferInit % RotationTime = 0

LatencyInv == LatencyTypeOK /\ BufferAligned /\ LatencyExact

LEMMA IntDivision ==
  ASSUME NEW n \in Nat \ {0}, NEW a \in Int
  PROVE  /\ a \div n \in Int /\ a % n \in 0..(n - 1)
         /\ a = n * (a \div n) + (a % n)
OBVIOUS

LEMMA Division ==
  ASSUME NEW n \in Nat \ {0}, NEW a \in Nat
  PROVE  /\ a \div n \in Nat /\ a % n \in 0..(n - 1)
         /\ a = n * (a \div n) + (a % n)
OBVIOUS

LEMMA DivisionUnique ==
  ASSUME NEW n \in Nat \ {0}, NEW q \in Int, NEW r \in 0..(n - 1)
  PROVE  (n * q + r) \div n = q /\ (n * q + r) % n = r
OBVIOUS

LEMMA SameRemainder ==
  ASSUME NEW n \in Nat \ {0}, NEW a \in Nat, NEW b \in Nat,
         a % n = b % n, a <= b, b < a + n
  PROVE  a = b
<1>1. /\ a = n * (a \div n) + (a % n) /\ a \div n \in Nat /\ a % n \in 0..(n - 1)
      /\ b = n * (b \div n) + (b % n) /\ b \div n \in Nat
  BY Division, Zenon
<1> DEFINE p == a \div n
           q == b \div n
           e == a % n
           d == q - p
<1>2. a = n * p + e /\ b = n * q + e /\ p \in Nat /\ q \in Nat /\ e \in 0..(n - 1)
  BY <1>1, Zenon
<1> HIDE DEF p, q, e
<1>3. b - a = n * d /\ d \in Int
  BY <1>2
<1> HIDE DEF d
<1>4. d = 0
  BY <1>3
<1>5. QED
  BY <1>3, <1>4

\* The distance to go round the track: less than once round, to the right place.
LEMMA ModuloDiffIs ==
  ASSUME NEW to \in Nat, NEW from \in Nat
  PROVE  /\ ModuloDiff(to, from) \in 0..(SectorsPerTrack - 1)
         /\ (from + ModuloDiff(to, from)) % SectorsPerTrack = to % SectorsPerTrack
<1> DEFINE n == SectorsPerTrack
           a == to % n
           b == from % n
           q == from \div n
<1>1. n \in Nat \ {0}
  BY GeometryAssumption
<1>2. /\ a \in 0..(n - 1) /\ b \in 0..(n - 1) /\ q \in Nat /\ from = n * q + b
      /\ ModuloDiff(to, from) = ((a - b) + n) % n
  BY <1>1, Division DEF ModuloDiff
<1> HIDE DEF n, a, b, q
<1>3. CASE a >= b
  <2>1. (n * 1 + (a - b)) % n = a - b
    <3>1. 1 \in Int /\ a - b \in 0..(n - 1)
      BY <1>1, <1>2, <1>3
    <3>2. QED
      BY <1>1, <3>1, DivisionUnique, Zenon
  <2>2. ModuloDiff(to, from) = a - b
    BY <1>1, <1>2, <2>1
  <2>3. (n * q + a) % n = a
    <3>1. q \in Int
      BY <1>2
    <3>2. QED
      BY <1>1, <1>2, <3>1, DivisionUnique, Zenon
  <2>4. from + (a - b) = n * q + a
    BY <1>1, <1>2
  <2>5. QED
    BY <1>1, <1>2, <1>3, <2>2, <2>3, <2>4 DEF a, n
<1>4. CASE a < b
  <2>1. (n * 0 + ((a - b) + n)) % n = (a - b) + n
    <3>1. 0 \in Int /\ (a - b) + n \in 0..(n - 1)
      BY <1>1, <1>2, <1>4
    <3>2. QED
      BY <1>1, <3>1, DivisionUnique, Zenon
  <2>2. ModuloDiff(to, from) = (a - b) + n
    BY <1>1, <1>2, <2>1
  <2>3. (n * (q + 1) + a) % n = a
    <3>1. q + 1 \in Int
      BY <1>2
    <3>2. QED
      BY <1>1, <1>2, <3>1, DivisionUnique, Zenon
  <2>4. from + ((a - b) + n) = n * (q + 1) + a
    BY <1>1, <1>2
  <2>5. QED
    BY <1>1, <1>2, <1>4, <2>2, <2>3, <2>4 DEF a, n
<1>5. QED
  BY <1>2, <1>3, <1>4

LEMMA SeekType ==
  ASSUME NEW s \in Nat, lastSector \in Nat
  PROVE  Seek(s) \in Nat
<1>1. Track(s) \in Nat /\ Track(lastSector) \in Nat
  BY GeometryAssumption, Division DEF Track
<1>2. abs(Track(s) - Track(lastSector)) \in Nat
  BY <1>1 DEF abs
<1>3. QED
  BY <1>2, GeometryAssumption DEF Seek

\* The rotation after a seek ends on the next sector boundary.
LEMMA RotationIs ==
  ASSUME NEW s \in Nat, lastSector \in Nat, totalTicks \in Nat
  PROVE  /\ Rotation(s) \in 0..(RotationTime - 1)
         /\ (totalTicks + Seek(s) + Rotation(s)) % RotationTime = 0
<1> DEFINE R == RotationTime
           from == totalTicks + Seek(s)
           q == from \div R
           over == from % R
<1>1. R \in Nat \ {0} /\ from \in Nat
  BY SeekType, GeometryAssumption
<1>2. over \in 0..(R - 1) /\ q \in Nat /\ from = R * q + over
  BY <1>1, Division
<1>3. Rotation(s) = IF over > 0 THEN R - over ELSE 0
  BY DEF Rotation
<1> HIDE DEF R, from, q, over
<1>4. CASE over > 0
  <2>1. from + (R - over) = R * (q + 1) + 0
    BY <1>1, <1>2
  <2>2. (R * (q + 1) + 0) % R = 0
    BY <1>1, <1>2, DivisionUnique
  <2>3. QED
    BY <1>1, <1>2, <1>3, <1>4, <2>1, <2>2 DEF R, from
<1>5. CASE over = 0
  <2>1. from + 0 = R * q + 0
    BY <1>1, <1>2, <1>5
  <2>2. (R * q + 0) % R = 0
    BY <1>1, <1>2, DivisionUnique
  <2>3. QED
    BY <1>1, <1>2, <1>3, <1>5, <2>1, <2>2 DEF R, from
<1>6. QED
  BY <1>2, <1>4, <1>5

\* The sector comes under the head so many sectors after a sector boundary.
LEMMA PassesAfter ==
  ASSUME NEW s \in Nat, NEW from \in Nat, from % RotationTime = 0
  PROVE  LET j == from \div RotationTime
             md == ModuloDiff(s, j)
         IN  /\ j \in Nat /\ md \in 0..(SectorsPerTrack - 1)
             /\ from = RotationTime * j
             /\ from + md * RotationTime = RotationTime * (j + md)
             /\ (j + md) % SectorsPerTrack = s % SectorsPerTrack
             /\ PassesAt(s, from + md * RotationTime)
<1> DEFINE R == RotationTime
           j == from \div R
           md == ModuloDiff(s, j)
<1>1. R \in Nat \ {0} /\ SectorsPerTrack \in Nat \ {0}
  BY GeometryAssumption
<1>2. j \in Nat /\ from = R * j + (from % R)
  BY <1>1, Division, Zenon
<1>3. from = R * j
  <2> HIDE DEF j
  <2>1. R * j \in Nat /\ from = R * j + 0
    BY <1>1, <1>2
  <2>2. QED
    BY <2>1
<1>4. md \in 0..(SectorsPerTrack - 1) /\ (j + md) % SectorsPerTrack = s % SectorsPerTrack
  BY <1>2, ModuloDiffIs, Zenon
<1> HIDE DEF R, j, md
<1>5. md \in Nat /\ j + md \in Int
  BY <1>1, <1>2, <1>4
<1>6. from + md * R = R * (j + md)
  BY <1>1, <1>2, <1>3, <1>5
<1>7. (R * (j + md) + 0) \div R = j + md /\ (R * (j + md) + 0) % R = 0
  <2>1. 0 \in 0..(R - 1)
    BY <1>1
  <2>2. QED
    BY <1>1, <1>5, <2>1, DivisionUnique, Zenon
<1>8. R * (j + md) + 0 = R * (j + md)
  BY <1>1, <1>5
<1>9. PassesAt(s, from + md * R)
  BY <1>4, <1>6, <1>7, <1>8 DEF PassesAt, R
<1>10. QED
  BY <1>2, <1>3, <1>4, <1>6, <1>9 DEF R, j, md

\* From where the head comes to rest on the track, that is its first pass.
LEMMA FirstPass ==
  ASSUME NEW s \in Nat, NEW rest \in Nat, NEW rot \in 0..(RotationTime - 1),
         (rest + rot) % RotationTime = 0
  PROVE  LET from == rest + rot
             last == from + ModuloDiff(s, from \div RotationTime) * RotationTime
         IN  last \in Nat /\ {k \in rest..last : PassesAt(s, k)} = {last}
<1> DEFINE R == RotationTime
           S == SectorsPerTrack
           from == rest + rot
           j == from \div R
           md == ModuloDiff(s, j)
           last == from + md * R
<1>1. R \in Nat \ {0} /\ S \in Nat \ {0} /\ from \in Nat
  BY GeometryAssumption
<1>2. /\ j \in Nat /\ md \in 0..(S - 1) /\ from = R * j /\ last = R * (j + md)
      /\ (j + md) % S = s % S /\ PassesAt(s, last)
  BY <1>1, PassesAfter
<1>3. \A k \in Nat : PassesAt(s, k) => k % R = 0 /\ (k \div R) % S = s % S
  BY DEF PassesAt
<1>4. last \in Nat /\ last >= rest
  <2> HIDE DEF j, md, R
  <2>1. md * R \in Nat
    BY <1>1, <1>2
  <2>2. QED
    BY <1>1, <2>1
<1>5. rest > from - R
  BY <1>1
<1> HIDE DEF R, S, from, j, md, last
<1>6. ASSUME NEW k \in rest..last, PassesAt(s, k)
      PROVE  k = last
  <2> DEFINE i == k \div R
  <2>1. k \in Nat
    BY <1>4
  <2>2. k % R = 0 /\ i % S = s % S
    BY <1>3, <1>6, <2>1
  <2>3. i \in Nat /\ k = R * i + (k % R)
    BY <1>1, <2>1, Division, Zenon
  <2> HIDE DEF i
  <2>4. k = R * i
    BY <1>1, <2>2, <2>3
  <2>5. i >= j
    <3>1. R * i > R * (j - 1)
      BY <1>1, <1>2, <1>4, <1>5, <2>4
    <3>2. QED
      BY <1>1, <1>2, <2>3, <3>1
  <2>6. i <= j + md
    <3>1. R * i <= R * (j + md)
      BY <1>1, <1>2, <1>4, <2>4
    <3>2. QED
      BY <1>1, <1>2, <2>3, <3>1
  <2>7. i = j + md
    <3>1. j + md \in Nat /\ j + md < i + S
      BY <1>1, <1>2, <2>3, <2>5
    <3>2. QED
      BY <1>1, <1>2, <2>2, <2>3, <2>6, <3>1, SameRemainder
  <2>8. QED
    BY <1>2, <2>4, <2>7
<1>7. {k \in rest..last : PassesAt(s, k)} = {last}
  BY <1>2, <1>4, <1>6
<1>8. QED
  BY <1>4, <1>7 DEF last, from, md, j, R

LEMMA LatencyInitInv == LatencyInit => LatencyInv
<1> SUFFICES ASSUME LatencyInit
             PROVE  LatencyInv
  OBVIOUS
<1>1. LatencyTypeOK
  BY GeometryAssumption DEF LatencyInit, LatencyTypeOK
<1>2. BufferAligned
  BY GeometryAssumption DEF LatencyInit, BufferAligned
<1>3. LatencyExact
  <2>1. request.at = 0 /\ request.latency = RotationTime /\ request.sector = 0 /\ request.seek = 0
        /\ request.buffered = FALSE
    BY DEF LatencyInit
  <2>2. 0 + RotationTime = RotationTime /\ RotationTime - RotationTime = 0 /\ 0 + 0 = 0
    BY GeometryAssumption
  <2>3. PassesAt(0, 0)
    BY GeometryAssumption DEF PassesAt
  <2>4. {k \in 0..0 : PassesAt(0, k)} = {0}
    BY <2>3
  <2>5. QED
    BY <2>1, <2>2, <2>4 DEF LatencyExact
<1>4. QED
  BY <1>1, <1>2, <1>3 DEF LatencyInv

LEMMA RequestInv ==
  ASSUME LatencyInv, NEW s \in Sectors, NEW writing \in BOOLEAN, Request(s, writing)
  PROVE  LatencyInv'
<1> DEFINE rest == totalTicks + Seek(s)
           from == rest + Rotation(s)
           R == RotationTime
<1>1. /\ request' = [sector |-> s, at |-> totalTicks, seek |-> Seek(s),
                     latency |-> ComputeLatency(s, writing),
                     buffered |-> InTrackBuffer(s, writing)]
      /\ bufferInit' = IF Seek(s) # 0 THEN from ELSE bufferInit
      /\ lastSector' = s
      /\ arrived' = IF Seek(s) # 0 THEN rest ELSE arrived
      /\ totalTicks' = totalTicks
  BY DEF Request, UpdateLast
<1>2. /\ totalTicks \in Nat /\ lastSector \in Nat /\ bufferInit \in Nat /\ arrived \in Nat
      /\ R \in Nat \ {0} /\ s \in Nat
  BY GeometryAssumption DEF LatencyInv, LatencyTypeOK, Sectors
<1>3. Seek(s) \in Nat /\ Rotation(s) \in 0..(R - 1) /\ from % R = 0
  BY <1>2, SeekType, RotationIs
<1>4. rest \in Nat /\ from \in Nat /\ from >= rest
  BY <1>2, <1>3
<1>5. BufferAligned'
  BY <1>1, <1>3, <1>4 DEF LatencyInv, BufferAligned
<1>6. ASSUME InTrackBuffer(s, writing)
      PROVE  /\ ComputeLatency(s, writing) = R
             /\ \E k \in arrived..totalTicks : PassesAt(s, k)
  <2> DEFINE j == bufferInit \div R
             md == ModuloDiff(s, j)
             k == bufferInit + md * R
  <2>1. ComputeLatency(s, writing) = R
    BY <1>6 DEF ComputeLatency
  <2>2. Seek(s) = 0 /\ (from - bufferInit) \div R > md
    BY <1>6 DEF InTrackBuffer
  <2>3. bufferInit % R = 0 /\ bufferInit >= arrived
    BY DEF LatencyInv, BufferAligned
  <2>4. md \in 0..(SectorsPerTrack - 1) /\ PassesAt(s, k)
    BY <1>2, <2>3, PassesAfter
  <2>5. md \in Nat
    BY <2>4, GeometryAssumption
  <2> DEFINE q == (from - bufferInit) \div R
             e == (from - bufferInit) % R
  <2>6. q \in Int /\ e \in Nat /\ from - bufferInit = R * q + e
    <3>1. from - bufferInit \in Int
      BY <1>2, <1>4
    <3> DEFINE d == from - bufferInit
    <3> HIDE DEF d, R, from
    <3>2. d \div R \in Int /\ d % R \in Nat /\ d = R * (d \div R) + (d % R)
      <4>1. d \div R \in Int /\ d % R \in 0..(R - 1) /\ d = R * (d \div R) + (d % R)
        BY <1>2, <3>1, IntDivision, Zenon DEF d
      <4>2. d % R \in Nat
        BY <1>2, <4>1
      <4>3. QED
        BY <4>1, <4>2
    <3>3. QED
      BY <3>2 DEF d
  <2>7. q >= md + 1
    BY <2>2, <2>5, <2>6
  <2>8. from < totalTicks + R
    BY <1>2, <1>3, <2>2
  <2> HIDE DEF q, e, md, R, from
  <2>9. md * R \in Nat /\ R * q >= md * R + R
    BY <1>2, <2>5, <2>6, <2>7
  <2>10. k \in arrived..totalTicks
    <3> DEFINE x == R * q
               y == md * R
    <3>1. x \in Int /\ y \in Nat /\ x >= y + R /\ from - bufferInit = x + e /\ k = bufferInit + y
      BY <1>2, <2>6, <2>9
    <3> HIDE DEF x, y, k
    <3>2. QED
      BY <1>2, <1>4, <2>3, <2>6, <2>8, <3>1
  <2>11. QED
    BY <2>1, <2>4, <2>10
<1>7. ASSUME ~InTrackBuffer(s, writing)
      PROVE  LET last == from + ModuloDiff(s, from \div R) * R
             IN  /\ totalTicks + ComputeLatency(s, writing) = last + R
                 /\ last \in Nat
                 /\ {k \in rest..last : PassesAt(s, k)} = {last}
  <2> DEFINE md == ModuloDiff(s, from \div R)
             last == from + md * R
  <2>1. ComputeLatency(s, writing) = Seek(s) + Rotation(s) + md * R + R
    BY <1>7 DEF ComputeLatency
  <2>2. last \in Nat /\ {k \in rest..last : PassesAt(s, k)} = {last}
    BY <1>2, <1>3, <1>4, FirstPass
  <2>3. md * R \in Nat
    <3>1. md \in 0..(SectorsPerTrack - 1)
      BY <1>2, <1>3, <1>4, PassesAfter
    <3> HIDE DEF md, R
    <3>2. QED
      BY <1>2, <3>1, GeometryAssumption
  <2>4. totalTicks + ComputeLatency(s, writing) = last + R
    <3> DEFINE y == md * R
    <3> HIDE DEF y, md, R
    <3>1. y \in Nat /\ last = from + y /\ ComputeLatency(s, writing) = Seek(s) + Rotation(s) + y + R
      BY <2>1, <2>3 DEF y
    <3>2. QED
      BY <1>2, <1>3, <3>1 DEF R
  <2>5. QED
    BY <2>2, <2>4
<1>8. ComputeLatency(s, writing) \in Nat
  <2>1. CASE InTrackBuffer(s, writing)
    BY <1>2, <1>6, <2>1
  <2>2. CASE ~InTrackBuffer(s, writing)
    <3> DEFINE md == ModuloDiff(s, from \div R)
    <3>1. ComputeLatency(s, writing) = Seek(s) + Rotation(s) + md * R + R
      BY <2>2 DEF ComputeLatency
    <3>2. md \in 0..(SectorsPerTrack - 1)
      BY <1>2, <1>3, <1>4, PassesAfter
    <3> HIDE DEF md
    <3>3. md * R \in Nat
      BY <1>2, <3>2, GeometryAssumption
    <3>4. QED
      BY <1>2, <1>3, <3>1, <3>3
  <2>3. QED
    BY <2>1, <2>2
<1>9. InTrackBuffer(s, writing) \in BOOLEAN
  BY DEF InTrackBuffer
<1>10. LatencyTypeOK'
  BY <1>1, <1>2, <1>3, <1>4, <1>8, <1>9 DEF LatencyTypeOK
<1>11. LatencyExact'
  <2>1. /\ request'.at = totalTicks /\ request'.latency = ComputeLatency(s, writing)
        /\ request'.sector = s /\ request'.seek = Seek(s)
        /\ request'.buffered = InTrackBuffer(s, writing)
    BY <1>1
  <2> DEFINE end == totalTicks + ComputeLatency(s, writing)
  <2>2. CASE InTrackBuffer(s, writing)
    <3>1. Seek(s) = 0
      BY <2>2 DEF InTrackBuffer
    <3>2. arrived' = arrived
      BY <1>1, <3>1
    <3>3. end - R = totalTicks
      BY <1>2, <1>6, <2>2
    <3>4. {k \in arrived..(end - R) : PassesAt(s, k)} # {}
      BY <1>6, <2>2, <3>3
    <3>5. QED
      BY <2>1, <2>2, <3>2, <3>4 DEF LatencyExact, PassesAt
  <2>3. CASE ~InTrackBuffer(s, writing)
    <3> DEFINE last == from + ModuloDiff(s, from \div R) * R
    <3>1. end = last + R /\ last \in Nat /\ {k \in rest..last : PassesAt(s, k)} = {last}
      BY <1>7, <2>3
    <3> HIDE DEF last
    <3>2. end - R = last
      BY <1>2, <3>1
    <3>3. {k \in rest..(end - R) : PassesAt(s, k)} = {end - R}
      BY <3>1, <3>2
    <3>4. QED
      BY <2>1, <2>3, <3>3 DEF LatencyExact, PassesAt
  <2>4. QED
    BY <2>2, <2>3
<1>12. QED
  BY <1>5, <1>10, <1>11 DEF LatencyInv

LEMMA LatencyStepInv == LatencyInv /\ [LatencyNext]_latencyVars => LatencyInv'
<1> SUFFICES ASSUME LatencyInv, [LatencyNext]_latencyVars
             PROVE  LatencyInv'
  OBVIOUS
<1>1. ASSUME totalTicks' \in Nat, UNCHANGED <<lastSector, bufferInit, arrived, request>>
      PROVE  LatencyInv'
  <2>1. LatencyTypeOK' /\ BufferAligned'
    BY <1>1 DEF LatencyInv, LatencyTypeOK, BufferAligned
  <2>2. LatencyExact'
    BY <1>1 DEF LatencyInv, LatencyExact, PassesAt
  <2>3. QED
    BY <2>1, <2>2 DEF LatencyInv
<1>2. CASE HandleInterrupt
  <2>1. request.at \in Nat /\ request.latency \in Nat
    BY DEF LatencyInv, LatencyTypeOK
  <2>2. QED
    BY <1>1, <1>2, <2>1 DEF HandleInterrupt
<1>3. CASE Idle
  <2>1. totalTicks \in Nat
    BY DEF LatencyInv, LatencyTypeOK
  <2>2. QED
    BY <1>1, <1>3, <2>1 DEF Idle
<1>4. CASE UNCHANGED latencyVars
  <2>1. totalTicks \in Nat
    BY DEF LatencyInv, LatencyTypeOK
  <2>2. QED
    BY <1>1, <1>4, <2>1 DEF latencyVars
<1>5. QED
  BY <1>2, <1>3, <1>4, RequestInv DEF LatencyNext

\* For every geometry of the disk, ComputeLatency is the time until the head has
\* first passed over the sector, and what is read from the track buffer has
\* passed under the head since it came to the track.
THEOREM LatencyExactTheorem == LatencySpec => []LatencyExact
<1>1. LatencyInv => LatencyExact
  BY DEF LatencyInv
<1>2. QED
  BY <1>1, LatencyInitInv, LatencyStepInv, PTL DEF LatencySpec

-----------------------------------------------------------------------------
(* The context switch.                                                     *)

SwitchSpec == SwitchInit /\ [][SwitchNext]_switchVars

\* What ThreadRoot is to call for the thread, in this order.
Expected(t) == <<"InterruptEnable", <<<<"func", t>>, <<"arg", t>>>>, "ThreadFinish">>

\* A thread is in InterruptEnable, called by ThreadRoot, or in its function; main
\* is in its program.  Its stack pointer there.
Place(t) == IF t # Main /\ Len(called[t]) = 1 THEN "started" ELSE "code"

CodeSP(t) == IF t = Main THEN StackSize - 4
             ELSE IF Len(called[t]) = 1 THEN StackSize - 6 ELSE StackSize - 11

\* A function on the registers.
AreRegisters(r) == r = [x \in Registers |-> r[x]]

SwitchTypeOK ==
  /\ current \in forked /\ forked \subseteq Threads /\ Main \in forked
  /\ eip \in {"code", "ThreadRoot", "started", "returned", "finished"}
  /\ AreRegisters(regs)
  /\ DOMAIN stack = Threads /\ DOMAIN machineState = Threads
  /\ DOMAIN called = Threads /\ DOMAIN own = Threads
  /\ \A t \in Threads : DOMAIN stack[t] = 0..(StackSize - 1)

CalledInTurn ==
  \A t \in Threads :
    /\ Len(called[t]) \in 0..3
    /\ called[t] = SubSeq(Expected(t), 1, Len(called[t]))
    /\ t = Main \/ t \notin forked => Len(called[t]) = 0

\* What ThreadRoot is to call next: before the function, in the thread's registers
\* and frame; in the function, in its frame.
FrameKept ==
  \A t \in Threads \ {Main} :
    /\ Len(called[t]) = 1 => /\ stack[t][StackSize - 6] = <<"arg", t>>
                             /\ own[t]["esi"] = <<"func", t>> /\ own[t]["edi"] = "ThreadFinish"
    /\ Len(called[t]) = 2 => stack[t][StackSize - 10] = "ThreadFinish"

\* The registers of a thread that is about to enter ThreadRoot.
Prepared(t, r) ==
  /\ r["ecx"] = "InterruptEnable" /\ r["esi"] = <<"func", t>>
  /\ r["edx"] = <<"arg", t>> /\ r["edi"] = "ThreadFinish"

NeverRun(t) ==
  /\ machineState[t].esp = StackSize - 5
  /\ stack[t][StackSize - 5] = "ThreadRoot"
  /\ Prepared(t, machineState[t])

Suspended(t) ==
  /\ machineState[t].esp = CodeSP(t) - 3
  /\ stack[t][CodeSP(t) - 3] = Place(t)
  /\ own[t] = [r \in Registers |-> IF r = "esp" THEN CodeSP(t) ELSE machineState[t][r]]

\* What SWITCH needs to find of a thread that does not run.
Resumable ==
  \A t \in forked \ {current} :
    \/ t # Main /\ Len(called[t]) = 0 /\ NeverRun(t)
    \/ (t = Main \/ Len(called[t]) \in {1, 2}) /\ Suspended(t)
    \/ Len(called[t]) = 3

\* The thread that runs, at each place.
Running ==
  /\ eip = "code" => current = Main \/ Len(called[current]) = 2
  /\ eip \in {"code", "started"} => regs["esp"] = CodeSP(current) /\ regs = own[current]
  /\ eip # "code" => current # Main
  /\ eip = "ThreadRoot" => /\ Len(called[current]) = 0
                           /\ regs["esp"] = StackSize - 4 /\ Prepared(current, regs)
  /\ eip = "started" => Len(called[current]) = 1
  /\ eip = "returned" => Len(called[current]) = 2 /\ regs["edi"] = "ThreadFinish"
  /\ eip = "finished" => Len(called[current]) = 3

SwitchInv == SwitchTypeOK /\ CalledInTurn /\ FrameKept /\ Resumable /\ Running

LEMMA SwitchInitInv == SwitchInit => SwitchInv
<1> SUFFICES ASSUME SwitchInit
             PROVE  SwitchInv
  OBVIOUS
<1> USE SwitchAssumption DEF SwitchInit
<1>1. SwitchTypeOK
  BY DEF SwitchTypeOK, Blank, AreRegisters
<1>2. CalledInTurn
  <2>1. \A t \in Threads : called[t] = <<>>
    OBVIOUS
  <2>2. Len(<<>>) = 0 /\ \A t : SubSeq(Expected(t), 1, 0) = <<>>
    BY EmptySeq, SubSeqEmpty
  <2> HIDE SwitchAssumption DEF SwitchInit
  <2>3. \A t \in Threads :
          /\ Len(called[t]) = 0 /\ called[t] = SubSeq(Expected(t), 1, Len(called[t]))
    BY <2>1, <2>2
  <2>4. 0 \in 0..3
    OBVIOUS
  <2>5. QED
    BY <2>3, <2>4, Zenon DEF CalledInTurn
<1>3. FrameKept
  BY DEF FrameKept
<1>4. Resumable
  BY DEF Resumable
<1>5. Running
  BY DEF Running, Blank, CodeSP, Registers
<1>6. QED
  BY <1>1, <1>2, <1>3, <1>4, <1>5 DEF SwitchInv

\* A call that is the next of the expected ones.
LEMMA CalledGrows ==
  ASSUME SwitchInv, NEW t \in Threads, NEW n \in 0..2, Len(called[t]) = n
  PROVE  /\ Len(Append(called[t], Expected(t)[n + 1])) = n + 1
         /\ Append(called[t], Expected(t)[n + 1]) = SubSeq(Expected(t), 1, n + 1)
<1>1. called[t] = SubSeq(Expected(t), 1, n)
  BY DEF SwitchInv, CalledInTurn
<1> DEFINE S == {Expected(t)[i] : i \in 1..3}
<1>2. Expected(t) \in Seq(S) /\ Len(Expected(t)) = 3
  <2>1. Len(Expected(t)) = 3 /\ Expected(t) \in [1..3 -> S]
    BY DEF Expected
  <2> HIDE DEF S
  <2>2. \A f \in [1..3 -> S] : f \in Seq(S)
    BY SeqDef
  <2>3. QED
    BY <2>1, <2>2
<1> DEFINE ex == Expected(t)
<1> HIDE DEF S, ex
<1>3. ex \in Seq(S) /\ Len(ex) = 3 /\ called[t] = SubSeq(ex, 1, n)
  BY <1>1, <1>2 DEF ex
<1>4. \A i \in 1..n : ex[i] \in S
  BY <1>3
<1>5. SubSeq(ex, 1, n) \in Seq(S) /\ ex[n + 1] \in S
  <2>1. SubSeq(ex, 1, n) \in Seq(S)
    BY <1>4, SubSeqProperties
  <2>2. n + 1 \in 1..Len(ex)
    BY <1>3
  <2>3. QED
    BY <1>3, <2>1, <2>2, ElementOfSeq
<1>6. SubSeq(ex, 1, n + 1) = SubSeq(ex, 1, n) \o <<ex[n + 1]>>
  <2>1. 1 \in 1..Len(ex) /\ n + 1 \in 1..Len(ex) /\ (n + 1) - 1 = n
    BY <1>3
  <2>2. QED
    BY <1>3, <2>1, SubSeqRecursiveSecond
<1>7. Append(SubSeq(ex, 1, n), ex[n + 1]) = SubSeq(ex, 1, n) \o <<ex[n + 1]>>
  BY <1>5, AppendIsConcat
<1>8. Len(Append(called[t], ex[n + 1])) = n + 1
  BY <1>3, <1>5, AppendProperties
<1>9. QED
  BY <1>3, <1>6, <1>7, <1>8 DEF ex

\* A step of the current thread leaves what the others need alone.
LEMMA LocalStep ==
  ASSUME SwitchInv, current' = current, forked' = forked, machineState' = machineState,
         own' = [own EXCEPT ![current] = regs'],
         eip' \in {"code", "ThreadRoot", "started", "returned", "finished"},
         AreRegisters(regs'), DOMAIN stack' = Threads, DOMAIN called' = Threads,
         DOMAIN stack'[current] = 0..(StackSize - 1),
         \A t \in Threads \ {current} : stack'[t] = stack[t] /\ called'[t] = called[t]
  PROVE  /\ SwitchTypeOK' /\ Resumable'
         /\ current \in Threads /\ own'[current] = regs'
<1>1. current \in Threads /\ DOMAIN own = Threads
  BY DEF SwitchInv, SwitchTypeOK
<1>2. own'[current] = regs' /\ DOMAIN own' = Threads
      /\ \A t \in Threads \ {current} : own'[t] = own[t]
  BY <1>1
<1>3. SwitchTypeOK'
  BY <1>1, <1>2 DEF SwitchInv, SwitchTypeOK
<1>4. Resumable'
  <2> SUFFICES ASSUME NEW t \in forked' \ {current'}
               PROVE  \/ t # Main /\ Len(called'[t]) = 0 /\ NeverRun(t)'
                      \/ (t = Main \/ Len(called'[t]) \in {1, 2}) /\ Suspended(t)'
                      \/ Len(called'[t]) = 3
    BY DEF Resumable
  <2>1. t \in Threads \ {current} /\ t \in forked \ {current}
    BY DEF SwitchInv, SwitchTypeOK
  <2>2. /\ stack'[t] = stack[t] /\ called'[t] = called[t] /\ own'[t] = own[t]
        /\ machineState'[t] = machineState[t]
    BY <1>2, <2>1
  <2>3. \/ t # Main /\ Len(called[t]) = 0 /\ NeverRun(t)
        \/ (t = Main \/ Len(called[t]) \in {1, 2}) /\ Suspended(t)
        \/ Len(called[t]) = 3
    BY <2>1 DEF SwitchInv, Resumable
  <2>4. (NeverRun(t) => NeverRun(t)') /\ (Suspended(t) => Suspended(t)')
    BY <2>2 DEF NeverRun, Suspended, Prepared, CodeSP, Place
  <2>5. QED
    BY <2>2, <2>3, <2>4
<1>5. QED
  BY <1>1, <1>2, <1>3, <1>4

\* What such a step owes the thread itself.
LEMMA FrameStep ==
  ASSUME SwitchInv, own' = [own EXCEPT ![current] = regs'],
         \A t \in Threads \ {current} : stack'[t] = stack[t] /\ called'[t] = called[t],
         current # Main /\ Len(called'[current]) = 1
           => /\ stack'[current][StackSize - 6] = <<"arg", current>>
              /\ regs'["esi"] = <<"func", current>> /\ regs'["edi"] = "ThreadFinish",
         current # Main /\ Len(called'[current]) = 2
           => stack'[current][StackSize - 10] = "ThreadFinish"
  PROVE  FrameKept'
<1>1. current \in Threads /\ DOMAIN own = Threads
  BY DEF SwitchInv, SwitchTypeOK
<1>2. own'[current] = regs' /\ \A t \in Threads \ {current} : own'[t] = own[t]
  BY <1>1
<1>3. ASSUME NEW t \in Threads \ {Main}
      PROVE  /\ Len(called'[t]) = 1
                  => /\ stack'[t][StackSize - 6] = <<"arg", t>>
                     /\ own'[t]["esi"] = <<"func", t>> /\ own'[t]["edi"] = "ThreadFinish"
             /\ Len(called'[t]) = 2 => stack'[t][StackSize - 10] = "ThreadFinish"
  <2>1. CASE t = current
    BY <1>2, <2>1
  <2>2. CASE t # current
    BY <1>2, <2>2 DEF SwitchInv, FrameKept
  <2>3. QED
    BY <2>1, <2>2
<1>4. QED
  BY <1>3 DEF FrameKept

\* The current thread's calls, where a step makes one.
LEMMA CalledKept ==
  ASSUME SwitchInv, forked' = forked, called' = called
  PROVE  CalledInTurn'
BY DEF SwitchInv, CalledInTurn

LEMMA CalledNext ==
  ASSUME SwitchInv, NEW n \in 0..2, Len(called[current]) = n, current # Main,
         forked' = forked,
         called' = [called EXCEPT ![current] = Append(@, Expected(current)[n + 1])]
  PROVE  /\ CalledInTurn' /\ Len(called'[current]) = n + 1
         /\ \A t \in Threads \ {current} : called'[t] = called[t]
         /\ DOMAIN called' = Threads
<1>1. current \in Threads /\ current \in forked /\ DOMAIN called = Threads
  BY DEF SwitchInv, SwitchTypeOK
<1>2. called'[current] = Append(called[current], Expected(current)[n + 1])
  BY <1>1
<1>3. Len(called'[current]) = n + 1 /\ called'[current] = SubSeq(Expected(current), 1, n + 1)
  BY <1>1, <1>2, CalledGrows
<1>4. DOMAIN called' = Threads /\ \A t \in Threads \ {current} : called'[t] = called[t]
  BY <1>1
<1>5. ASSUME NEW t \in Threads
      PROVE  /\ Len(called'[t]) \in 0..3
             /\ called'[t] = SubSeq(Expected(t), 1, Len(called'[t]))
             /\ t = Main \/ t \notin forked' => Len(called'[t]) = 0
  <2>1. CASE t = current
    <3>1. Len(called'[t]) \in 0..3
      BY <1>3, <2>1
    <3>2. QED
      BY <1>1, <1>3, <2>1, <3>1
  <2>2. CASE t # current
    BY <1>4, <2>2 DEF SwitchInv, CalledInTurn
  <2>3. QED
    BY <2>1, <2>2
<1>6. QED
  BY <1>3, <1>4, <1>5 DEF CalledInTurn

LEMMA ComputesInv ==
  ASSUME SwitchInv, NEW v \in Values, Computes(v), own' = [own EXCEPT ![current] = regs']
  PROVE  SwitchInv'
<1>1. /\ eip = "code"
      /\ regs' = [r \in Registers |-> IF r = "esp" THEN regs.esp ELSE v]
      /\ current' = current /\ eip' = eip /\ stack' = stack /\ machineState' = machineState
      /\ forked' = forked /\ called' = called
  BY DEF Computes
<1>2. SwitchTypeOK' /\ Resumable' /\ own'[current] = regs'
  <2>1. AreRegisters(regs')
    BY <1>1 DEF AreRegisters
  <2>2. /\ DOMAIN stack' = Threads /\ DOMAIN called' = Threads
        /\ DOMAIN stack'[current] = 0..(StackSize - 1)
    BY <1>1 DEF SwitchInv, SwitchTypeOK
  <2>3. QED
    BY <1>1, <2>1, <2>2, LocalStep
<1>3. CalledInTurn'
  BY <1>1, CalledKept
<1>4. FrameKept'
  <2>1. current \in Threads /\ (current = Main \/ Len(called[current]) = 2)
    BY <1>1 DEF SwitchInv, SwitchTypeOK, Running
  <2>2. current # Main => stack[current][StackSize - 10] = "ThreadFinish"
    BY <2>1 DEF SwitchInv, FrameKept
  <2>3. QED
    BY <1>1, <2>1, <2>2, FrameStep
<1>5. Running'
  <2>1. regs'["esp"] = regs["esp"]
    BY <1>1 DEF Registers
  <2>2. QED
    BY <1>1, <1>2, <2>1 DEF SwitchInv, Running, CodeSP
<1>6. QED
  BY <1>2, <1>3, <1>4, <1>5 DEF SwitchInv

LEMMA FuncReturnsInv ==
  ASSUME SwitchInv, FuncReturns, own' = [own EXCEPT ![current] = regs']
  PROVE  SwitchInv'
<1> DEFINE saved == [i \in 1..4 |-> stack[current][regs.esp + 4 - i]]
<1>1. /\ eip = "code" /\ current # Main /\ eip' = "returned"
      /\ regs' = [Clobbered(regs) EXCEPT !.ebx = saved[1], !.esi = saved[2], !.edi = saved[3],
                                         !.ebp = saved[4], !.esp = @ + 5]
      /\ current' = current /\ stack' = stack /\ machineState' = machineState
      /\ forked' = forked /\ called' = called
  BY DEF FuncReturns
<1>2. SwitchTypeOK' /\ Resumable'
  <2>1. AreRegisters(regs')
    <3> DEFINE c == Clobbered(regs)
    <3>1. DOMAIN c = Registers
      BY DEF Clobbered
    <3> HIDE DEF c, saved
    <3>2. regs' = [c EXCEPT !.ebx = saved[1], !.esi = saved[2], !.edi = saved[3],
                            !.ebp = saved[4], !.esp = @ + 5]
      BY <1>1 DEF c, saved
    <3>3. \A f, x, e : DOMAIN f = Registers
             => DOMAIN [f EXCEPT ![x] = e] = Registers /\ AreRegisters([f EXCEPT ![x] = e])
      BY DEF AreRegisters
    <3>4. QED
      BY <3>1, <3>2, <3>3
  <2>2. /\ DOMAIN stack' = Threads /\ DOMAIN called' = Threads
        /\ DOMAIN stack'[current] = 0..(StackSize - 1)
    BY <1>1 DEF SwitchInv, SwitchTypeOK
  <2>3. QED
    BY <1>1, <2>1, <2>2, LocalStep
<1>3. CalledInTurn'
  BY <1>1, CalledKept
<1>4. FrameKept'
  <2>1. current \in Threads /\ (current = Main \/ Len(called[current]) = 2)
    BY <1>1 DEF SwitchInv, SwitchTypeOK, Running
  <2>2. current # Main => stack[current][StackSize - 10] = "ThreadFinish"
    BY <2>1 DEF SwitchInv, FrameKept
  <2>3. QED
    BY <1>1, <2>1, <2>2, FrameStep
<1>5. Running'
  <2>1. regs["esp"] = StackSize - 11 /\ Len(called[current]) = 2
    BY <1>1 DEF SwitchInv, Running, CodeSP
  <2>2. saved[3] = stack[current][StackSize - 10]
    BY <2>1, SwitchAssumption
  <2>3. stack[current][StackSize - 10] = "ThreadFinish"
    BY <1>1, <2>1 DEF SwitchInv, SwitchTypeOK, FrameKept
  <2>4. regs'["edi"] = saved[3]
    BY <1>1 DEF Clobbered, Registers
  <2>5. QED
    BY <1>1, <2>1, <2>2, <2>3, <2>4 DEF Running
<1>6. QED
  BY <1>2, <1>3, <1>4, <1>5 DEF SwitchInv

LEMMA RootFinishesInv ==
  ASSUME SwitchInv, RootFinishes, own' = [own EXCEPT ![current] = regs']
  PROVE  SwitchInv'
<1>1. /\ eip = "returned" /\ eip' = "finished"
      /\ called' = [called EXCEPT ![current] = Append(@, regs.edi)]
      /\ current' = current /\ regs' = regs /\ stack' = stack /\ machineState' = machineState
      /\ forked' = forked
  BY DEF RootFinishes
<1>2. Len(called[current]) = 2 /\ regs["edi"] = "ThreadFinish" /\ current # Main
  BY <1>1 DEF SwitchInv, Running
<1>3. /\ CalledInTurn' /\ Len(called'[current]) = 3 /\ DOMAIN called' = Threads
      /\ \A t \in Threads \ {current} : called'[t] = called[t]
  <2>1. Expected(current)[2 + 1] = "ThreadFinish"
    BY DEF Expected
  <2>2. called' = [called EXCEPT ![current] = Append(@, Expected(current)[2 + 1])]
    BY <1>1, <1>2, <2>1
  <2>3. 2 \in 0..2 /\ 2 + 1 = 3
    OBVIOUS
  <2>4. QED
    BY <1>1, <1>2, <2>2, <2>3, CalledNext
<1>4. SwitchTypeOK' /\ Resumable'
  <2>1. AreRegisters(regs')
    BY <1>1 DEF SwitchInv, SwitchTypeOK, AreRegisters
  <2>2. DOMAIN stack' = Threads /\ DOMAIN stack'[current] = 0..(StackSize - 1)
    BY <1>1 DEF SwitchInv, SwitchTypeOK
  <2>3. QED
    BY <1>1, <1>3, <2>1, <2>2, LocalStep
<1>5. FrameKept'
  <2>1. \A t \in Threads \ {current} : stack'[t] = stack[t] /\ called'[t] = called[t]
    BY <1>1, <1>3
  <2>2. /\ current # Main /\ Len(called'[current]) = 1
             => /\ stack'[current][StackSize - 6] = <<"arg", current>>
                /\ regs'["esi"] = <<"func", current>> /\ regs'["edi"] = "ThreadFinish"
        /\ current # Main /\ Len(called'[current]) = 2
             => stack'[current][StackSize - 10] = "ThreadFinish"
    BY <1>3
  <2>3. QED
    BY <2>1, <2>2, FrameStep, Zenon
<1>6. Running'
  BY <1>1, <1>2, <1>3 DEF Running
<1>7. QED
  BY <1>3, <1>4, <1>5, <1>6 DEF SwitchInv

\* The words that a push writes, and those it leaves.
LEMMA PushedWords ==
  ASSUME NEW mem, NEW sp \in Int, NEW words, Len(words) \in Nat
  PROVE  /\ DOMAIN Pushed(mem, sp, words) = DOMAIN mem
         /\ \A i \in 1..Len(words) : sp - i \in DOMAIN mem => Pushed(mem, sp, words)[sp - i] = words[i]
         /\ \A a \in DOMAIN mem : a \in Int /\ (a >= sp \/ a < sp - Len(words))
              => Pushed(mem, sp, words)[a] = mem[a]
<1>1. \A i \in 1..Len(words) : sp - i < sp /\ sp - i >= sp - Len(words) /\ sp - (sp - i) = i
  OBVIOUS
<1>2. QED
  BY <1>1 DEF Pushed

LEMMA RootStartsInv ==
  ASSUME SwitchInv, RootStarts, own' = [own EXCEPT ![current] = regs']
  PROVE  SwitchInv'
<1> DEFINE words == <<regs.ebp, regs.edx>>
           mem == Pushed(stack[current], regs["esp"], words)
<1>1. /\ eip = "ThreadRoot" /\ eip' = "started"
      /\ stack' = [stack EXCEPT ![current] = Pushed(@, regs.esp, words)]
      /\ called' = [called EXCEPT ![current] = Append(@, regs.ecx)]
      /\ regs' = Clobbered([regs EXCEPT !.ebp = regs.esp - 1, !.esp = @ - 2])
      /\ current' = current /\ machineState' = machineState /\ forked' = forked
  BY DEF RootStarts
<1>2. /\ Len(called[current]) = 0 /\ current # Main
      /\ regs["esp"] = StackSize - 4 /\ Prepared(current, regs)
  BY <1>1 DEF SwitchInv, Running
<1>3. /\ CalledInTurn' /\ Len(called'[current]) = 1 /\ DOMAIN called' = Threads
      /\ \A t \in Threads \ {current} : called'[t] = called[t]
  <2>1. Expected(current)[0 + 1] = "InterruptEnable" /\ regs["ecx"] = "InterruptEnable"
    BY <1>2 DEF Expected, Prepared
  <2>2. called' = [called EXCEPT ![current] = Append(@, Expected(current)[0 + 1])]
    BY <1>1, <2>1
  <2>3. 0 \in 0..2 /\ 0 + 1 = 1
    OBVIOUS
  <2>4. QED
    BY <1>1, <1>2, <2>2, <2>3, CalledNext
<1>4. /\ DOMAIN stack = Threads /\ current \in Threads
      /\ DOMAIN stack[current] = 0..(StackSize - 1) /\ AreRegisters(regs)
  BY DEF SwitchInv, SwitchTypeOK
<1>5. DOMAIN mem = 0..(StackSize - 1) /\ mem[StackSize - 6] = <<"arg", current>>
  <2>1. Len(words) = 2 /\ words[2] = <<"arg", current>>
    BY <1>2 DEF Prepared
  <2> HIDE DEF words
  <2>2. regs["esp"] \in Int /\ regs["esp"] - 2 = StackSize - 6 /\ StackSize - 6 \in 0..(StackSize - 1)
    BY <1>2, SwitchAssumption
  <2>3. 2 \in 1..Len(words)
    BY <2>1
  <2>4. /\ DOMAIN mem = DOMAIN stack[current]
        /\ regs["esp"] - 2 \in DOMAIN stack[current] => mem[regs["esp"] - 2] = words[2]
    BY <2>1, <2>2, <2>3, PushedWords
  <2>5. QED
    BY <1>4, <2>1, <2>2, <2>4
<1> HIDE DEF mem
<1>6. /\ stack'[current] = mem /\ DOMAIN stack' = Threads
      /\ \A t \in Threads \ {current} : stack'[t] = stack[t]
  BY <1>1, <1>4 DEF mem
<1>7. /\ AreRegisters(regs')
      /\ regs'["esp"] = StackSize - 6
      /\ regs'["esi"] = regs["esi"] /\ regs'["edi"] = regs["edi"]
  <2>1. AreRegisters(regs')
    BY <1>1 DEF Clobbered, AreRegisters
  <2>2. regs'["esi"] = regs["esi"] /\ regs'["edi"] = regs["edi"]
    BY <1>1, <1>4 DEF Clobbered, Registers, Scratch, AreRegisters
  <2>3. regs'["esp"] = regs["esp"] - 2
    BY <1>1, <1>4 DEF Clobbered, Registers, Scratch, AreRegisters
  <2>4. QED
    BY <1>2, <2>1, <2>2, <2>3, SwitchAssumption
<1>8. SwitchTypeOK' /\ Resumable' /\ own'[current] = regs'
  BY <1>1, <1>3, <1>5, <1>6, <1>7, LocalStep
<1>9. FrameKept'
  <2>1. regs'["esi"] = <<"func", current>> /\ regs'["edi"] = "ThreadFinish"
    BY <1>2, <1>7 DEF Prepared
  <2>2. \A t \in Threads \ {current} : stack'[t] = stack[t] /\ called'[t] = called[t]
    BY <1>3, <1>6
  <2>3. /\ current # Main /\ Len(called'[current]) = 1
             => /\ stack'[current][StackSize - 6] = <<"arg", current>>
                /\ regs'["esi"] = <<"func", current>> /\ regs'["edi"] = "ThreadFinish"
        /\ current # Main /\ Len(called'[current]) = 2
             => stack'[current][StackSize - 10] = "ThreadFinish"
    BY <1>3, <1>5, <1>6, <2>1
  <2>4. QED
    BY <2>2, <2>3, FrameStep, Zenon
<1>10. Running'
  BY <1>1, <1>2, <1>3, <1>7, <1>8 DEF Running, CodeSP
<1>11. QED
  BY <1>3, <1>8, <1>9, <1>10 DEF SwitchInv

LEMMA RootCallsFuncInv ==
  ASSUME SwitchInv, RootCallsFunc, own' = [own EXCEPT ![current] = regs']
  PROVE  SwitchInv'
<1> DEFINE words == <<"ret">> \o [i \in 1..4 |-> regs[CalleeSaved[i]]]
           mem == Pushed(stack[current], regs["esp"], words)
<1>1. /\ eip = "started" /\ eip' = "code"
      /\ called' = [called EXCEPT ![current] = Append(@, <<regs.esi, stack[current][regs.esp]>>)]
      /\ stack' = [stack EXCEPT ![current] = Pushed(@, regs.esp, words)]
      /\ regs' = [regs EXCEPT !.esp = @ - 5]
      /\ current' = current /\ machineState' = machineState /\ forked' = forked
  BY DEF RootCallsFunc
<1>2. /\ Len(called[current]) = 1 /\ current # Main
      /\ regs["esp"] = StackSize - 6
      /\ stack[current][StackSize - 6] = <<"arg", current>>
      /\ regs["esi"] = <<"func", current>> /\ regs["edi"] = "ThreadFinish"
  <2>1. /\ current \in Threads \ {Main} /\ Len(called[current]) = 1
        /\ regs["esp"] = CodeSP(current) /\ regs = own[current]
    BY <1>1 DEF SwitchInv, SwitchTypeOK, Running
  <2>2. QED
    BY <2>1 DEF SwitchInv, FrameKept, CodeSP
<1>3. /\ CalledInTurn' /\ Len(called'[current]) = 2 /\ DOMAIN called' = Threads
      /\ \A t \in Threads \ {current} : called'[t] = called[t]
  <2>1. Expected(current)[1 + 1] = <<regs.esi, stack[current][regs.esp]>>
    BY <1>2 DEF Expected
  <2>2. called' = [called EXCEPT ![current] = Append(@, Expected(current)[1 + 1])]
    BY <1>1, <2>1
  <2>3. 1 \in 0..2 /\ 1 + 1 = 2
    OBVIOUS
  <2>4. QED
    BY <1>1, <1>2, <2>2, <2>3, CalledNext
<1>4. /\ DOMAIN stack = Threads /\ current \in Threads
      /\ DOMAIN stack[current] = 0..(StackSize - 1) /\ AreRegisters(regs)
  BY DEF SwitchInv, SwitchTypeOK
<1>5. DOMAIN mem = 0..(StackSize - 1) /\ mem[StackSize - 10] = "ThreadFinish"
  <2>1. Len(words) = 5 /\ words[4] = "ThreadFinish"
    <3>1. CalleeSaved[3] = "edi"
      BY DEF CalleeSaved
    <3> DEFINE s == [i \in 1..4 |-> regs[CalleeSaved[i]]]
               W == {"ret"} \cup {s[i] : i \in 1..4}
    <3>2. s \in [1..4 -> W] /\ s[3] = "ThreadFinish" /\ "ret" \in W
      BY <1>2, <3>1
    <3> HIDE DEF s, W
    <3>3. s \in Seq(W) /\ Len(s) = 4
      <4>1. s \in Seq(W)
        BY <3>2, SeqDef
      <4>2. DOMAIN s = 1..4 /\ DOMAIN s = 1..Len(s) /\ Len(s) \in Nat
        BY <3>2, <4>1, LenProperties
      <4>3. QED
        BY <4>1, <4>2
    <3> DEFINE q == <<"ret">>
    <3>4. q \in Seq(W) /\ Len(q) = 1
      BY <3>2
    <3> HIDE DEF q
    <3>5. Len(q \o s) = 5 /\ (q \o s)[4] = s[3]
      <4>1. /\ Len(q \o s) = Len(q) + Len(s)
            /\ \A i \in 1..Len(q) + Len(s) :
                 (q \o s)[i] = IF i <= Len(q) THEN q[i] ELSE s[i - Len(q)]
        BY <3>3, <3>4, ConcatProperties
      <4>2. QED
        BY <3>3, <3>4, <4>1
    <3>6. QED
      BY <3>2, <3>5 DEF s, q
  <2> HIDE DEF words
  <2>2. regs["esp"] \in Int /\ regs["esp"] - 4 = StackSize - 10 /\ StackSize - 10 \in 0..(StackSize - 1)
    BY <1>2, SwitchAssumption
  <2>3. 4 \in 1..Len(words)
    BY <2>1
  <2>4. /\ DOMAIN mem = DOMAIN stack[current]
        /\ regs["esp"] - 4 \in DOMAIN stack[current] => mem[regs["esp"] - 4] = words[4]
    BY <2>1, <2>2, <2>3, PushedWords
  <2>5. QED
    BY <1>4, <2>1, <2>2, <2>4
<1> HIDE DEF mem
<1>6. /\ stack'[current] = mem /\ DOMAIN stack' = Threads
      /\ \A t \in Threads \ {current} : stack'[t] = stack[t]
  BY <1>1, <1>4 DEF mem
<1>7. AreRegisters(regs') /\ regs'["esp"] = StackSize - 11
  <2>1. AreRegisters(regs') /\ regs'["esp"] = regs["esp"] - 5
    BY <1>1, <1>4 DEF Registers, AreRegisters
  <2>2. QED
    BY <1>2, <2>1, SwitchAssumption
<1>8. SwitchTypeOK' /\ Resumable' /\ own'[current] = regs'
  BY <1>1, <1>3, <1>5, <1>6, <1>7, LocalStep
<1>9. FrameKept'
  <2>1. \A t \in Threads \ {current} : stack'[t] = stack[t] /\ called'[t] = called[t]
    BY <1>3, <1>6
  <2>2. /\ current # Main /\ Len(called'[current]) = 1
             => /\ stack'[current][StackSize - 6] = <<"arg", current>>
                /\ regs'["esi"] = <<"func", current>> /\ regs'["edi"] = "ThreadFinish"
        /\ current # Main /\ Len(called'[current]) = 2
             => stack'[current][StackSize - 10] = "ThreadFinish"
    BY <1>3, <1>5, <1>6
  <2>3. QED
    BY <2>1, <2>2, FrameStep, Zenon
<1>10. Running'
  BY <1>1, <1>2, <1>3, <1>7, <1>8 DEF Running, CodeSP
<1>11. QED
  BY <1>3, <1>8, <1>9, <1>10 DEF SwitchInv

LEMMA StackAllocateInv ==
  ASSUME SwitchInv, NEW t \in Threads, StackAllocate(t), own' = [own EXCEPT ![current] = regs']
  PROVE  SwitchInv'
<1>1. /\ eip = "code" /\ t \notin forked
      /\ forked' = forked \cup {t}
      /\ stack' = [stack EXCEPT ![t] = StackTop(t).mem]
      /\ current' = current /\ regs' = regs /\ eip' = eip /\ called' = called
  BY DEF StackAllocate
<1>2. /\ current \in forked /\ forked \subseteq Threads /\ Main \in forked /\ t # current /\ t # Main
      /\ DOMAIN stack = Threads /\ DOMAIN machineState = Threads /\ DOMAIN own = Threads
  BY <1>1 DEF SwitchInv, SwitchTypeOK
<1>3. /\ own'[current] = regs /\ DOMAIN own' = Threads
      /\ \A u \in Threads \ {current} : own'[u] = own[u]
  BY <1>1, <1>2
<1>4. /\ DOMAIN StackTop(t).mem = 0..(StackSize - 1)
      /\ StackTop(t).mem[StackSize - 5] = "ThreadRoot" /\ StackTop(t).at = StackSize - 5
  BY SwitchAssumption DEF StackTop
<1>5. /\ stack'[t] = StackTop(t).mem /\ DOMAIN stack' = Threads
      /\ \A u \in Threads \ {t} : stack'[u] = stack[u]
  BY <1>1, <1>2
<1>6. /\ DOMAIN machineState' = Threads
      /\ \A u \in Threads \ {t} : machineState'[u] = machineState[u]
      /\ machineState'[t].esp = StackTop(t).at /\ Prepared(t, machineState'[t])
  BY <1>2 DEF StackAllocate, Prepared, Registers
<1>7. SwitchTypeOK'
  BY <1>1, <1>2, <1>3, <1>4, <1>5, <1>6 DEF SwitchInv, SwitchTypeOK
<1>8. CalledInTurn'
  BY <1>1 DEF SwitchInv, CalledInTurn
<1>9. Len(called[t]) = 0
  BY <1>1 DEF SwitchInv, CalledInTurn
<1>10. FrameKept'
  <2>1. current = Main \/ Len(called[current]) = 2
    BY <1>1 DEF SwitchInv, Running
  <2>2. ASSUME NEW u \in Threads \ {Main}, Len(called[u]) = 1
        PROVE  own'[u] = own[u] /\ stack'[u] = stack[u]
    BY <1>3, <1>5, <1>9, <2>1, <2>2
  <2>3. ASSUME NEW u \in Threads \ {Main}, Len(called[u]) = 2
        PROVE  stack'[u] = stack[u]
    BY <1>5, <1>9, <2>3
  <2>4. QED
    BY <1>1, <2>2, <2>3 DEF SwitchInv, FrameKept
<1>11. Resumable'
  <2> SUFFICES ASSUME NEW u \in forked' \ {current'}
               PROVE  \/ u # Main /\ Len(called'[u]) = 0 /\ NeverRun(u)'
                      \/ (u = Main \/ Len(called'[u]) \in {1, 2}) /\ Suspended(u)'
                      \/ Len(called'[u]) = 3
    BY DEF Resumable
  <2>1. CASE u = t
    <3>1. NeverRun(t)'
      BY <1>4, <1>5, <1>6 DEF NeverRun
    <3>2. QED
      BY <1>1, <1>2, <1>9, <2>1, <3>1
  <2>2. CASE u # t
    <3>1. u \in forked \ {current} /\ u \in Threads \ {t} /\ u \in Threads \ {current}
      BY <1>1, <1>2, <2>2
    <3>2. /\ stack'[u] = stack[u] /\ called'[u] = called[u] /\ own'[u] = own[u]
          /\ machineState'[u] = machineState[u]
      BY <1>1, <1>3, <1>5, <1>6, <3>1
    <3>3. \/ u # Main /\ Len(called[u]) = 0 /\ NeverRun(u)
          \/ (u = Main \/ Len(called[u]) \in {1, 2}) /\ Suspended(u)
          \/ Len(called[u]) = 3
      BY <3>1 DEF SwitchInv, Resumable
    <3>4. (NeverRun(u) => NeverRun(u)') /\ (Suspended(u) => Suspended(u)')
      BY <3>2 DEF NeverRun, Suspended, Prepared, CodeSP, Place
    <3>5. QED
      BY <3>2, <3>3, <3>4
  <2>3. QED
    BY <2>1, <2>2
<1>12. Running'
  BY <1>1, <1>3 DEF SwitchInv, Running, CodeSP
<1>13. QED
  BY <1>7, <1>8, <1>10, <1>11, <1>12 DEF SwitchInv

\* The words that Run pushes to call SWITCH.
LEMMA PushedCall ==
  ASSUME NEW mem, NEW sp \in Int, NEW t2, NEW from, NEW ret
  PROVE  /\ sp - 3 \in DOMAIN mem => Pushed(mem, sp, <<t2, from, ret>>)[sp - 3] = ret
         /\ \A a \in DOMAIN mem : a \in Int /\ a >= sp => Pushed(mem, sp, <<t2, from, ret>>)[a] = mem[a]
<1> DEFINE words == <<t2, from, ret>>
<1>1. Len(words) = 3 /\ words[3] = ret
  OBVIOUS
<1> HIDE DEF words
<1>2. 3 \in 1..Len(words) /\ Len(words) \in Nat
  BY <1>1
<1>3. /\ sp - 3 \in DOMAIN mem => Pushed(mem, sp, words)[sp - 3] = words[3]
      /\ \A a \in DOMAIN mem : a \in Int /\ (a >= sp \/ a < sp - Len(words))
           => Pushed(mem, sp, words)[a] = mem[a]
  BY <1>2, PushedWords
<1>4. QED
  BY <1>1, <1>3 DEF words

LEMMA SwitchesInv ==
  ASSUME SwitchInv, NEW t2 \in Threads, Switches(t2), own' = own
  PROVE  SwitchInv'
<1>0. PICK from \in Threads : from = current
  BY DEF SwitchInv, SwitchTypeOK
<1> DEFINE sp == regs.esp - 3
           out == Pushed(stack[from], regs.esp, <<t2, from, eip>>)
           in == Loaded(machineState[t2], stack[t2])
           at == machineState[t2].esp
<1>1. /\ eip \in {"code", "started", "finished"}
      /\ t2 # from /\ t2 \in forked /\ Len(called[t2]) # 3
      /\ machineState' = [machineState EXCEPT ![from] = Saved(regs, out, sp)]
      /\ stack' = [stack EXCEPT ![from] = out, ![t2] = in]
      /\ current' = t2
      /\ eip' = in[at]
      /\ regs' = [r \in Registers |->
                   IF r # "esp" THEN machineState[t2][r]
                   ELSE IF in[at] = "ThreadRoot" THEN at + 1 ELSE at + 3]
      /\ forked' = forked /\ called' = called
  BY <1>0 DEF Switches, SWITCH, Finished
<1>2. /\ from \in Threads /\ from \in forked /\ forked \subseteq Threads /\ Main \in forked
      /\ DOMAIN stack = Threads /\ DOMAIN machineState = Threads
      /\ DOMAIN stack[from] = 0..(StackSize - 1) /\ DOMAIN stack[t2] = 0..(StackSize - 1)
      /\ AreRegisters(regs)
  BY <1>0 DEF SwitchInv, SwitchTypeOK
<1>3. /\ DOMAIN in = 0..(StackSize - 1)
      /\ \A a \in 0..(StackSize - 1) : a # at + 1 => in[a] = stack[t2][a]
  BY <1>2 DEF Loaded
<1>4. DOMAIN out = 0..(StackSize - 1)
  BY <1>2 DEF Pushed
<1>5. ASSUME eip # "finished"
      PROVE  /\ out[CodeSP(from) - 3] = eip /\ eip = Place(from) /\ sp = CodeSP(from) - 3
             /\ \A a \in 0..(StackSize - 1) : a >= CodeSP(from) => out[a] = stack[from][a]
  <2>1. regs["esp"] = CodeSP(from) /\ eip = Place(from)
    BY <1>0, <1>1, <1>5 DEF SwitchInv, Running, Place
  <2>2. CodeSP(from) \in Int /\ CodeSP(from) - 3 \in 0..(StackSize - 1)
    BY SwitchAssumption DEF CodeSP
  <2>3. /\ CodeSP(from) - 3 \in DOMAIN stack[from]
             => Pushed(stack[from], CodeSP(from), <<t2, from, eip>>)[CodeSP(from) - 3] = eip
        /\ \A a \in DOMAIN stack[from] : a \in Int /\ a >= CodeSP(from)
             => Pushed(stack[from], CodeSP(from), <<t2, from, eip>>)[a] = stack[from][a]
    BY <2>2, PushedCall
  <2>4. QED
    BY <1>2, <2>1, <2>2, <2>3
<1> HIDE DEF out, in
<1>6. /\ stack'[from] = out /\ stack'[t2] = in /\ DOMAIN stack' = Threads
      /\ \A u \in Threads \ {from, t2} : stack'[u] = stack[u]
  BY <1>1, <1>2
<1>7. /\ machineState'[from] = Saved(regs, out, sp) /\ DOMAIN machineState' = Threads
      /\ \A u \in Threads \ {from} : machineState'[u] = machineState[u]
  BY <1>1, <1>2
<1>8. \/ t2 # Main /\ Len(called[t2]) = 0 /\ NeverRun(t2)
      \/ (t2 = Main \/ Len(called[t2]) \in {1, 2}) /\ Suspended(t2)
  BY <1>0, <1>1 DEF SwitchInv, Resumable
<1>9. ASSUME t2 # Main, Len(called[t2]) = 0, NeverRun(t2)
      PROVE  eip' = "ThreadRoot" /\ regs'["esp"] = StackSize - 4 /\ Prepared(t2, regs')
  <2>1. at = StackSize - 5 /\ stack[t2][StackSize - 5] = "ThreadRoot" /\ Prepared(t2, machineState[t2])
    BY <1>9 DEF NeverRun
  <2>2. in[at] = "ThreadRoot"
    BY <1>3, <2>1, SwitchAssumption
  <2>3. Prepared(t2, regs')
    BY <1>1, <2>1 DEF Prepared, Registers
  <2>4. regs'["esp"] = at + 1
    BY <1>1, <2>2 DEF Registers
  <2>5. QED
    BY <1>1, <2>1, <2>2, <2>3, <2>4, SwitchAssumption
<1>10. ASSUME Suspended(t2)
       PROVE  eip' = Place(t2) /\ regs' = own[t2] /\ regs'["esp"] = CodeSP(t2) /\ at = CodeSP(t2) - 3
  <2>1. /\ at = CodeSP(t2) - 3 /\ stack[t2][CodeSP(t2) - 3] = Place(t2)
        /\ own[t2] = [r \in Registers |-> IF r = "esp" THEN CodeSP(t2) ELSE machineState[t2][r]]
    BY <1>10 DEF Suspended
  <2>2. CodeSP(t2) \in Int /\ CodeSP(t2) - 3 \in 0..(StackSize - 1)
    BY SwitchAssumption DEF CodeSP
  <2>3. in[at] = Place(t2) /\ Place(t2) # "ThreadRoot" /\ at + 3 = CodeSP(t2)
    BY <1>3, <2>1, <2>2 DEF Place
  <2>4. regs' = [r \in Registers |-> IF r = "esp" THEN CodeSP(t2) ELSE machineState[t2][r]]
    BY <1>1, <2>3
  <2>5. QED
    BY <1>1, <2>1, <2>3, <2>4 DEF Registers
<1>11. SwitchTypeOK'
  <2>1. AreRegisters(regs')
    BY <1>1 DEF AreRegisters
  <2>2. eip' \in {"code", "started", "ThreadRoot"}
    BY <1>8, <1>9, <1>10 DEF Place
  <2>3. \A u \in Threads : DOMAIN stack'[u] = 0..(StackSize - 1)
    BY <1>3, <1>4, <1>6 DEF SwitchInv, SwitchTypeOK
  <2>4. QED
    BY <1>1, <1>6, <1>7, <2>1, <2>2, <2>3 DEF SwitchInv, SwitchTypeOK
<1>12. CalledInTurn'
  BY <1>1, CalledKept
<1>13. FrameKept'
  <2>1. ASSUME NEW u \in Threads \ {Main}, Len(called[u]) \in {1, 2},
               NEW a \in 0..(StackSize - 1), a >= CodeSP(u)
        PROVE  stack'[u][a] = stack[u][a]
    <3>1. CASE u = from
      <4>1. eip = "finished" => Len(called[from]) = 3
        BY <1>0, Zenon DEF SwitchInv, Running
      <4>2. eip # "finished"
        BY <2>1, <3>1, <4>1
      <4>3. QED
        BY <1>5, <1>6, <2>1, <3>1, <4>2
    <3>2. CASE u = t2
      <4>1. Len(called[t2]) # 0 /\ t2 # Main
        BY <2>1, <3>2
      <4>2. Suspended(t2)
        BY <1>8, <4>1
      <4>3. at = CodeSP(t2) - 3
        BY <1>10, <4>2
      <4>4. CodeSP(t2) \in Int
        BY SwitchAssumption DEF CodeSP
      <4>5. QED
        BY <1>3, <1>6, <2>1, <3>2, <4>3, <4>4
    <3>3. CASE u \notin {from, t2}
      BY <1>6, <3>3
    <3>4. QED
      BY <3>1, <3>2, <3>3
  <2>2. ASSUME NEW u \in Threads \ {Main}
        PROVE  /\ Len(called[u]) = 1 => stack'[u][StackSize - 6] = stack[u][StackSize - 6]
               /\ Len(called[u]) = 2 => stack'[u][StackSize - 10] = stack[u][StackSize - 10]
    <3>1. /\ StackSize - 6 \in 0..(StackSize - 1) /\ StackSize - 10 \in 0..(StackSize - 1)
          /\ Len(called[u]) = 1 => StackSize - 6 >= CodeSP(u)
          /\ Len(called[u]) = 2 => StackSize - 10 >= CodeSP(u)
      BY SwitchAssumption DEF CodeSP
    <3>2. QED
      BY <2>1, <3>1
  <2>3. QED
    BY <1>1, <2>2 DEF SwitchInv, FrameKept
<1>14. Resumable'
  <2> SUFFICES ASSUME NEW u \in forked \ {t2}
               PROVE  \/ u # Main /\ Len(called[u]) = 0 /\ NeverRun(u)'
                      \/ (u = Main \/ Len(called[u]) \in {1, 2}) /\ Suspended(u)'
                      \/ Len(called[u]) = 3
    BY <1>1 DEF Resumable
  <2>1. CASE u # from
    <3>1. u \in forked \ {current} /\ u \in Threads \ {from} /\ u \in Threads \ {from, t2}
      BY <1>0, <1>2, <2>1
    <3>2. /\ stack'[u] = stack[u] /\ own'[u] = own[u] /\ machineState'[u] = machineState[u]
          /\ called'[u] = called[u]
      BY <1>1, <1>6, <1>7, <3>1
    <3>3. \/ u # Main /\ Len(called[u]) = 0 /\ NeverRun(u)
          \/ (u = Main \/ Len(called[u]) \in {1, 2}) /\ Suspended(u)
          \/ Len(called[u]) = 3
      BY <3>1 DEF SwitchInv, Resumable
    <3>4. (NeverRun(u) => NeverRun(u)') /\ (Suspended(u) => Suspended(u)')
      BY <3>2 DEF NeverRun, Suspended, Prepared, CodeSP, Place
    <3>5. QED
      BY <3>3, <3>4
  <2>2. CASE u = from /\ eip = "finished"
    BY <1>0, <2>2 DEF SwitchInv, Running
  <2>3. CASE u = from /\ eip # "finished"
    <3>1. (from = Main \/ Len(called[from]) \in {1, 2}) /\ regs = own[from]
      BY <1>0, <1>1, <2>3 DEF SwitchInv, Running
    <3>2. /\ machineState'[from].esp = sp
          /\ \A r \in Registers \ {"esp"} : machineState'[from][r] = regs[r]
      BY <1>7 DEF Saved, Registers
    <3>3. regs = [r \in Registers |-> IF r = "esp" THEN CodeSP(from) ELSE machineState'[from][r]]
      <4>1. regs["esp"] = CodeSP(from)
        BY <1>0, <1>1, <2>3 DEF SwitchInv, Running
      <4>2. \A r \in Registers : regs[r] = IF r = "esp" THEN CodeSP(from) ELSE machineState'[from][r]
        BY <3>2, <4>1
      <4>3. QED
        BY <1>2, <4>2 DEF AreRegisters
    <3>4. out[CodeSP(from) - 3] = Place(from) /\ sp = CodeSP(from) - 3
      BY <1>5, <2>3
    <3>5. Suspended(from)'
      <4>1. own'[from] = [r \in Registers |-> IF r = "esp" THEN CodeSP(from) ELSE machineState'[from][r]]
        BY <3>1, <3>3
      <4>2. machineState'[from].esp = CodeSP(from) - 3 /\ stack'[from][CodeSP(from) - 3] = Place(from)
        BY <1>6, <3>2, <3>4
      <4>3. QED
        BY <1>1, <4>1, <4>2 DEF Suspended, CodeSP, Place
    <3>6. QED
      BY <2>3, <3>1, <3>5
  <2>4. QED
    BY <1>1, <2>1, <2>2, <2>3
<1>15. Running'
  <2>1. CASE t2 # Main /\ Len(called[t2]) = 0 /\ NeverRun(t2)
    BY <1>1, <1>9, <2>1 DEF Running
  <2>2. CASE (t2 = Main \/ Len(called[t2]) \in {1, 2}) /\ Suspended(t2)
    BY <1>1, <1>10, <2>2 DEF Running, CodeSP, Place
  <2>3. QED
    BY <1>8, <2>1, <2>2
<1>16. QED
  BY <1>11, <1>12, <1>13, <1>14, <1>15 DEF SwitchInv

LEMMA SwitchStepInv == SwitchInv /\ [SwitchNext]_switchVars => SwitchInv'
<1> SUFFICES ASSUME SwitchInv, [SwitchNext]_switchVars
             PROVE  SwitchInv'
  OBVIOUS
<1>1. ASSUME SwitchNext
      PROVE  SwitchInv'
  <2>1. own' = IF current' = current THEN [own EXCEPT ![current] = regs'] ELSE own
    BY <1>1 DEF SwitchNext
  <2>2. ASSUME NEW t \in Threads, Switches(t)
        PROVE  SwitchInv'
    <3>1. current' # current
      BY <2>2 DEF Switches, SWITCH
    <3>2. QED
      BY <2>1, <2>2, <3>1, SwitchesInv
  <2>3. ASSUME NEW t \in Threads, StackAllocate(t)
        PROVE  SwitchInv'
    <3>1. current' = current
      BY <2>3 DEF StackAllocate
    <3>2. QED
      BY <2>1, <2>3, <3>1, StackAllocateInv
  <2>4. CASE RootStarts
    BY <2>1, <2>4, RootStartsInv DEF RootStarts
  <2>5. CASE RootCallsFunc
    BY <2>1, <2>5, RootCallsFuncInv DEF RootCallsFunc
  <2>6. CASE FuncReturns
    BY <2>1, <2>6, FuncReturnsInv DEF FuncReturns
  <2>7. CASE RootFinishes
    BY <2>1, <2>7, RootFinishesInv DEF RootFinishes
  <2>8. ASSUME NEW v \in Values, Computes(v)
        PROVE  SwitchInv'
    <3>1. current' = current
      BY <2>8 DEF Computes
    <3>2. QED
      BY <2>1, <2>8, <3>1, ComputesInv
  <2>9. QED
    BY <1>1, <2>2, <2>3, <2>4, <2>5, <2>6, <2>7, <2>8 DEF SwitchNext, SwitchStep
<1>2. ASSUME UNCHANGED switchVars
      PROVE  SwitchInv'
  <2> USE <1>2 DEF switchVars, SwitchInv
  <2>1. SwitchTypeOK'
    BY DEF SwitchTypeOK, AreRegisters
  <2>2. CalledInTurn' /\ FrameKept'
    BY DEF CalledInTurn, FrameKept
  <2>3. Resumable'
    BY DEF Resumable, NeverRun, Suspended, Prepared, CodeSP, Place
  <2>4. Running'
    BY DEF Running, Prepared, CodeSP
  <2>5. QED
    BY <2>1, <2>2, <2>3, <2>4
<1>3. QED
  BY <1>1, <1>2

\* Whatever the threads compute and however often SWITCH changes between them, a
\* thread comes back to its own registers, and ThreadRoot makes for each thread
\* the calls that StackAllocate prepared.
THEOREM ThreadsUndisturbedTheorem == SwitchSpec => []ThreadsUndisturbed
<1>1. ASSUME SwitchInv
      PROVE  ThreadsUndisturbed
  <2>1. eip \in {"code", "started"} => regs = own[current]
    BY <1>1 DEF SwitchInv, Running
  <2>2. eip # Junk
    BY <1>1, SwitchAssumption DEF SwitchInv, SwitchTypeOK
  <2>3. \A t \in Threads : called[t] = SubSeq(Expected(t), 1, Len(called[t]))
    BY <1>1 DEF SwitchInv, CalledInTurn
  <2>4. QED
    BY <2>1, <2>2, <2>3 DEF ThreadsUndisturbed, Expected
<1>2. QED
  BY <1>1, SwitchInitInv, SwitchStepInv, PTL DEF SwitchSpec
=============================================================================
