------------------------------ MODULE OpenFile ------------------------------
(***************************************************************************)
(* File headers and the reading and writing of files by the sector         *)
(* (filesys/filehdr.cc, filesys/openfile.cc, and the bit map of            *)
(* userprog/bitmap.cc as the set of its marked bits).  A disk is a         *)
(* function from sectors to contents, each a record with a kind.           *)
(***************************************************************************)
EXTENDS Integers, Sequences, FiniteSets
LOCAL INSTANCE SequencesExt

CONSTANTS SectorSize, NumSectors

ASSUME OpenFileAssumption == SectorSize \in Nat \ {0} /\ NumSectors \in Nat

Sector == 0..(NumSectors - 1)

\* A byte nobody has written: in a new buffer, or what other contents look like.
Junk == -1

Data(bytes) == [kind |-> "data", bytes |-> bytes]
Header(n, sectors) == [kind |-> "header", numBytes |-> n, dataSectors |-> sectors]

BytesOf(content) ==
  IF content.kind = "data" THEN content.bytes ELSE [i \in 1..SectorSize |-> Junk]

divRoundUp(n, s) == (n + s - 1) \div s

-----------------------------------------------------------------------------
(* BitMap and FileHeader.                                                  *)

Mark(map, which) == map \cup {which}
Clear(map, which) == map \ {which}
Test(map, which) == which \in map

\* BitMap::Find, of a map with numBits bits, one of them clear.
FirstClear(map, numBits) ==
  CHOOSE i \in 0..(numBits - 1) : ~Test(map, i) /\ \A j \in 0..(i - 1) : Test(map, j)

\* Allocate: the header of a file of size bytes, given enough clear bits.
Fits(map, size) == Cardinality(Sector \ map) >= divRoundUp(size, SectorSize)

Allocate(map, size) ==
  Header(size, SubSeq(SetToSortSeq(Sector \ map, <), 1, divRoundUp(size, SectorSize)))

\* Mutant of Deallocate: the last data sector is forgotten.
Deallocate_KeepsLast(map, hdr) ==
  map \ {hdr.dataSectors[i] : i \in 1..(Len(hdr.dataSectors) - 1)}

Deallocate(map, hdr) == map \ {hdr.dataSectors[i] : i \in DOMAIN hdr.dataSectors}

ByteToSector(hdr, offset) == hdr.dataSectors[(offset \div SectorSize) + 1]

FetchFrom(disk, sector) == disk[sector]
WriteBack(hdr, sector) == <<[sector |-> sector, content |-> hdr]>>

-----------------------------------------------------------------------------
(* OpenFile.                                                               *)

NewOpenFile(disk, sector) == [hdr |-> FetchFrom(disk, sector), seekPosition |-> 0]

\* The bytes of a request that lie in the file.
Clipped(hdr, numBytes, position) ==
  IF numBytes <= 0 \/ position >= hdr.numBytes THEN 0
  ELSE IF position + numBytes > hdr.numBytes THEN hdr.numBytes - position
  ELSE numBytes

\* The sectors first..last of the file, read into a buffer.
ReadSectors(disk, hdr, first, last) ==
  FlattenSeq([i \in 1..(last - first + 1) |->
                BytesOf(disk[ByteToSector(hdr, (first + i - 1) * SectorSize)])])

\* Mutant of ReadAt: the copy starts at the beginning of the sector.
ReadAt_FromSector(disk, hdr, numBytes, position) ==
  LET n == Clipped(hdr, numBytes, position)
      first == position \div SectorSize
      last == (position + n - 1) \div SectorSize
  IN  IF n = 0 THEN <<>> ELSE SubSeq(ReadSectors(disk, hdr, first, last), 1, n)

ReadAt(disk, hdr, numBytes, position) ==
  LET n == Clipped(hdr, numBytes, position)
      first == position \div SectorSize
      last == (position + n - 1) \div SectorSize
      skip == position - first * SectorSize
  IN  IF n = 0 THEN <<>> ELSE SubSeq(ReadSectors(disk, hdr, first, last), skip + 1, skip + n)

\* What is in the buffer of WriteAt for sector i before the new bytes are copied
\* in: the old contents if the sector was read, as far as the file goes.
Before(disk, hdr, i, read) ==
  LET old == ReadAt(disk, hdr, SectorSize, i * SectorSize)
  IN  [j \in 1..SectorSize |-> IF read /\ j <= Len(old) THEN old[j] ELSE Junk]

\* The sectors that WriteAt writes, in order, with their contents, if it has read
\* sector i of the file when read[i].
Modified(disk, hdr, from, n, position, read) ==
  LET first == position \div SectorSize
      last == (position + n - 1) \div SectorSize
  IN  [k \in 1..(last - first + 1) |->
         LET i == first + k - 1
             old == Before(disk, hdr, i, read[i])
         IN  [sector |-> ByteToSector(hdr, i * SectorSize),
              content |-> Data([j \in 1..SectorSize |->
                 LET b == i * SectorSize + j - 1 - position
                 IN  IF b \in 0..(n - 1) THEN from[b + 1] ELSE old[j]])]]

\* Mutant of WriteAt: the last sector is only read when it is not the first.
WriteAt_LastUnread(disk, hdr, from, position) ==
  LET n == Clipped(hdr, Len(from), position)
      first == position \div SectorSize
      last == (position + n - 1) \div SectorSize
      firstAligned == position = first * SectorSize
      lastAligned == position + n = (last + 1) * SectorSize
  IN  IF n = 0 THEN <<>>
      ELSE Modified(disk, hdr, from, n, position,
                    [i \in first..last |-> \/ i = first /\ ~firstAligned
                                           \/ i = last /\ ~lastAligned /\ first # last])

WriteAt(disk, hdr, from, position) ==
  LET n == Clipped(hdr, Len(from), position)
      first == position \div SectorSize
      last == (position + n - 1) \div SectorSize
      firstAligned == position = first * SectorSize
      lastAligned == position + n = (last + 1) * SectorSize
  IN  IF n = 0 THEN <<>>
      ELSE Modified(disk, hdr, from, n, position,
                    [i \in first..last |->
                       \/ i = first /\ ~firstAligned
                       \/ i = last /\ ~lastAligned /\ (first # last \/ firstAligned)])
=============================================================================
