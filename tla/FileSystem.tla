----------------------------- MODULE FileSystem -----------------------------
(***************************************************************************)
(* The file system and the file system calls of one user process           *)
(* (filesys/filesys.cc, filesys/directory.cc, the FD_List of               *)
(* userprog/addrspace.cc and the file calls of userprog/exception.cc), on  *)
(* a disk that is written one sector at a time.                            *)
(*                                                                         *)
(* An operation reads what it needs, decides, and then writes sectors in a *)
(* fixed order: what is still to be written is in todo, and one step writes *)
(* one sector.  Nachos may stop between any two of them (Crash); it starts *)
(* again (Reboot) only from a disk that no operation was changing, because *)
(* filesys.cc says of a disk left by an operation that it may be corrupt.  *)
(***************************************************************************)
EXTENDS OpenFile, Functions, TLC

CONSTANTS
  Names,        \* file names, up to their first FileNameMaxLen characters
  NoName,       \* the name in an entry that never had one
  Sizes,        \* the sizes files are created with
  Buffers,      \* what Write is given
  Counts,       \* how many bytes Read is asked for
  NumDirEntries,
  Split,        \* the entry with its name in the directory's second sector
  FDSize        \* the size of an FD_List

VARIABLES
  disk,         \* the contents of every sector
  op,           \* the operation in progress: its call, file, and for Write its bytes
  todo,         \* the sectors it has still to write, in order
  running,      \* has Nachos not stopped?
  map, list,    \* the FD_List of the process: the marked bits and the files
  files,        \* history: the bytes of every file, by its name
  answer        \* what a Read has just returned, and should have

vars == <<disk, op, todo, running, map, list, files, answer>>

NULL == [name |-> NoName]
Idle == [call |-> "none"]
Nothing == [got |-> <<>>, want |-> <<>>]

-----------------------------------------------------------------------------
(* The directory: a table in memory, two sectors on the disk.              *)

FreeMapSector == 0
DirectorySector == 1
Entries == 1..NumDirEntries

Directory == [i \in Entries |-> [inUse |-> FALSE, sector |-> 0, name |-> NoName]]

FirstHalf(table) ==
  [kind |-> "directory",
   entries |-> [i \in 1..Split |-> IF i = Split THEN [table[i] EXCEPT !.name = NoName] ELSE table[i]]]

SecondHalf(table) ==
  [kind |-> "directory",
   entries |-> [i \in Split..NumDirEntries |->
                  IF i = Split THEN [Directory[i] EXCEPT !.name = table[i].name] ELSE table[i]]]

FreeMap(bits) == [kind |-> "bitmap", bits |-> bits]

FetchDirectory(d) ==
  LET hdr == d[DirectorySector]
      half1 == d[hdr.dataSectors[1]].entries
      half2 == d[hdr.dataSectors[2]].entries
  IN  [i \in Entries |-> IF i < Split THEN half1[i]
                         ELSE IF i > Split THEN half2[i]
                         ELSE [half1[i] EXCEPT !.name = half2[i].name]]

FetchMap(d) == d[d[FreeMapSector].dataSectors[1]].bits

WriteBackDirectory(d, table) ==
  LET hdr == d[DirectorySector]
  IN  <<[sector |-> hdr.dataSectors[1], content |-> FirstHalf(table)],
        [sector |-> hdr.dataSectors[2], content |-> SecondHalf(table)]>>

WriteBackMap(d, bits) ==
  <<[sector |-> d[FreeMapSector].dataSectors[1], content |-> FreeMap(bits)]>>

Listed(table, name) == {i \in Entries : table[i].inUse /\ table[i].name = name}
FindIndex(table, name) == CHOOSE i \in Listed(table, name) : \A j \in Listed(table, name) : i <= j
Find(table, name) == IF Listed(table, name) = {} THEN -1 ELSE table[FindIndex(table, name)].sector

Unused(table) == {i \in Entries : ~table[i].inUse}

Add(table, name, newSector) ==
  [table EXCEPT ![CHOOSE i \in Unused(table) : \A j \in Unused(table) : i <= j] =
     [inUse |-> TRUE, sector |-> newSector, name |-> name]]

RemoveEntry(table, name) == [table EXCEPT ![FindIndex(table, name)].inUse = FALSE]

-----------------------------------------------------------------------------
(* Formatting the disk, and a process with no file open.                   *)

Formatted ==
  LET reserved == {FreeMapSector, DirectorySector}
      mapHdr == Allocate(reserved, SectorSize)
      taken == reserved \cup Range(mapHdr.dataSectors)
      dirHdr == Allocate(taken, 2 * SectorSize)
      blank == [s \in Sector |-> Data([i \in 1..SectorSize |-> 0])]
  IN  [blank EXCEPT ![FreeMapSector] = mapHdr,
                    ![DirectorySector] = dirHdr,
                    ![mapHdr.dataSectors[1]] = FreeMap(taken \cup Range(dirHdr.dataSectors)),
                    ![dirHdr.dataSectors[1]] = FirstHalf(Directory),
                    ![dirHdr.dataSectors[2]] = SecondHalf(Directory)]

\* The bits of the console's two descriptors are taken from the start.
NewList == /\ map = {0, 1}
           /\ list = [i \in 0..(FDSize - 1) |-> NULL]

Init ==
  /\ disk = Formatted
  /\ op = Idle /\ todo = <<>> /\ running = TRUE
  /\ NewList
  /\ files = <<>>
  /\ answer = Nothing

\* Nothing of Nachos is running but the process that makes the next call.
Ready == running /\ op = Idle

\* The bytes of the file whose header is hdr.
Contents(d, hdr) == ReadAt(d, hdr, hdr.numBytes, 0)

-----------------------------------------------------------------------------
(* FileSystem::Create and FileSystem::Remove.                              *)

\* Create finds a sector for the header, an entry and the data sectors, or fails
\* and leaves the disk alone.
Creatable(name, initialSize) ==
  LET table == FetchDirectory(disk)
      free == FetchMap(disk)
  IN  /\ Find(table, name) = -1
      /\ Sector \ free # {}
      /\ Unused(table) # {}
      /\ Fits(Mark(free, FirstClear(free, NumSectors)), initialSize)

CreateWrites(name, initialSize) ==
  LET free == FetchMap(disk)
      sector == FirstClear(free, NumSectors)
      hdr == Allocate(Mark(free, sector), initialSize)
  IN  WriteBack(hdr, sector)
        \o WriteBackDirectory(disk, Add(FetchDirectory(disk), name, sector))
        \o WriteBackMap(disk, Mark(free, sector) \cup Range(hdr.dataSectors))

Create(name, initialSize) ==
  /\ Ready
  /\ Creatable(name, initialSize)
  /\ op' = [call |-> "Create", name |-> name]
  /\ todo' = CreateWrites(name, initialSize)
  /\ answer' = Nothing
  /\ UNCHANGED <<disk, running, map, list, files>>

\* Deallocate asserts that the data sectors are marked.
RemoveWrites(name) ==
  LET table == FetchDirectory(disk)
      sector == Find(table, name)
      free == FetchMap(disk)
  IN  WriteBackMap(disk, Clear(Deallocate(free, FetchFrom(disk, sector)), sector))
        \o WriteBackDirectory(disk, RemoveEntry(table, name))

\* Files are removed from the command line, when no process has one open.
Remove(name) ==
  /\ Ready
  /\ \A i \in map : list[i] = NULL
  /\ Find(FetchDirectory(disk), name) # -1
  /\ op' = [call |-> "Remove", name |-> name]
  /\ todo' = RemoveWrites(name)
  /\ answer' = Nothing
  /\ UNCHANGED <<disk, running, map, list, files>>

-----------------------------------------------------------------------------
(* The file calls of the process.  Those that answer with an error leave   *)
(* everything as it is, and are left out.                                  *)

\* FD_List::fd_put, with a clear bit, and fd_remove, of a marked one.
FdPut(file) ==
  LET i == FirstClear(map, FDSize)
  IN  /\ map' = Mark(map, i)
      /\ list' = [list EXCEPT ![i] = file]

FdRemove(i) ==
  /\ Test(map, i)
  /\ map' = Clear(map, i)
  /\ list' = [list EXCEPT ![i] = NULL]

\* FileSystem::Open of a file that is there.
Opened(name) ==
  [name |-> name] @@ NewOpenFile(disk, Find(FetchDirectory(disk), name))

\* Open_Syscall_Func: a descriptor 0 is reported as an error, but stays taken.
Open(name) ==
  /\ Ready
  /\ Find(FetchDirectory(disk), name) >= 0
  /\ map # 0..(FDSize - 1)
  /\ FdPut(Opened(name))
  /\ answer' = Nothing
  /\ UNCHANGED <<disk, op, todo, running, files>>

\* fd_get of a descriptor that is not the console's.
Reachable == {i \in map \ {0, 1} : list[i] # NULL}

Smaller(a, b) == IF a < b THEN a ELSE b

\* What OpenFile::Read returns.
ReadFrom(file, size) == ReadAt(disk, file.hdr, size, file.seekPosition)

Read(fd, size) ==
  /\ Ready
  /\ fd \in Reachable /\ size > 0
  /\ LET file == list[fd]
         bytes == files[file.name]
     IN  /\ list' = [list EXCEPT ![fd].seekPosition = @ + Len(ReadFrom(file, size))]
         /\ answer' = [got |-> ReadFrom(file, size),
                       want |-> SubSeq(bytes, file.seekPosition + 1,
                                         Smaller(file.seekPosition + size, Len(bytes)))]
  /\ UNCHANGED <<disk, op, todo, running, map, files>>

\* A Write that starts inside the file; one that starts at its end writes nothing.
Write(fd, from) ==
  /\ Ready
  /\ fd \in Reachable
  /\ LET file == list[fd]
         writes == WriteAt(disk, file.hdr, from, file.seekPosition)
     IN  /\ writes # <<>>
         /\ op' = [call |-> "Write", name |-> file.name, fd |-> fd, from |-> from,
                   position |-> file.seekPosition]
         /\ todo' = writes
  /\ answer' = Nothing
  /\ UNCHANGED <<disk, running, map, list, files>>

\* fd_remove of a descriptor that is taken, the console's included.  For any other
\* one fd_remove returns an uninitialized pointer: when it is not NULL the delete
\* ends Nachos, which Crash covers.
Close(fd) ==
  /\ Ready
  /\ FdRemove(fd)
  /\ answer' = Nothing
  /\ UNCHANGED <<disk, op, todo, running, files>>

-----------------------------------------------------------------------------
(* The disk.                                                               *)

\* The bytes of the file after a Write, as a caller understands it.
Overwritten(bytes, from, position) ==
  [i \in 1..Len(bytes) |-> IF i - position \in DOMAIN from THEN from[i - position] ELSE bytes[i]]

\* The call returns: what it promised is recorded.
Returns(d) ==
  /\ op' = Idle
  /\ files' = CASE op.call = "Create" ->
                     (op.name :> Contents(d, d[Find(FetchDirectory(d), op.name)])) @@ files
                [] op.call = "Remove" -> Restrict(files, DOMAIN files \ {op.name})
                [] op.call = "Write" ->
                     [files EXCEPT ![op.name] = Overwritten(@, op.from, op.position)]
  /\ list' = IF op.call = "Write"
             THEN [list EXCEPT ![op.fd].seekPosition =
                     @ + Clipped(list[op.fd].hdr, Len(op.from), op.position)]
             ELSE list

\* One sector of the operation reaches the disk.
WriteSector ==
  /\ running /\ todo # <<>>
  /\ disk' = [disk EXCEPT ![Head(todo).sector] = Head(todo).content]
  /\ todo' = Tail(todo)
  /\ IF Len(todo) = 1 THEN Returns(disk') ELSE UNCHANGED <<op, files, list>>
  /\ UNCHANGED <<running, map, answer>>

Crash ==
  /\ running
  /\ running' = FALSE
  /\ todo' = <<>>
  /\ map' = {0, 1}
  /\ list' = [i \in DOMAIN list |-> NULL]
  /\ answer' = Nothing
  /\ UNCHANGED <<disk, op, files>>

Reboot ==
  /\ ~running /\ op = Idle
  /\ running' = TRUE
  /\ UNCHANGED <<disk, op, todo, map, list, files, answer>>

Next ==
  \/ \E name \in Names : \/ \E size \in Sizes : Create(name, size)
                         \/ Remove(name)
                         \/ Open(name)
  \/ \E fd \in 0..(FDSize - 1) : \/ \E size \in Counts : Read(fd, size)
                                 \/ \E from \in Buffers : Write(fd, from)
                                 \/ Close(fd)
  \/ WriteSector \/ Crash \/ Reboot

Spec == Init /\ [][Next]_vars

-----------------------------------------------------------------------------
(* Properties.                                                             *)

HeaderOf(name) == disk[Find(FetchDirectory(disk), name)]

\* Between operations, over every sequence of creations, removals and crashes,
\* the bit map on the disk marks exactly the sectors in use, and no sector is
\* used twice: the system's two files, and the header and data sectors of every
\* file in the directory (Create, Remove, Allocate and Deallocate).
FreeMapExact ==
  op = Idle =>
    LET table == FetchDirectory(disk)
        used == {i \in Entries : table[i].inUse}
        owners == {FreeMapSector, DirectorySector} \cup {table[i].sector : i \in used}
        Sectors(h) == Range(disk[h].dataSectors)
    IN  /\ FetchMap(disk) = owners \cup UNION {Sectors(h) : h \in owners}
        /\ \A i, j \in used : i # j => table[i].sector # table[j].sector
        /\ \A h, g \in owners : g # h => Sectors(h) \cap Sectors(g) = {}
        /\ \A h \in owners : /\ Sectors(h) \cap owners = {}
                             /\ IsInjective(disk[h].dataSectors)

\* In every state, between any two sector writes and where Nachos has stopped in
\* the middle of an operation, every file the operation is not about is found in
\* the directory with the bytes it had; in the file of an unfinished Write each
\* byte is the old one or the one written (FileSystem::Create, FileSystem::Remove,
\* OpenFile::WriteAt).
FilesIntact ==
  /\ \A name \in DOMAIN files :
       \/ op # Idle /\ op.name = name /\ op.call # "Write"
       \/ /\ Find(FetchDirectory(disk), name) >= 0
          /\ LET bytes == Contents(disk, HeaderOf(name))
                 new == IF op # Idle /\ op.name = name
                        THEN Overwritten(files[name], op.from, op.position)
                        ELSE files[name]
             IN  /\ Len(bytes) = Len(files[name])
                 /\ \A i \in DOMAIN bytes : bytes[i] \in {files[name][i], new[i]}
  /\ op = Idle => \A name \in Names \ DOMAIN files : Find(FetchDirectory(disk), name) = -1

\* What a Read returns is what the file holds from the descriptor's position on,
\* whichever descriptor wrote it, also after a Close that gave the descriptor to
\* another file and after a restart (Read_Syscall_Func, OpenFile::ReadAt).
ReadsBack == answer.got = answer.want
=============================================================================
