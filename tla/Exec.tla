-------------------------------- MODULE Exec --------------------------------
(***************************************************************************)
(* The Exec system call (userprog/exception.cc) on top of AddrSpace: the   *)
(* name and the arguments are read from the parent's memory into the one   *)
(* static buffer of AddrSpace::read, and the arguments are copied to the   *)
(* child's stack by createStackArgs.                                       *)
(*                                                                         *)
(* The constructor of AddrSpace takes locks (fd_put) between opening the   *)
(* file and copying its name; there, and only there, Exec may lose the     *)
(* processor when files are UNIX files.                                    *)
(***************************************************************************)
EXTENDS AddrSpace

CONSTANTS Name,      \* Name[f]: the name of program f, a sequence of bytes
          Strings,   \* addresses at which programs keep strings
          Argvs,     \* addresses at which programs keep argument vectors; 0: none
          MaxArgs,   \* the arguments that createStackArgs looks at (19)
          BufSize    \* the size of the buffer (1000)

ASSUME ExecAssumption == MaxArgs \in Nat \ {0} /\ BufSize \in Nat \ {0} /\ DOMAIN Name = Program

NULL == "NULL"
Main == CHOOSE p \in Process : TRUE

VARIABLES
  buf,        \* the static buffer, up to its terminator
  opened,     \* the program whose file each process has open in Exec
  newborn,    \* the child that each process is creating
  argc, argv, \* fields of each address space
  given       \* history: the strings that were passed to each process

execVars == <<buf, opened, newborn, argc, argv, given>>
allVars == <<vars, execVars>>

ExecInit ==
  /\ Init
  /\ buf = <<>>
  /\ opened = [p \in Process |-> NULL]
  /\ newborn = [p \in Process |-> NULL]
  /\ argc = [p \in Process |-> 0]
  /\ argv = [p \in Process |-> 0]
  /\ given = [p \in Process |-> <<>>]

-----------------------------------------------------------------------------
(* AddrSpace::read and AddrSpace::write, a byte at a time.  What they work *)
(* on is a record of the kernel state and the buffer.                      *)

\* x.buf is extended by the byte at va, unless the kernel is lost.
Peeked(x, p, va) ==
  LET Got(k) == IF k.lost THEN [x EXCEPT !.k = k]
                ELSE [k |-> k, buf |-> Append(x.buf, k.mainMemory[PhysAddr(k.pageTable[p], va)])]
  IN  Got(IF InSpace(x.k, p, va) THEN Present(x.k, p, va \div PageSize) ELSE Lost(x.k))

\* read(addr, bytes) with bytes > 0.
ReadBytes(k, p, addr, bytes) ==
  LET f[i \in 0..bytes] == IF i = 0 THEN [k |-> k, buf |-> <<>>]
                           ELSE Peeked(f[i - 1], p, addr + i - 1)
  IN  f[bytes]

\* read(addr, 0), up to the terminator.  A string that fills the buffer has none,
\* and is read past its end.
Terminated(x) == x.k.lost \/ (x.buf # <<>> /\ x.buf[Len(x.buf)] = 0)

ReadString(k, p, addr) ==
  LET Turn(x, va) == IF Terminated(x) THEN x ELSE Peeked(x, p, va)
      Cut(x) == IF Terminated(x) /\ ~x.k.lost
                THEN [x EXCEPT !.buf = SubSeq(@, 1, Len(@) - 1)] ELSE [x EXCEPT !.k = Lost(@)]
      f[i \in 0..BufSize] ==
        IF i = 0 THEN [k |-> k, buf |-> <<>>] ELSE Turn(f[i - 1], addr + i - 1)
  IN  Cut(f[BufSize])

\* write(addr, str, bytes) for the bytes in str.
Write(k, p, addr, str) ==
  LET Turn(c, va, b) == IF c.lost THEN c
                        ELSE IF InSpace(c, p, va) THEN Poked(c, p, va, b) ELSE Lost(c)
      f[i \in 0..Len(str)] == IF i = 0 THEN k ELSE Turn(f[i - 1], addr + i - 1, str[i])
  IN  f[Len(str)]

\* An int as it lies in memory, for the addresses of small programs.
AsBytes(n) == <<n % 256, n \div 256, 0, 0>>
AsInt(b) == b[1] + 256 * b[2]

-----------------------------------------------------------------------------
(* createStackArgs.                                                        *)

\* The pointers of the vector at addr, up to the null pointer.
ReadArgv(k, p, addr) ==
  LET Add(x, r) ==
        IF r.k.lost THEN [x EXCEPT !.k = r.k]
        ELSE IF AsInt(r.buf) = 0 THEN [x EXCEPT !.k = r.k, !.over = TRUE]
        ELSE [x EXCEPT !.k = r.k, !.ptrs = Append(@, AsInt(r.buf))]
      Turn(x, va) == IF x.over \/ x.k.lost THEN x ELSE Add(x, ReadBytes(x.k, p, va, 4))
      f[i \in 0..MaxArgs] == IF i = 0 THEN [k |-> k, ptrs |-> <<>>, over |-> FALSE]
                             ELSE Turn(f[i - 1], addr + 4 * (i - 1))
  IN  f[MaxArgs]

\* Copy the string in r.buf to the stack of c.  write gets strlen as its count,
\* which leaves the terminator to the zeros of the page; for the empty string the
\* count is 0 and the terminator is written.
Push(y, c, r, base) ==
  IF r.k.lost THEN [y EXCEPT !.k = Lost(@)]
  ELSE [k |-> Write(r.k, c, base, IF r.buf = <<>> THEN <<0>> ELSE r.buf),
        buf |-> r.buf, base |-> base, stack_argv |-> Append(y.stack_argv, base)]

\* Mutant of PushRead: no room is left for the terminator.
PushRead_NoRoom(y, c, r) == Push(y, c, r, y.base - Len(r.buf))

PushRead(y, c, r) == Push(y, c, r, y.base - (Len(r.buf) + 1))

PushStrings(y, p, c, ptrs) ==
  LET Turn(x, ptr) == IF x.k.lost THEN x ELSE PushRead(x, c, ReadString(x.k, p, ptr))
      f[i \in 0..Len(ptrs)] == IF i = 0 THEN y ELSE Turn(f[i - 1], ptrs[i])
  IN  f[Len(ptrs)]

\* The vector itself, null-terminated, at an aligned address.
PushArgv(y, c) ==
  LET n == Len(y.stack_argv)
      base == 4 * ((y.base - (4 * n + 4)) \div 4)
      f[i \in 0..n] == IF i = 0 THEN y.k
                       ELSE Write(f[i - 1], c, base + 4 * (i - 1), AsBytes(y.stack_argv[i]))
  IN  IF y.k.lost THEN y
      ELSE [y EXCEPT !.k = Write(f[n], c, base + 4 * n, AsBytes(0)), !.base = base]

\* With MaxArgs arguments the code writes behind curr_argv and stack_argv.
CreateStackArgs(k, p, c, name, argv_addr) ==
  LET top == NumPages(noff[opened[p]]) * PageSize - 16 - (Len(name) + 1)
      Strung(a) ==
        PushStrings([k |-> IF Len(a.ptrs) = MaxArgs THEN Lost(a.k) ELSE a.k, buf |-> <<>>,
                     base |-> top, stack_argv |-> <<top>>], p, c, a.ptrs)
  IN  PushArgv(Strung(ReadArgv(Write(k, c, top, Append(name, 0)), p, argv_addr)), c)

-----------------------------------------------------------------------------
(* Actions.                                                                *)

\* The program that Open finds under the name in the buffer.
Find(name) == IF \E f \in Program : Name[f] = name
              THEN CHOOSE f \in Program : Name[f] = name ELSE NoProgram

\* Create, Open or Write: another system call that reads into the buffer.
SysReads(p, addr) ==
  /\ Serving /\ pc[p] = "user"
  /\ \E x \in {ReadString(kernel, p, addr)} : kernel' = x.k /\ buf' = x.buf
  /\ UNCHANGED <<pc, loading, opened, newborn, argc, argv, given>>

\* Exec, up to the locks of fd_put; it returns -1 if there is no such file.
ExecOpens(p, c, addr) ==
  /\ Serving /\ pc[p] = "user" /\ pc[c] = "none"
  /\ \E x \in {ReadString(kernel, p, addr)} :
       /\ kernel' = x.k /\ buf' = x.buf
       /\ IF Find(x.buf) = NoProgram \/ x.k.lost
          THEN UNCHANGED <<pc, opened, newborn>>
          ELSE /\ pc' = [pc EXCEPT ![p] = "exec", ![c] = "creating"]
               /\ opened' = [opened EXCEPT ![p] = Find(x.buf)]
               /\ newborn' = [newborn EXCEPT ![p] = c]
  /\ UNCHANGED <<loading, argc, argv, given>>

\* What a process finds in its memory, by its own account.
IntSeen(p, a) == AsInt([i \in 1..4 |-> kernel.seen[p][a + i - 1]])

StringSeen(p, a) ==
  LET s == kernel.seen[p]
      end == CHOOSE e \in DOMAIN s : e >= a /\ s[e] = 0 /\ \A b \in a..(e - 1) : s[b] # 0
  IN  [i \in 1..(end - a) |-> s[a + i - 1]]

ArgsSeen(p, a) ==
  LET n == CHOOSE m \in 0..MaxArgs : /\ IntSeen(p, a + 4 * m) = 0
                                     /\ \A i \in 0..(m - 1) : IntSeen(p, a + 4 * i) # 0
  IN  [i \in 1..n |-> StringSeen(p, IntSeen(p, a + 4 * (i - 1)))]

\* The rest of Exec: the constructor copies the name, createStackArgs, Fork.
Built(p, c, argv_addr) ==
  LET k == Created(kernel, c, opened[p], Find(buf))
  IN  IF argv_addr = 0 THEN [k |-> k, buf |-> buf, base |-> 0, stack_argv |-> <<>>]
      ELSE CreateStackArgs(k, p, c, buf, argv_addr)

ExecBuilds(p, argv_addr) ==
  LET c == newborn[p] IN
  /\ Serving /\ pc[p] = "exec"
  /\ \E y \in {Built(p, c, argv_addr)} :
       /\ kernel' = y.k /\ buf' = y.buf
       /\ argc' = [argc EXCEPT ![c] = Len(y.stack_argv)]
       /\ argv' = [argv EXCEPT ![c] = y.base]
  /\ given' = [given EXCEPT ![c] = IF argv_addr = 0 THEN <<>>
                                   ELSE <<Name[opened[p]]>> \o ArgsSeen(p, argv_addr)]
  /\ pc' = [pc EXCEPT ![p] = "user", ![c] = "ready"]
  /\ opened' = [opened EXCEPT ![p] = NULL]
  /\ newborn' = [newborn EXCEPT ![p] = NULL]
  /\ UNCHANGED loading

\* createProcess: the child's first user instruction.
CreateProcess(c) ==
  /\ Serving /\ pc[c] = "ready"
  /\ pc' = [pc EXCEPT ![c] = "user"]
  /\ UNCHANGED <<kernel, loading, execVars>>

ExecNext ==
  \/ \E f \in Program : NewSpace(Main, f) /\ UNCHANGED execVars
  \/ \E p \in Process :
       \/ \E a \in Strings : SysReads(p, a) \/ \E c \in Process : ExecOpens(p, c, a)
       \/ \E a \in Argvs : ExecBuilds(p, a)
       \/ CreateProcess(p)
       \/ /\ \/ \E va \in Access : \/ UserReads(p, va) \/ PageFault(p, va)
                                   \/ \E b \in Written : UserWrites(p, va, b)
             \/ PageLoaded(p) \/ Ends(p)
          /\ UNCHANGED execVars

ExecSpec == ExecInit /\ [][ExecNext]_allVars

-----------------------------------------------------------------------------
(* Properties.                                                             *)

ArgSeen(c, i) == StringSeen(c, IntSeen(c, argv[c] + 4 * (i - 1)))

\* createStackArgs: before the child runs, its argv is aligned, has argc
\* pointers and a null pointer, and these lead to the name and the strings that
\* the parent passed: no string, pointer or terminator overlaps another.  A system
\* call of a third process may refill the static buffer while Exec waits in fd_put
\* (exception.cc 307-318).  It spoils the name only, which is then the one that
\* the constructor kept as well (addrspace.cc 303): argv[0] and the file that the
\* pages come from never disagree.
ArgumentsPassed ==
  \A c \in Process :
    pc[c] = "ready" /\ argc[c] > 0 /\ ~kernel.lost =>
      /\ argv[c] % 4 = 0
      /\ argc[c] = Len(given[c])
      /\ IntSeen(c, argv[c] + 4 * argc[c]) = 0
      /\ \A i \in 2..argc[c] : ArgSeen(c, i) = given[c][i]
      /\ \/ ArgSeen(c, 1) = given[c][1]
         \/ /\ kernel.filename[c] # kernel.noffH[c]
            /\ kernel.filename[c] = Find(ArgSeen(c, 1))

\* addrspace.cc keeps the name "so the address space can be constructed later":
\* a process loads its pages from the file whose header it was created with.
LoadsWhatWasOpened ==
  \A p \in Process : kernel.filename[p] = kernel.noffH[p]
=============================================================================
