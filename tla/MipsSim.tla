------------------------------ MODULE MipsSim ------------------------------
(***************************************************************************)
(* The MIPS processor that runs user programs (machine/mipssim.cc,         *)
(* machine.cc), with its memory (translate.cc), the traps into the kernel  *)
(* and the context switches between programs.  One action is one           *)
(* instruction with the trap it causes, one interrupt, or one switch.      *)
(*                                                                         *)
(* The text of the program is kept apart from its data: the word at PC is  *)
(* text[PC], while its page is translated like any other.                  *)
(***************************************************************************)
EXTENDS MipsDecode, Translate, FiniteSets

CONSTANTS GPRegs,          \* the general registers that programs use
          Pages,           \* the pages of the address space, 0..n-1
          Image,           \* the bytes that load_page puts in each page
          Texts,           \* the programs: functions from addresses to ints
          RegisterValues,  \* the general registers a program may have so far
          SysRet           \* what system calls return

\* machine.h
StackReg == 29
R31 == 31
HiReg == 32
LoReg == 33
PCReg == 34
NextPCReg == 35
PrevPCReg == 36
LoadReg == 37
LoadValueReg == 38
BadVAddrReg == 39
AllRegs == GPRegs \cup 32..39

ASSUME MipsAssumption == {0, 2, R31} \subseteq GPRegs /\ GPRegs \subseteq 0..31

VARIABLES
  registers,      \* Machine::registers
  userRegisters,  \* Thread::userRegisters of the program's thread
  running,        \* the program has the processor
  finished,       \* its thread has finished
  pageTable,      \* its page table
  mainMemory,     \* Machine::mainMemory, by physical address
  text            \* its instructions

mipsVars == <<registers, userRegisters, running, finished, pageTable, mainMemory, text>>

\* AddrSpace::InitRegisters
InitRegisters ==
  [r \in AllRegs |-> CASE r = NextPCReg -> 4
                       [] r = StackReg  -> Wrap(Cardinality(Pages) * PageSize - 16)
                       [] OTHER         -> 0]

\* A program of texts has come to its first modelled instruction with any of
\* values in its general registers; no page is in memory yet.
MipsInit(texts, values) ==
  /\ \E g \in values :
       registers = [r \in AllRegs |-> IF r \in GPRegs THEN g[r] ELSE InitRegisters[r]]
  /\ userRegisters = registers
  /\ running = TRUE
  /\ finished = FALSE
  /\ pageTable = [p \in Pages |-> [virtualPage |-> p, physicalPage |-> NoFrame, valid |-> FALSE,
                                   readOnly |-> FALSE, use |-> FALSE, dirty |-> FALSE]]
  /\ mainMemory = [a \in 0..(NumPhysPages * PageSize - 1) |-> 0]
  /\ text \in texts

-----------------------------------------------------------------------------
(* The state of the machine in the middle of an instruction: registers,    *)
(* page table and memory so far, the value read, the delayed load and the  *)
(* program counter to come, and the exception raised.                      *)
Fetched ==
  [regs |-> registers, table |-> pageTable, mem |-> mainMemory,
   pcAfter |-> Wrap(registers[NextPCReg] + 4), load |-> <<0, 0>>,
   value |-> 0, exc |-> "NoException", bad |-> 0]

Set(m, r, v) == [m EXCEPT !.regs[r] = v]
Raise(m, which, addr) == [m EXCEPT !.exc = which, !.bad = addr]
IndexToAddr(x) == ShiftLeft(x, 2)
Link(m, r) == Set(m, r, Wrap(m.regs[NextPCReg] + 4))
BranchIf(m, i, cond) ==
  IF cond THEN [m EXCEPT !.pcAfter = Wrap(m.regs[NextPCReg] + IndexToAddr(i.extra))] ELSE m

ReadMem(m, addr, size) ==
  LET exc == Lookup(m.table, addr, size, FALSE) IN
  IF exc # "NoException" THEN Raise(m, exc, addr)
  ELSE [m EXCEPT !.table = Touched(@, addr, FALSE),
                 !.value = Bytes(m.mem, PhysAddr(m.table, addr), size)]

Failed(m) == m.exc # "NoException"

WriteMem(m, addr, size, value) ==
  LET exc == Lookup(m.table, addr, size, TRUE) IN
  IF exc # "NoException" THEN Raise(m, exc, addr)
  ELSE [m EXCEPT !.table = Touched(@, addr, TRUE),
                 !.mem = StoreBytes(@, PhysAddr(m.table, addr), size, value)]

\* Mutant of MultStep: the carry out of the low word is lost.
MultStep_NoCarry(s, bit) ==
  [lo  |-> Wrap(s.lo + bit * s.bLo),
   hi  |-> Wrap(s.hi + bit * s.bHi),
   bHi |-> Wrap(2 * s.bHi + (IF Negative(s.bLo) THEN 1 ELSE 0)),
   bLo |-> ShiftLeft(s.bLo, 1)]

\* One turn of Mult's loop: a bit of a adds the shifted b into hi:lo.
MultStep(s, bit) ==
  LET lo == Wrap(s.lo + bit * s.bLo)
  IN [lo  |-> lo,
      hi  |-> Wrap(s.hi + bit * ((IF lo < s.bLo THEN 1 ELSE 0) + s.bHi)),
      bHi |-> Wrap(2 * s.bHi + (IF Negative(s.bLo) THEN 1 ELSE 0)),
      bLo |-> ShiftLeft(s.bLo, 1)]

Mult(a, b, signedArith) ==
  LET Magnitude(w) == IF signedArith /\ Negative(w) THEN Wrap(-w) ELSE w
      sum[k \in 0..WordBits] ==
        IF k = 0 THEN [lo |-> 0, hi |-> 0, bLo |-> Magnitude(b), bHi |-> 0]
        ELSE MultStep(sum[k - 1], ShiftRightLogical(Magnitude(a), k - 1) % 2)
      r  == sum[WordBits]
      lo == Wrap(Complement(r.lo) + 1)
  IN IF a = 0 \/ b = 0 THEN [hi |-> 0, lo |-> 0]
     ELSE IF signedArith /\ Negative(a) # Negative(b)
          THEN [lo |-> lo, hi |-> Wrap(Complement(r.hi) + (IF lo = 0 THEN 1 ELSE 0))]
          ELSE [hi |-> r.hi, lo |-> r.lo]

-----------------------------------------------------------------------------
(* The cases of OneInstruction's switch, in its order.  Each takes the     *)
(* machine m after the fetch and the instruction i, gives the machine      *)
(* after the instruction, and is applied to its own operations only.       *)
AddAnd(m, i) ==
  LET rs == m.regs[i.rs]
      rt == m.regs[i.rt]
      sum == Wrap(rs + (IF i.op = "ADD" THEN rt ELSE i.extra))
  IN CASE i.op = "ADD" ->
            IF Negative(rs) = Negative(rt) /\ Negative(rs) # Negative(sum)
            THEN Raise(m, "OverflowException", 0) ELSE Set(m, i.rd, sum)
       [] i.op = "ADDI" ->
            IF Negative(rs) = Negative(i.extra) /\ Negative(i.extra) # Negative(sum)
            THEN Raise(m, "OverflowException", 0) ELSE Set(m, i.rt, sum)
       [] i.op = "ADDIU" -> Set(m, i.rt, sum)
       [] i.op = "ADDU"  -> Set(m, i.rd, Wrap(rs + rt))
       [] i.op = "AND"   -> Set(m, i.rd, rs & rt)
       [] i.op = "ANDI"  -> Set(m, i.rt, rs & (i.extra % 2^(2 * ByteBits)))

\* BGEZAL and BLTZAL write R31 before they test rs.
Branch(m, i) ==
  LET r  == IF i.op \in {"BGEZAL", "BLTZAL"} THEN Link(m, R31) ELSE m
      rs == r.regs[i.rs]
  IN BranchIf(r, i,
       CASE i.op = "BEQ"               -> rs = r.regs[i.rt]
         [] i.op = "BNE"               -> rs # r.regs[i.rt]
         [] i.op \in {"BGEZ", "BGEZAL"} -> ~Negative(rs)
         [] i.op \in {"BLTZ", "BLTZAL"} -> Negative(rs)
         [] i.op = "BGTZ"              -> Signed(rs) > 0
         [] i.op = "BLEZ"              -> Signed(rs) <= 0)

\* The quotient of the least int and -1 traps on the host.
Divide(m, i) ==
  LET Num(w) == IF i.op = "DIV" THEN Signed(w) ELSE w
      rs == Num(m.regs[i.rs])
      rt == Num(m.regs[i.rt])
      HiLo(hi, lo) == [m EXCEPT !.regs[HiReg] = Wrap(hi), !.regs[LoReg] = Wrap(lo)]
  IN IF rt = 0 THEN HiLo(0, 0)
     ELSE IF rt = -1 /\ rs = -(2^(WordBits - 1)) THEN Raise(m, "SIGFPE", 0)
     ELSE HiLo(Remainder(rs, rt), Quotient(rs, rt))

\* JALR writes rd before it reads rs.
Jump(m, i) ==
  LET r == CASE i.op = "JAL"  -> Link(m, R31)
             [] i.op = "JALR" -> Link(m, i.rd)
             [] OTHER         -> m
      region == 2^(WordBits - WordBits \div 8)
  IN [r EXCEPT !.pcAfter =
        IF i.op \in {"J", "JAL"} THEN (@ - (@ % region)) | IndexToAddr(i.extra)
        ELSE r.regs[i.rs]]

LoadPart(m, i) ==
  LET tmp  == Wrap(m.regs[i.rs] + i.extra)
      size == IF i.op \in {"LB", "LBU"} THEN 1 ELSE 2
      Use(r) ==
        IF Failed(r) THEN r
        ELSE [r EXCEPT !.load = <<i.rt, IF i.op \in {"LB", "LH"}
                                        THEN SignExtend(r.value, size * ByteBits)
                                        ELSE r.value>>]
  IN Use(ReadMem(m, tmp, size))

LoadUpper(m, i) == Set(m, i.rt, ShiftLeft(i.extra, 2 * ByteBits))

LoadWord(m, i) ==
  LET Use(r) == IF Failed(r) THEN r ELSE [r EXCEPT !.load = <<i.rt, r.value>>]
  IN Use(ReadMem(m, Wrap(m.regs[i.rs] + i.extra), 4))

\* The assertion leaves only the case of an aligned word.
LoadUnaligned(m, i) ==
  LET tmp == Wrap(m.regs[i.rs] + i.extra)
      old == IF m.regs[LoadReg] = i.rt THEN m.regs[LoadValueReg] ELSE m.regs[i.rt]
      byte == 2^ByteBits
      Use(r) ==
        IF Failed(r) THEN r
        ELSE [r EXCEPT !.load =
                <<i.rt, IF i.op = "LWL" THEN r.value
                        ELSE old - (old % byte) + ShiftRightLogical(r.value, 3 * ByteBits)>>]
  IN IF tmp % 4 # 0 THEN Raise(m, "Assertion", tmp) ELSE Use(ReadMem(m, tmp, 4))

HiLoMove(m, i) ==
  CASE i.op = "MFHI" -> Set(m, i.rd, m.regs[HiReg])
    [] i.op = "MFLO" -> Set(m, i.rd, m.regs[LoReg])
    [] i.op = "MTHI" -> Set(m, HiReg, m.regs[i.rs])
    [] i.op = "MTLO" -> Set(m, LoReg, m.regs[i.rs])

Multiply(m, i) ==
  LET p == Mult(m.regs[i.rs], m.regs[i.rt], i.op = "MULT")
  IN Set(Set(m, HiReg, p.hi), LoReg, p.lo)

\* OR combines rs with itself.
OrNor(m, i) ==
  LET rs == m.regs[i.rs] IN
  CASE i.op = "NOR" -> Set(m, i.rd, Complement(rs | m.regs[i.rt]))
    [] i.op = "OR"  -> Set(m, i.rd, rs | rs)
    [] i.op = "ORI" -> Set(m, i.rt, rs | (i.extra % 2^(2 * ByteBits)))

StorePart(m, i) ==
  WriteMem(m, Wrap(m.regs[i.rs] + i.extra), IF i.op = "SB" THEN 1 ELSE 2, m.regs[i.rt])

StoreWord(m, i) == WriteMem(m, Wrap(m.regs[i.rs] + i.extra), 4, m.regs[i.rt])

\* SLLV, SRAV and SRLV use the low bits of rs.
Amount(m, i) ==
  (IF i.op \in {"SLLV", "SRAV", "SRLV"} THEN m.regs[i.rs] ELSE i.extra) % WordBits

Sll(m, i) == Set(m, i.rd, ShiftLeft(m.regs[i.rt], Amount(m, i)))

SetLess(m, i) ==
  LET rs == m.regs[i.rs]
      rt == m.regs[i.rt]
      Flag(b) == IF b THEN 1 ELSE 0
  IN CASE i.op = "SLT"   -> Set(m, i.rd, Flag(Signed(rs) < Signed(rt)))
       [] i.op = "SLTI"  -> Set(m, i.rt, Flag(Signed(rs) < Signed(i.extra)))
       [] i.op = "SLTIU" -> Set(m, i.rt, Flag(rs < i.extra))
       [] i.op = "SLTU"  -> Set(m, i.rd, Flag(rs < rt))

\* SRL and SRLV shift a signed int, as SRA and SRAV do.
ShiftRightOps(m, i) == Set(m, i.rd, ShiftRight(m.regs[i.rt], Amount(m, i)))

Subtract(m, i) ==
  LET rs == m.regs[i.rs]
      diff == Wrap(rs - m.regs[i.rt])
  IN IF i.op = "SUB" /\ Negative(rs) # Negative(m.regs[i.rt]) /\ Negative(rs) # Negative(diff)
     THEN Raise(m, "OverflowException", 0)
     ELSE Set(m, i.rd, diff)

\* Here too the word is aligned: SWL stores all of rt, SWR its low byte as
\* the highest byte of the word.
StoreUnaligned(m, i) ==
  LET tmp == Wrap(m.regs[i.rs] + i.extra)
      rt  == m.regs[i.rt]
      Use(r) ==
        IF Failed(r) THEN r
        ELSE WriteMem(r, tmp, 4,
                      IF i.op = "SWL" THEN rt
                      ELSE (r.value % 2^(3 * ByteBits)) | ShiftLeft(rt, 3 * ByteBits))
  IN IF tmp % 4 # 0 THEN Raise(m, "Assertion", tmp) ELSE Use(ReadMem(m, tmp, 4))

XorOps(m, i) ==
  IF i.op = "XOR" THEN Set(m, i.rd, m.regs[i.rs] ^^ m.regs[i.rt])
  ELSE Set(m, i.rt, m.regs[i.rs] ^^ (i.extra % 2^(2 * ByteBits)))

Execute(m, i) ==
  CASE i.op \in {"ADD", "ADDI", "ADDIU", "ADDU", "AND", "ANDI"} -> AddAnd(m, i)
    [] i.op \in {"BEQ", "BGEZAL", "BGEZ", "BGTZ", "BLEZ", "BLTZAL", "BLTZ", "BNE"} -> Branch(m, i)
    [] i.op \in {"DIV", "DIVU"}               -> Divide(m, i)
    [] i.op \in {"JAL", "J", "JALR", "JR"}    -> Jump(m, i)
    [] i.op \in {"LB", "LBU", "LH", "LHU"}    -> LoadPart(m, i)
    [] i.op = "LUI"                           -> LoadUpper(m, i)
    [] i.op = "LW"                            -> LoadWord(m, i)
    [] i.op \in {"LWL", "LWR"}                -> LoadUnaligned(m, i)
    [] i.op \in {"MFHI", "MFLO", "MTHI", "MTLO"} -> HiLoMove(m, i)
    [] i.op \in {"MULT", "MULTU"}             -> Multiply(m, i)
    [] i.op \in {"NOR", "OR", "ORI"}          -> OrNor(m, i)
    [] i.op \in {"SB", "SH"}                  -> StorePart(m, i)
    [] i.op = "SW"                            -> StoreWord(m, i)
    [] i.op \in {"SLL", "SLLV"}               -> Sll(m, i)
    [] i.op \in {"SLT", "SLTI", "SLTIU", "SLTU"} -> SetLess(m, i)
    [] i.op \in {"SRA", "SRAV", "SRL", "SRLV"} -> ShiftRightOps(m, i)
    [] i.op \in {"SUB", "SUBU"}               -> Subtract(m, i)
    [] i.op \in {"SWL", "SWR"}                -> StoreUnaligned(m, i)
    [] i.op = "SYSCALL"                       -> Raise(m, "SyscallException", 0)
    [] i.op \in {"XOR", "XORI"}               -> XorOps(m, i)
    [] i.op \in {"RES", "UNIMP"}              -> Raise(m, "IllegalInstrException", 0)

\* The fetch from PC, then the instruction.
Attempt ==
  LET Use(m) == IF Failed(m) THEN m ELSE Execute(m, Decode(text[registers[PCReg]]))
  IN Use(ReadMem(Fetched, registers[PCReg], 4))

\* Mutant of DelayedLoad: the load that was pending is dropped.
DelayedLoad_Dropped(regs, nextReg, nextValue) ==
  [regs EXCEPT ![LoadReg] = nextReg, ![LoadValueReg] = nextValue, ![0] = 0]

DelayedLoad(regs, nextReg, nextValue) ==
  [[regs EXCEPT ![regs[LoadReg]] = regs[LoadValueReg]]
        EXCEPT ![LoadReg] = nextReg, ![LoadValueReg] = nextValue, ![0] = 0]

\* The register part of RaiseException.
Trapped(m) == DelayedLoad([m.regs EXCEPT ![BadVAddrReg] = m.bad], 0, 0)

-----------------------------------------------------------------------------
\* The registers an instruction names.
Named(i) == {i.rs, i.rt}
            \cup (IF i.op \in {specialTable[k] : k \in 1..64} THEN {i.rd} ELSE {})
            \cup (IF i.op \in {"JAL", "BGEZAL", "BLTZAL"} THEN {R31} ELSE {})

(* Programs leave the target of a load alone in the instruction after it,  *)
(* the load's delay slot, except that LWL and LWR may complete each other. *)
KeepsDelaySlot(i) ==
  LET r == registers[LoadReg] IN
  r # 0 /\ r \in Named(i) => i.op \in {"LWL", "LWR"} /\ i.rs # r

InText == /\ running /\ ~finished
          /\ registers[PCReg] \in DOMAIN text
          /\ KeepsDelaySlot(Decode(text[registers[PCReg]]))

Completes ==
  /\ InText
  /\ Attempt.exc = "NoException"
  /\ LET m == Attempt
         r == DelayedLoad(m.regs, m.load[1], m.load[2])
     IN /\ registers' = [r EXCEPT ![PrevPCReg] = r[PCReg], ![PCReg] = r[NextPCReg],
                                  ![NextPCReg] = m.pcAfter]
        /\ pageTable' = m.table
        /\ mainMemory' = m.mem
  /\ UNCHANGED <<userRegisters, running, finished, text>>

\* ExceptionHandler for a system call that returns: the result goes to r2,
\* and the program goes on after the call.
SystemCall ==
  /\ InText
  /\ Attempt.exc = "SyscallException"
  /\ \E ret \in SysRet :
       LET r == Trapped(Attempt)
       IN registers' = [r EXCEPT ![2] = ret, ![PrevPCReg] = r[PCReg],
                                 ![PCReg] = r[NextPCReg], ![NextPCReg] = Wrap(r[NextPCReg] + 4)]
  /\ pageTable' = Attempt.table
  /\ UNCHANGED <<userRegisters, running, finished, mainMemory, text>>

\* A page fault: load_page finds a free frame and fills it, and the
\* instruction will be tried again.
PageFault ==
  /\ InText
  /\ Attempt.exc = "PageFaultException"
  /\ LET m == Attempt
         page == m.bad \div PageSize
         used == {m.table[p].physicalPage : p \in Pages}
     IN \E frame \in 0..(NumPhysPages - 1) \ used :
          /\ \A f \in 0..(frame - 1) : f \in used
          /\ registers' = Trapped(m)
          /\ pageTable' = [m.table EXCEPT ![page].physicalPage = frame, ![page].valid = TRUE]
          /\ mainMemory' = [a \in DOMAIN m.mem |->
               IF a \div PageSize = frame THEN Image[page * PageSize + (a % PageSize)] ELSE m.mem[a]]
  /\ UNCHANGED <<userRegisters, running, finished, text>>

\* The exceptions that end the program, Exit and Halt, and what ends the
\* simulator itself.
Ends ==
  /\ InText
  /\ Attempt.exc \in {"SyscallException", "AddressErrorException", "OverflowException",
                      "ReadOnlyException", "SIGFPE", "Assertion"}
  /\ registers' = Trapped(Attempt)
  /\ pageTable' = Attempt.table
  /\ finished' = TRUE
  /\ UNCHANGED <<userRegisters, running, mainMemory, text>>

\* Any other exception is reported, and the same instruction comes again.
Unsupported ==
  /\ InText
  /\ Attempt.exc \in {"IllegalInstrException", "BusErrorException"}
  /\ registers' = Trapped(Attempt)
  /\ pageTable' = Attempt.table
  /\ UNCHANGED <<userRegisters, running, finished, mainMemory, text>>

\* An interrupt after an instruction (CheckIfDue).
Interrupted ==
  /\ running
  /\ registers' = DelayedLoad(registers, 0, 0)
  /\ UNCHANGED <<userRegisters, running, finished, pageTable, mainMemory, text>>

\* An interrupt that makes the thread yield to one that starts a program;
\* SaveUserState keeps the registers.
SwitchOut ==
  /\ running
  /\ ~finished
  /\ userRegisters' = DelayedLoad(registers, 0, 0)
  /\ registers' = InitRegisters
  /\ running' = FALSE
  /\ UNCHANGED <<finished, pageTable, mainMemory, text>>

\* RestoreUserState
SwitchIn ==
  /\ ~running
  /\ registers' = userRegisters
  /\ running' = TRUE
  /\ UNCHANGED <<userRegisters, finished, pageTable, mainMemory, text>>

MipsNext == Completes \/ SystemCall \/ PageFault \/ Ends \/ Unsupported
        \/ Interrupted \/ SwitchOut \/ SwitchIn

MipsSpec == MipsInit(Texts, RegisterValues) /\ [][MipsNext]_mipsVars

-----------------------------------------------------------------------------
(* The program's own view: its registers whether or not it has the         *)
(* processor, a pending load as done, and its memory page by page.         *)
User == IF running THEN registers ELSE userRegisters

Visible ==
  [r \in GPRegs |-> IF r # 0 /\ User[LoadReg] = r THEN User[LoadValueReg] ELSE User[r]]

VirtualMemory ==
  [a \in 0..(Cardinality(Pages) * PageSize - 1) |->
     IF pageTable[a \div PageSize].valid THEN mainMemory[PhysAddr(pageTable, a)] ELSE Image[a]]

View == <<Visible, User[HiReg], User[LoReg], User[PCReg], User[NextPCReg], VirtualMemory, text>>

Interp == INSTANCE MipsInterp
  WITH Reg <- Visible, HI <- User[HiReg], LO <- User[LoReg], pc <- User[PCReg],
       npc <- User[NextPCReg], mem <- VirtualMemory, text <- text, TrapRet <- SysRet

(* The instructions on which the two simulators differ: OR with a bit that *)
(* only its second operand has, and the logical shifts of a negative word, *)
(* which are wrong here; the high word of a product, negative immediates   *)
(* of logical operations, LWL and LWR, which are wrong there; JALR with    *)
(* one register, division by zero, and what only one of them has.          *)
Differs(i) ==
  \/ i.op \in {"MULT", "MULTU", "LWL", "LWR", "SWL", "SWR", "SYSCALL"}
  \/ i.op = "OR" /\ (Visible[i.rs] | Visible[i.rt]) # Visible[i.rs]
  \/ i.op \in {"SRL", "SRLV"} /\ Negative(Visible[i.rt])
  \/ i.op \in {"ANDI", "ORI", "XORI"} /\ Negative(i.extra)
  \/ i.op = "JALR" /\ i.rd = i.rs
  \/ i.op \in {"DIV", "DIVU"} /\ Visible[i.rt] = 0

\* What such an instruction may still change.
Target(i) ==
  CASE i.op \in {"OR", "SRL", "SRLV", "JALR"}             -> {i.rd}
    [] i.op \in {"ANDI", "ORI", "XORI", "LWL", "LWR"}     -> {i.rt}
    [] i.op = "SYSCALL"                                   -> {2}
    [] OTHER                                              -> {}

Confined(i) ==
  /\ \A r \in GPRegs \ Target(i) : Visible'[r] = Visible[r]
  /\ i.op \notin {"MULT", "MULTU", "DIV", "DIVU"} =>
       User'[HiReg] = User[HiReg] /\ User'[LoReg] = User[LoReg]
  /\ User'[PCReg] = User[NextPCReg]
  /\ i.op # "JALR" => User'[NextPCReg] = Wrap(User[NextPCReg] + 4)
  /\ i.op \notin {"SWL", "SWR"} => VirtualMemory' = VirtualMemory
  /\ i.op = "LWR" => Visible'[i.rt] \div 2^ByteBits = Visible[i.rt] \div 2^ByteBits

\* The registers an instruction changes though its line does not list them.
Unlisted(i) ==
  CASE i.op \in {"JAL", "BGEZAL", "BLTZAL"} -> {R31}
    [] i.op \in {"MFLO", "JALR"}            -> {i.rd}
    [] i.op = "SYSCALL"                     -> {2}
    [] OTHER                                -> {}

\* The line traced for an instruction: its name, every other register it
\* changes, and where it goes if not to the next instruction.
Traced(i) ==
  LET line  == Interp!dump_ascii(text[User[PCReg]], User[PCReg])
      after == User'[NextPCReg]
  IN /\ line.op \in {i.op, "NOP"}
     /\ \A r \in GPRegs \ Unlisted(i) : Visible'[r] # Visible[r] => r \in line.regs
     /\ after # Wrap(User[NextPCReg] + 4) /\ i.op \notin {"BLEZ", "BGTZ", "JALR"} =>
          IF i.op = "JR" THEN \E r \in line.regs : after = Visible[r] ELSE after = line.number

(* Seen by the program, the processor with delayed loads, page faults,     *)
(* interrupts and context switches (OneInstruction, DelayedLoad,           *)
(* RaiseException, ExceptionHandler, SaveUserState) takes the steps of the *)
(* plain interpreter and no others, and each does what the interpreter's   *)
(* trace (dump_ascii) says of the instruction.                             *)
ImplementsInterpreter ==
  [][\/ UNCHANGED View
     \/ LET i == Decode(text[User[PCReg]])
        IN /\ IF Differs(i) THEN Confined(i) ELSE Interp!Step
           /\ Traced(i)]_mipsVars

(* At a multiplication Mult leaves the double-length product of its first  *)
(* operand with any word, signed or unsigned, in hi and lo.                *)
MultExact ==
  LET a == Visible[Decode(text[User[PCReg]]).rs] IN
  User[PCReg] \in DOMAIN text /\ Decode(text[User[PCReg]]).op \in {"MULT", "MULTU"} =>
    \A b \in 0..(2^WordBits - 1) :
      /\ LET p == Mult(a, b, TRUE)
         IN Signed(p.hi) * 2^WordBits + p.lo = Signed(a) * Signed(b)
      /\ LET p == Mult(a, b, FALSE) IN p.hi * 2^WordBits + p.lo = a * b
=============================================================================
