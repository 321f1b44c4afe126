------------------------------- MODULE Disasm -------------------------------
(***************************************************************************)
(* The instruction formats and opcodes of the programs under bin/          *)
(* (bin/instr.h, bin/encode.h, bin/opstrings.c) and their disassembler     *)
(* (dump_ascii, bin/d.c), which the stand-alone interpreter traces with.   *)
(* A mnemonic stands as its label in encode.h, the octal number printed    *)
(* for a code without one as "none"; a line is the mnemonic, the set of    *)
(* the registers it lists and the number after them.                       *)
(***************************************************************************)
EXTENDS Word, Sequences

\* The fields of an instruction (bin/instr.h).
Bits(instr, lo, width) == (instr \div 2^lo) % 2^width
rd(instr) == Bits(instr, 11, 5)
rt(instr) == Bits(instr, 16, 5)
rs(instr) == Bits(instr, 21, 5)
shamt(instr) == Bits(instr, 6, 5)
immed(instr) == SignExtend(Bits(instr, 0, 16), 16)
off16(instr) == ShiftLeft(immed(instr), 2)
off26(instr) == ShiftLeft(Bits(instr, 0, 26), 2)
\* The top 4 of 32 bits: the top eighth of a word.
top4(w) == w - (w % 2^(WordBits - WordBits \div 8))

None(n) == [k \in 1..n |-> "none"]

\* bin/encode.h, by opcode, by special opcode and by bcond opcode.
Normal ==
  <<"SPECIAL", "BCOND", "J", "JAL", "BEQ", "BNE", "BLEZ", "BGTZ",
    "ADDI", "ADDIU", "SLTI", "SLTIU", "ANDI", "ORI", "XORI", "LUI",
    "COP0", "COP1", "COP2", "COP3">> \o None(12)
  \o <<"LB", "LH", "LWL", "LW", "LBU", "LHU", "LWR", "none",
       "SB", "SH", "SWL", "SW", "none", "none", "SWR", "none",
       "LWC0", "LWC1", "LWC2", "LWC3">> \o None(4)
  \o <<"SWC0", "SWC1", "SWC2", "SWC3">> \o None(4)

Special ==
  <<"SLL", "none", "SRL", "SRA", "SLLV", "none", "SRLV", "SRAV",
    "JR", "JALR", "none", "none", "SYSCALL", "BREAK", "none", "none",
    "MFHI", "MTHI", "MFLO", "MTLO">> \o None(4)
  \o <<"MULT", "MULTU", "DIV", "DIVU">> \o None(4)
  \o <<"ADD", "ADDU", "SUB", "SUBU", "AND", "OR", "XOR", "NOR",
       "none", "none", "SLT", "SLTU">> \o None(20)

BcondOp == [k \in 0..31 |-> CASE k = 0  -> "BLTZ"
                              [] k = 1  -> "BGEZ"
                              [] k = 16 -> "BLTZAL"
                              [] k = 17 -> "BGEZAL"
                              [] OTHER  -> "none"]

-----------------------------------------------------------------------------
\* The mnemonics, in the order of bin/opstrings.c.
normalops ==
  <<"SPECIAL", "BCOND", "J", "JAL", "BEQ", "BNE", "BLEZ", "BGTZ", "ADDI", "ADDIU",
    "SLTI", "SLTIU", "ANDI", "ORI", "XORI", "LUI", "COP0", "COP1", "COP2", "COP3">>
  \o None(12) \o <<"LB", "LH", "LWL", "LW", "LBU", "LHU", "LWR">>
  \o None(1)  \o <<"SB", "SH", "SWL", "SW">> \o None(2) \o <<"SWR">>
  \o None(1)  \o <<"LWC0", "LWC1", "LWC2", "LWC3">>
  \o None(4)  \o <<"SWC0", "SWC1", "SWC2", "SWC3">> \o None(4)

specialops ==
  <<"SLL">> \o None(1) \o <<"SRL", "SRA", "SLLV">> \o None(1)
  \o <<"SRLV", "SRAV", "JR", "JALR">> \o None(2) \o <<"SYSCALL", "BREAK">>
  \o None(2) \o <<"MFHI", "MTHI", "MFLO", "MTLO">>
  \o None(4) \o <<"MULT", "MULTU", "DIV", "DIVU">>
  \o None(4) \o <<"ADD", "ADDU", "SUB", "SUBU", "AND", "OR", "XOR", "NOR">>
  \o None(2) \o <<"SLT", "SLTU">> \o None(20)

Line(op, regs, number) == [op |-> op, regs |-> regs, number |-> number]
NoNumber == -1

\* MFLO lists rs where the instruction has rd, MTHI the other way round.
SpecialLine(instr) ==
  LET code == Bits(instr, 0, 6) + 1
      op   == Special[code]
      Regs(list) == Line(specialops[code], list, NoNumber)
  IN CASE op \in {"SLL", "SRL", "SRA"} ->
            [Regs({rd(instr), rt(instr)}) EXCEPT !.number = shamt(instr)]
       [] op \in {"JR", "JALR", "MFLO", "MTLO"}    -> Regs({rs(instr)})
       [] op \in {"MFHI", "MTHI"}                  -> Regs({rd(instr)})
       [] op \in {"MULT", "MULTU", "DIV", "DIVU"}  -> Regs({rs(instr), rt(instr)})
       [] op \in {"none", "SYSCALL", "BREAK"}      -> Regs({})
       [] OTHER                                    -> Regs({rd(instr), rs(instr), rt(instr)})

BcondLine(instr, pc) ==
  LET op == BcondOp[rt(instr)]
  IN Line(IF op = "none" THEN "BCOND" ELSE op, {rs(instr)}, Wrap(off16(instr) + pc + 4))

\* BLEZ and BGTZ fall through the switch and list nothing.
NormalLine(instr, pc) ==
  LET code == Bits(instr, 26, 6) + 1
      op   == Normal[code]
      With(regs, number) == Line(normalops[code], regs, number)
  IN CASE op \in {"J", "JAL"}   -> With({}, top4(pc) | off26(instr))
       [] op \in {"BEQ", "BNE"} -> With({rt(instr), rs(instr)}, Wrap(off16(instr) + pc + 4))
       [] op = "LUI"            -> With({rt(instr)}, immed(instr))
       [] op \in {"none", "BLEZ", "BGTZ", "COP0", "COP1", "COP2", "COP3"} -> With({}, NoNumber)
       [] OTHER                 -> With({rt(instr), rs(instr)}, immed(instr))

dump_ascii(instr, pc) ==
  LET op == Normal[Bits(instr, 26, 6) + 1] IN
  IF instr = 0 THEN Line("NOP", {}, NoNumber)
  ELSE IF op = "SPECIAL" THEN SpecialLine(instr)
  ELSE IF op = "BCOND" THEN BcondLine(instr, pc)
  ELSE NormalLine(instr, pc)
=============================================================================
