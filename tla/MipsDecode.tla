----------------------------- MODULE MipsDecode -----------------------------
(***************************************************************************)
(* Instruction::Decode of the machine's simulator (machine/mipssim.cc) and *)
(* its tables (machine/mipssim.h).  An instruction is a 32 bit int, here a *)
(* signed one.                                                             *)
(***************************************************************************)
EXTENDS Word, Sequences

\* The bits lo to lo + width - 1 of an instruction.
Field(value, lo, width) == (value \div 2^lo) % 2^width

\* Operations and formats by bits 31:26.
opTable ==
  LET I(ops) == [k \in DOMAIN ops |-> <<ops[k], "IFMT">>]
      J(ops) == [k \in DOMAIN ops |-> <<ops[k], "JFMT">>]
  IN <<<<"SPECIAL", "RFMT">>, <<"BCOND", "IFMT">>>> \o J(<<"J", "JAL">>)
     \o I(<<"BEQ", "BNE", "BLEZ", "BGTZ",
            "ADDI", "ADDIU", "SLTI", "SLTIU", "ANDI", "ORI", "XORI", "LUI",
            "UNIMP", "UNIMP", "UNIMP", "UNIMP", "RES", "RES", "RES", "RES",
            "RES", "RES", "RES", "RES", "RES", "RES", "RES", "RES",
            "LB", "LH", "LWL", "LW", "LBU", "LHU", "LWR", "RES",
            "SB", "SH", "SWL", "SW", "RES", "RES", "SWR", "RES",
            "UNIMP", "UNIMP", "UNIMP", "UNIMP", "RES", "RES", "RES", "RES",
            "UNIMP", "UNIMP", "UNIMP", "UNIMP", "RES", "RES", "RES", "RES">>)

\* Operations of SPECIAL by the funct field.
specialTable ==
  <<"SLL", "RES", "SRL", "SRA", "SLLV", "RES", "SRLV", "SRAV",
    "JR", "JALR", "RES", "RES", "SYSCALL", "UNIMP", "RES", "RES",
    "MFHI", "MTHI", "MFLO", "MTLO", "RES", "RES", "RES", "RES",
    "MULT", "MULTU", "DIV", "DIVU", "RES", "RES", "RES", "RES",
    "ADD", "ADDU", "SUB", "SUBU", "AND", "OR", "XOR", "NOR",
    "RES", "RES", "SLT", "SLTU">> \o [k \in 1..20 |-> "RES"]

\* Operations of BCOND by the rt field.
Bcond(rt) == CASE rt = 0  -> "BLTZ"
               [] rt = 1  -> "BGEZ"
               [] rt = 16 -> "BLTZAL"
               [] rt = 17 -> "BGEZAL"
               [] OTHER   -> "UNIMP"

Decode(value) ==
  LET entry == opTable[Field(value, 26, 6) + 1]
      rt    == Field(value, 16, 5)
  IN [op |-> CASE entry[1] = "SPECIAL" -> specialTable[Field(value, 0, 6) + 1]
               [] entry[1] = "BCOND"   -> Bcond(rt)
               [] OTHER                -> entry[1],
      rs |-> Field(value, 21, 5), rt |-> rt, rd |-> Field(value, 11, 5),
      extra |-> CASE entry[2] = "IFMT" -> SignExtend(Field(value, 0, 16), 16)
                  [] entry[2] = "RFMT" -> Field(value, 6, 5)
                  [] OTHER             -> Field(value, 0, 26)]
=============================================================================
