----------------------------- MODULE MipsInterp -----------------------------
(***************************************************************************)
(* The stand-alone MIPS interpreter of the repository (bin/execute.c),     *)
(* which runs one program in one flat memory: no delayed loads, no page    *)
(* faults, no interrupts and no context switches.  It serves as the        *)
(* abstract machine that the kernel's simulator is compared with.  A step  *)
(* is one turn of runprogram's loop; Reg[0], which the loop clears before  *)
(* anything reads it, is cleared at the end of the step.                   *)
(***************************************************************************)
EXTENDS Disasm

CONSTANT TrapRet   \* what system_trap returns

VARIABLES Reg, HI, LO, pc, npc, mem, text

vars == <<Reg, HI, LO, pc, npc, mem, text>>

OpName(instr) ==
  LET op == Normal[Bits(instr, 26, 6) + 1] IN
  CASE op = "SPECIAL" -> Special[Bits(instr, 0, 6) + 1]
    [] op = "BCOND"   -> BcondOp[rt(instr)]
    [] OTHER          -> op

-----------------------------------------------------------------------------
(* A turn of the loop, on a record of the variables.  xpc is the address   *)
(* of the instruction; pc and npc have already moved on.                   *)
Turn == [Reg |-> Reg, HI |-> HI, LO |-> LO, mem |-> mem, npc |-> Wrap(npc + 4)]

To(s, r, v) == [s EXCEPT !.Reg[r] = v]

\* HI leaves out the carries of the middle products.
Product(t1, t2) ==
  LET half == 2^(2 * ByteBits)
      t1l == t1 % half
      t1h == t1 \div half
      t2l == t2 % half
      t2h == t2 \div half
  IN [LO |-> Wrap(t1 * t2),
      HI |-> Wrap(t1h * t2h + (ShiftRight(Wrap(t1h * t2l), 2 * ByteBits))
                            + (ShiftRight(Wrap(t2h * t1l), 2 * ByteBits)))]

SignedProduct(a, b) ==
  LET p   == Product(Wrap(Abs(Signed(a))), Wrap(Abs(Signed(b))))
      lo  == Wrap(-p.LO)
      neg == Negative(a) # Negative(b)
  IN IF ~neg THEN p
     ELSE [LO |-> lo, HI |-> Wrap(Complement(p.HI) + (IF lo = 0 THEN 1 ELSE 0))]

\* Shifts by a register: the host uses the low bits of the amount.
SpecialStep(s, instr, op, xpc) ==
  LET a == s.Reg[rs(instr)]
      b == s.Reg[rt(instr)]
      D(v) == To(s, rd(instr), v)
      Flag(f) == IF f THEN 1 ELSE 0
      Mul(p) == [s EXCEPT !.HI = p.HI, !.LO = p.LO]
  IN CASE op = "SLL"   -> D(ShiftLeft(b, shamt(instr)))
       [] op = "SRL"   -> D(ShiftRightLogical(b, shamt(instr)))
       [] op = "SRA"   -> D(ShiftRight(b, shamt(instr)))
       [] op = "SLLV"  -> D(ShiftLeft(b, a % WordBits))
       [] op = "SRLV"  -> D(ShiftRightLogical(b, a % WordBits))
       [] op = "SRAV"  -> D(ShiftRight(b, a % WordBits))
       [] op = "JR"    -> [s EXCEPT !.npc = a]
       [] op = "JALR"  -> [D(Wrap(xpc + 8)) EXCEPT !.npc = a]
       [] op = "MFHI"  -> D(s.HI)
       [] op = "MTHI"  -> [s EXCEPT !.HI = a]
       [] op = "MFLO"  -> D(s.LO)
       [] op = "MTLO"  -> [s EXCEPT !.LO = a]
       [] op = "MULT"  -> Mul(SignedProduct(a, b))
       [] op = "MULTU" -> Mul(Product(a, b))
       [] op = "DIV"   -> [s EXCEPT !.LO = Wrap(Quotient(Signed(a), Signed(b))),
                                    !.HI = Wrap(Remainder(Signed(a), Signed(b)))]
       [] op = "DIVU"  -> [s EXCEPT !.LO = a \div b, !.HI = a % b]
       [] op \in {"ADD", "ADDU"} -> D(Wrap(a + b))
       [] op \in {"SUB", "SUBU"} -> D(Wrap(a - b))
       [] op = "AND"   -> D(a & b)
       [] op = "OR"    -> D(a | b)
       [] op = "XOR"   -> D(a ^^ b)
       [] op = "NOR"   -> D(Complement(a | b))
       [] op = "SLT"   -> D(Flag(Signed(a) < Signed(b)))
       [] op = "SLTU"  -> D(Flag(a < b))

Goes(s, instr, xpc, cond) ==
  IF cond THEN [s EXCEPT !.npc = Wrap(xpc + 4 + off16(instr))] ELSE s

BcondStep(s, instr, op, xpc) ==
  LET l == IF op \in {"BLTZAL", "BGEZAL"} THEN To(s, 31, Wrap(xpc + 8)) ELSE s
      a == l.Reg[rs(instr)]
  IN Goes(l, instr, xpc, IF op \in {"BLTZ", "BLTZAL"} THEN Negative(a) ELSE ~Negative(a))

JumpStep(s, instr, op, xpc) ==
  LET l == IF op = "JAL" THEN To(s, 31, Wrap(xpc + 8)) ELSE s
  IN [l EXCEPT !.npc = top4(xpc) | off26(instr)]

CompareStep(s, instr, op, xpc) ==
  LET a == s.Reg[rs(instr)] IN
  Goes(s, instr, xpc, CASE op = "BEQ"  -> a = s.Reg[rt(instr)]
                        [] op = "BNE"  -> a # s.Reg[rt(instr)]
                        [] op = "BLEZ" -> Signed(a) <= 0
                        [] op = "BGTZ" -> Signed(a) > 0)

\* Immediates are sign extended, those of ANDI, ORI and XORI too.
ImmediateStep(s, instr, op) ==
  LET a == s.Reg[rs(instr)]
      x == immed(instr)
      T(v) == To(s, rt(instr), v)
  IN CASE op \in {"ADDI", "ADDIU"} -> T(Wrap(a + x))
       [] op = "SLTI"  -> T(IF Signed(a) < Signed(x) THEN 1 ELSE 0)
       [] op = "SLTIU" -> T(IF a < x THEN 1 ELSE 0)
       [] op = "ANDI"  -> T(a & x)
       [] op = "ORI"   -> T(a | x)
       [] op = "XORI"  -> T(a ^^ x)
       [] op = "LUI"   -> T(ShiftLeft(Bits(instr, 0, 16), 2 * ByteBits))

\* Memory is read and written without a check of the address.
LoadStep(s, instr, op) ==
  LET i == Wrap(s.Reg[rs(instr)] + immed(instr))
      Get(size) == Bytes(s.mem, i, size)
      word == Bytes(s.mem, i - (i % 4), 4)
      old == s.Reg[rt(instr)]
  IN To(s, rt(instr),
       CASE op = "LB"  -> SignExtend(Get(1), ByteBits)
         [] op = "LBU" -> Get(1)
         [] op = "LH"  -> SignExtend(Get(2), 2 * ByteBits)
         [] op = "LHU" -> Get(2)
         [] op = "LW"  -> Get(4)
         [] op = "LWL" -> old | ShiftLeft(word, ByteBits * (i % 4))
         [] op = "LWR" ->
              (IF i % 4 = 0 THEN 0 ELSE old & Wrap(-(2^(ByteBits * (i % 4)))))
              | ShiftRight(word, ByteBits * ((4 - (i % 4)) % 4)))

StoreStep(s, instr, op) ==
  LET size == CASE op = "SB" -> 1 [] op = "SH" -> 2 [] op = "SW" -> 4
  IN [s EXCEPT !.mem = StoreBytes(@, Wrap(s.Reg[rs(instr)] + immed(instr)), size,
                                  s.Reg[rt(instr)])]

Executed(instr, op) ==
  CASE op \in {"BLTZ", "BGEZ", "BLTZAL", "BGEZAL"}  -> BcondStep(Turn, instr, op, pc)
    [] op \in {"J", "JAL"}                          -> JumpStep(Turn, instr, op, pc)
    [] op \in {"BEQ", "BNE", "BLEZ", "BGTZ"}        -> CompareStep(Turn, instr, op, pc)
    [] op \in {"ADDI", "ADDIU", "SLTI", "SLTIU", "ANDI", "ORI", "XORI", "LUI"}
                                                    -> ImmediateStep(Turn, instr, op)
    [] op \in {"LB", "LH", "LWL", "LW", "LBU", "LHU", "LWR"} -> LoadStep(Turn, instr, op)
    [] op \in {"SB", "SH", "SW"}                    -> StoreStep(Turn, instr, op)
    [] OTHER                                        -> SpecialStep(Turn, instr, op, pc)

\* What ends the interpreter: u(), the missing coprocessors, BREAK.
Stops == {"none", "SWL", "SWR", "BREAK", "COP0", "COP1", "COP2", "COP3", "LWC0", "LWC1",
          "LWC2", "LWC3", "SWC0", "SWC1", "SWC2", "SWC3"}

\* A turn with any instruction but a system call.
Step ==
  /\ pc \in DOMAIN text
  /\ OpName(text[pc]) \notin Stops \cup {"SYSCALL"}
  /\ LET s == Executed(text[pc], OpName(text[pc]))
     IN /\ Reg' = [s.Reg EXCEPT ![0] = 0]
        /\ HI' = s.HI /\ LO' = s.LO
        /\ npc' = s.npc
        /\ mem' = s.mem
  /\ pc' = npc
  /\ UNCHANGED text

\* A turn with a system call: system_trap puts its result in Reg[1].
Trap ==
  /\ pc \in DOMAIN text
  /\ OpName(text[pc]) = "SYSCALL"
  /\ \E ret \in TrapRet : Reg' = [Reg EXCEPT ![1] = ret]
  /\ pc' = npc
  /\ npc' = Wrap(npc + 4)
  /\ UNCHANGED <<HI, LO, mem, text>>
=============================================================================
