------------------------------- MODULE MCMips -------------------------------
(***************************************************************************)
(* TLC instance: bytes of two bits, pages of eight bytes, two of them text *)
(* and one data.  A program is four instructions; the second is any        *)
(* instruction at all, the first puts it in or after the delay slot of a   *)
(* load or a branch.                                                       *)
(***************************************************************************)
EXTENDS MipsSim, TLC

R(funct, rs, rt, rd, sh) == rs * 2^21 + rt * 2^16 + rd * 2^11 + sh * 2^6 + funct
I(op, rs, rt, x) == (IF op >= 32 THEN op - 64 ELSE op) * 2^26 + rs * 2^21 + rt * 2^16 + (x % 2^16)
J(op, index) == op * 2^26 + index

NOP == 0
SYSCALL == R(12, 0, 0, 0, 0)

\* Nothing; loads of a word, a half and a byte; a branch, a call.
FirstWords == {NOP, I(35, 0, 31, 16), I(33, 0, 31, 18), I(4, 0, 0, 1), J(3, 2)}

SecondWords ==
  {R(funct, 1, 2, 3, 3) : funct \in (0..4) \cup (6..9) \cup {12, 13} \cup (16..19) \cup (24..27)
                                    \cup (32..39) \cup {42, 43}}
  \cup {R(funct, 1, 2, 1, 0) : funct \in {9, 33}}
  \cup {I(op, 1, 2, x) : op \in (4..16) \cup {20} \cup (32..38) \cup (40..43) \cup {46},
                         x \in {1, 4, 2^16 - 1}}
  \cup {I(1, 1, rt, 1) : rt \in {0, 1, 2, 16, 17}} \cup {J(2, 3), J(3, 3)}

\* Completes an unaligned load, and uses r2 and r3.
ThirdWord == I(38, 1, 2, 4)

MCTexts ==
  {(0 :> a) @@ (4 :> b) @@ (8 :> ThirdWord) @@ (12 :> SYSCALL) : a \in FirstWords, b \in SecondWords}

MCImage == [a \in 0..23 |-> IF a < 16 THEN 0 ELSE (3 * a + 1) % 4]

MCValues ==
  {(0 :> 0) @@ (1 :> v[1]) @@ (2 :> v[2]) @@ (3 :> 77) @@ (31 :> 12) :
     v \in {<<16, 0>>, <<16, 5>>, <<129, 200>>, <<255, 5>>}}
=============================================================================
