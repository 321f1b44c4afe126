-------------------------------- MODULE Word --------------------------------
(***************************************************************************)
(* The 32 bit int of the MIPS simulators, at any width: a word is four     *)
(* bytes of ByteBits bits, kept as a natural number.  The simulators use   *)
(* one int as signed or unsigned; Signed gives its signed reading.         *)
(***************************************************************************)
EXTENDS Integers, Bitwise

CONSTANT ByteBits   \* bits of a byte (8 in the code)

ASSUME WordAssumption == ByteBits \in Nat \ {0}

WordBits == 4 * ByteBits
Word == 0..(2^WordBits - 1)

Wrap(i) == i % 2^WordBits
Negative(w) == w >= 2^(WordBits - 1)
Signed(w) == IF Negative(w) THEN w - 2^WordBits ELSE w

Complement(w) == 2^WordBits - 1 - w
ShiftLeft(w, n) == Wrap(w * 2^n)
\* C's >> on a signed int, and on an unsigned one.
ShiftRight(w, n) == Wrap(Signed(w) \div 2^n)
ShiftRightLogical(w, n) == w \div 2^n

\* The sign extension of the low n bits of w.
SignExtend(w, n) == LET low == w % 2^n
                    IN Wrap(IF low >= 2^(n - 1) THEN low - 2^n ELSE low)

\* C's / and %, which round towards zero.
Abs(i) == IF i < 0 THEN -i ELSE i
Quotient(i, j) == IF (i < 0) = (j < 0) THEN Abs(i) \div Abs(j) ELSE -(Abs(i) \div Abs(j))
Remainder(i, j) == i - j * Quotient(i, j)

\* The little-endian value of size bytes of mem from address a on.
Bytes(mem, a, size) ==
  LET f[k \in 0..size] == IF k = size THEN 0 ELSE mem[a + k] + 2^ByteBits * f[k + 1]
  IN f[0]

StoreBytes(mem, a, size, value) ==
  [b \in DOMAIN mem |-> IF b \in a..(a + size - 1)
                        THEN (value \div 2^(ByteBits * (b - a))) % 2^ByteBits
                        ELSE mem[b]]
=============================================================================
