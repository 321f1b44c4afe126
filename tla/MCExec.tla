------------------------------- MODULE MCExec -------------------------------
(***************************************************************************)
(* TLC instance: pages of sixteen bytes.  "sh" has a page of text and, as  *)
(* data, an argument vector, the names of "cat" and of "sh" itself, and    *)
(* the empty string.  "cat" has two sections of uninitialized data, apart. *)
(***************************************************************************)
EXTENDS Exec, TLC

CONSTANTS p1, p2, p3

Section(name, addr, size) == [s_name |-> name, s_paddr |-> addr, s_size |-> size]

MCSections ==
  ("sh"  :> <<Section(".text", 0, 16), Section(".data", 16, 18), Section(".bss", 34, 0)>>) @@
  ("cat" :> <<Section(".text", 0, 4), Section(".rdata", 4, 0), Section(".sbss", 4, 1),
              Section(".bss", 8, 2)>>)

ShData == AsBytes(30) \o AsBytes(33) \o AsBytes(0) \o <<99, 0>> \o <<7, 8, 0>> \o <<0>>

MCContents ==
  ("sh"  :> [a \in 0..33 |-> IF a < 16 THEN 101 + a ELSE ShData[a - 15]]) @@
  ("cat" :> [a \in 0..3 |-> 201 + a])

MCName == ("sh" :> <<7, 8>>) @@ ("cat" :> <<99>>)

\* The processes other than Main, which is p1.
MCChildren == Permutations({p2, p3})
ASSUME MCMain == Main = p1
=============================================================================
