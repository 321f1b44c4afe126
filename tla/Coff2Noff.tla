------------------------------ MODULE Coff2Noff ------------------------------
(***************************************************************************)
(* The converter from COFF to NOFF object files (bin/coff2noff.c).  A      *)
(* section is a record [s_name, s_paddr, s_size]; contents[a] is the byte  *)
(* that the linker placed at address a.                                    *)
(***************************************************************************)
EXTENDS Integers, Sequences

CONSTANT HeaderSize   \* sizeof(NoffHeader)

ASSUME Coff2NoffAssumption == HeaderSize \in Nat

NoSegment == [virtualAddr |-> 0, inFileAddr |-> 0, size |-> 0]

\* The output file and its header while main goes over the sections.
Started == [failed |-> FALSE, inNoffFile |-> HeaderSize, file |-> <<>>,
            code |-> NoSegment, initData |-> NoSegment, uninitData |-> NoSegment]

Segment(out, s) ==
  [virtualAddr |-> s.s_paddr, inFileAddr |-> out.inNoffFile, size |-> s.s_size]

\* The bytes of s are appended to the file.
Copied(out, s, contents) ==
  [out EXCEPT !.file = @ \o [i \in 1..s.s_size |-> contents[s.s_paddr + i - 1]],
              !.inNoffFile = @ + s.s_size]

Failed(out) == [out EXCEPT !.failed = TRUE]

Text(out, s, contents) == [Copied(out, s, contents) EXCEPT !.code = Segment(out, s)]

Data(out, s, contents) ==
  IF out.initData.size # 0 THEN Failed(out)
  ELSE [Copied(out, s, contents) EXCEPT !.initData = Segment(out, s)]

Bss(out, s) ==
  LET u == out.uninitData IN
  IF u.size = 0 THEN [out EXCEPT !.uninitData = [Segment(out, s) EXCEPT !.inFileAddr = 0]]
  ELSE IF s.s_paddr = u.virtualAddr + u.size THEN Failed(out)
  ELSE [out EXCEPT !.uninitData.size = @ + s.s_size]

AddSection(out, s, contents) ==
  IF out.failed \/ s.s_size = 0 THEN out
  ELSE CASE s.s_name = ".text"               -> Text(out, s, contents)
         [] s.s_name \in {".data", ".rdata"} -> Data(out, s, contents)
         [] s.s_name \in {".bss", ".sbss"}   -> Bss(out, s)
         [] OTHER                            -> Failed(out)

\* main, after the magic numbers were found right.
Converted(sections, contents) ==
  LET f[i \in 0..Len(sections)] ==
        IF i = 0 THEN Started ELSE AddSection(f[i - 1], sections[i], contents)
  IN  f[Len(sections)]

\* The byte at offset pos of the NOFF file, behind the header.
InFile(noff, pos) == pos - HeaderSize + 1 \in DOMAIN noff.file
FileByte(noff, pos) == noff.file[pos - HeaderSize + 1]
=============================================================================
