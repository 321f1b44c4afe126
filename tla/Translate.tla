------------------------------ MODULE Translate ------------------------------
(***************************************************************************)
(* Address translation by the simulated machine (machine/translate.cc)     *)
(* with a linear page table; no build of the repository defines USE_TLB.   *)
(* A page table is a function from 0..pageTableSize-1 to entries.          *)
(***************************************************************************)
EXTENDS Integers

CONSTANTS PageSize,      \* bytes of a page
          NumPhysPages   \* frames of main memory

ASSUME TranslateAssumption == PageSize \in Nat \ {0} /\ NumPhysPages \in Nat \ {0}

NoFrame == -1

TranslationEntry(pages) ==
  [virtualPage : pages, physicalPage : {NoFrame} \cup 0..(NumPhysPages - 1),
   valid : BOOLEAN, readOnly : BOOLEAN, use : BOOLEAN, dirty : BOOLEAN]

Misaligned(virtAddr, size) == size \in {2, 4} /\ virtAddr % size # 0

\* The exception that looking up virtAddr raises.  As an unsigned number a
\* physicalPage of -1 is too big for a frame.
Lookup(pageTable, virtAddr, size, writing) ==
  LET vpn == virtAddr \div PageSize IN
  IF Misaligned(virtAddr, size) \/ vpn \notin DOMAIN pageTable THEN "AddressErrorException"
  ELSE IF ~pageTable[vpn].valid THEN "PageFaultException"
  ELSE IF pageTable[vpn].readOnly /\ writing THEN "ReadOnlyException"
  ELSE IF pageTable[vpn].physicalPage \notin 0..(NumPhysPages - 1) THEN "BusErrorException"
  ELSE "NoException"

\* What Translate does when Lookup finds nothing wrong.
Touched(pageTable, virtAddr, writing) ==
  LET vpn == virtAddr \div PageSize IN
  [pageTable EXCEPT ![vpn].use = TRUE, ![vpn].dirty = @ \/ writing]

PhysAddr(pageTable, virtAddr) ==
  pageTable[virtAddr \div PageSize].physicalPage * PageSize
    + (virtAddr % PageSize)
=============================================================================
