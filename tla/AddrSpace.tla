------------------------------ MODULE AddrSpace ------------------------------
(***************************************************************************)
(* Demand paging (userprog/addrspace.cc): page tables, frames, load_page   *)
(* and the choice of a victim when no frame is free.  A program is what    *)
(* coff2noff makes of linked sections.                                     *)
(*                                                                         *)
(* kernel is the state that load_page works on.  It is lost once the code  *)
(* has used an element outside available_pages, pageTable or mainMemory,   *)
(* or calls try_store_page for ever; nothing is said of what follows.      *)
(*                                                                         *)
(* load_page loses the processor, if at all, when it opens and reads the   *)
(* executable; Claim comes before that and Fill after it.  No page is ever *)
(* marked in on_disk, so nothing is read back from the swap sectors.       *)
(***************************************************************************)
EXTENDS Translate, Coff2Noff

CONSTANTS Process,        \* the user processes there may be
          Program,        \* names of executables
          sections,       \* the linked sections of each program
          contents,       \* the byte that each program has at each address
          UserStackSize,
          Access,         \* the addresses that programs use
          Written         \* the bytes that programs write

Frame == 0..(NumPhysPages - 1)
MemorySize == NumPhysPages * PageSize

\* The NOFF files.
noff == [f \in Program |-> Converted(sections[f], contents[f])]

divRoundUp(n, s) == (n \div s) + (IF n % s > 0 THEN 1 ELSE 0)

NumPages(h) ==
  divRoundUp(h.code.size + h.initData.size + h.uninitData.size + UserStackSize, PageSize)

\* The constructor refuses, with an ASSERT, what does not fit into memory.
ASSUME AddrSpaceAssumption ==
  /\ UserStackSize \in Nat
  /\ \A f \in Program : ~noff[f].failed /\ NumPages(noff[f]) \in 1..NumPhysPages

VARIABLES
  kernel,    \* available_pages and mainMemory, and of each process the pageTable,
             \* victum_offset, noffH (the program whose header it has), filename
             \* (the program it loads pages from); seen, a history, is what each
             \* process should find at each of its addresses
  pc,        \* what each process does
  loading    \* the page that each process is loading

vars == <<kernel, pc, loading>>

NoTable == [vp \in {} |-> {}]
NoProgram == "no program"

Init ==
  /\ kernel = [available_pages |-> [f \in Frame |-> 0],
               mainMemory |-> [a \in 0..(MemorySize - 1) |-> 0],
               pageTable |-> [p \in Process |-> NoTable],
               victum_offset |-> [p \in Process |-> 0],
               noffH |-> [p \in Process |-> NoProgram],
               filename |-> [p \in Process |-> NoProgram],
               seen |-> [p \in Process |-> NoTable],
               lost |-> FALSE]
  /\ pc = [p \in Process |-> "none"]
  /\ loading = [p \in Process |-> 0]

-----------------------------------------------------------------------------
(* Choosing a victim.                                                      *)

Lost(k) == [k EXCEPT !.lost = TRUE]

\* Looking at whether page vp is shared leaves the arrays: there is no such
\* page, or it has no frame.
Stray(k, t, vp) ==
  \/ vp \notin DOMAIN t
  \/ ~t[vp].readOnly /\ t[vp].physicalPage \notin DOMAIN k.available_pages

Shared(k, entry) == ~entry.readOnly /\ k.available_pages[entry.physicalPage] > 1

\* One turn of the loop in try_store_page: the page at vp against the best so
\* far.  use holds the use bits, which are cleared up to the first unused page.
SweepStep(k, t, s, vp) ==
  LET used == s.use[vp]
      marked == IF s.unused >= 0 THEN s
                ELSE IF used THEN [s EXCEPT !.use[vp] = FALSE]
                ELSE [s EXCEPT !.unused = vp]
      chosen == [marked EXCEPT !.best = vp, !.best_used = used]
      best == t[s.best]
  IN  IF s.stop \/ ~t[vp].valid THEN s
      ELSE IF Stray(k, t, s.best) THEN [s EXCEPT !.stop = TRUE]
      ELSE IF \/ Shared(k, best)
              \/ best.readOnly /\ ~t[vp].readOnly
              \/ best.dirty /\ ~t[vp].dirty THEN chosen
      ELSE IF s.best_used /\ ~used THEN [chosen EXCEPT !.stop = TRUE]
      ELSE marked

SweepFrom(k, t, offset, numPages) ==
  LET f[i \in 0..(numPages - 1)] ==
        IF i = 0
        THEN [best |-> offset, best_used |-> FALSE, unused |-> -1, stop |-> FALSE,
              use |-> [vp \in DOMAIN t |-> t[vp].use]]
        ELSE SweepStep(k, t, f[i - 1], (offset + i) % numPages)
  IN  f[numPages - 1]

Sweep(k, p) ==
  SweepFrom(k, k.pageTable[p], k.victum_offset[p], NumPages(noff[k.noffH[p]]))

\* An entry after the sweep.
Swept(entry, use, frame) == [entry EXCEPT !.use = use, !.physicalPage = frame]

\* Mutant of Evicted: the frame stays in the victim's entry.
Evicted_KeepsFrame(k, p, s) ==
  [k EXCEPT !.victum_offset[p] = s.unused,
            !.available_pages[k.pageTable[p][s.best].physicalPage] = 0,
            !.pageTable[p] = [vp \in DOMAIN @ |-> Swept(@[vp], s.use[vp], @[vp].physicalPage)]]

\* A clean victim loses its frame, and is still called valid.
Evicted(k, p, s) ==
  [k EXCEPT !.victum_offset[p] = s.unused,
            !.available_pages[k.pageTable[p][s.best].physicalPage] = 0,
            !.pageTable[p] =
               [vp \in DOMAIN @ |-> Swept(@[vp], s.use[vp], IF vp = s.best THEN NoFrame
                                                            ELSE @[vp].physicalPage)]]

(* store_page: a frame and the kernel state without it.  A dirty victim    *)
(* has physicalPage -1 when available_pages[physicalPage] is cleared; a    *)
(* shared one makes try_store_page fail again and again.                   *)
StoreBest(k, p, t, s) ==
  IF Stray(k, t, s.best) \/ Shared(k, t[s.best]) \/ t[s.best].dirty \/ t[s.best].readOnly
  THEN [k |-> Lost(k), frame |-> NoFrame]
  ELSE [k |-> Evicted(k, p, s), frame |-> t[s.best].physicalPage]

StorePage(k, p) == StoreBest(k, p, k.pageTable[p], Sweep(k, p))

-----------------------------------------------------------------------------
(* Loading a page.                                                         *)

Free(k) == {f \in Frame : k.available_pages[f] = 0}

Zeroed(mem, frame) ==
  [a \in DOMAIN mem |-> IF a \div PageSize = frame THEN 0 ELSE mem[a]]

Given(k, p, vp, frame) ==
  [k EXCEPT !.pageTable[p][vp].physicalPage = frame,
            !.available_pages[frame] = 1,
            !.mainMemory = Zeroed(@, frame)]

\* The frame that store_page gave, if it came back.
Taken(r, p, vp) ==
  IF r.k.lost THEN r.k
  ELSE [Given(r.k, p, vp, r.frame) EXCEPT !.pageTable[p][vp].use = TRUE]

\* load_page up to bzero: the first free frame, the one left from a load that
\* failed, or a victim's.
Claim(k, p, vp) ==
  IF Free(k) # {}
  THEN Given(k, p, vp, CHOOSE f \in Free(k) : \A g \in Free(k) : f <= g)
  ELSE IF k.pageTable[p][vp].physicalPage # NoFrame
  THEN Given(k, p, vp, k.pageTable[p][vp].physicalPage)
  ELSE Taken(StorePage(k, p), p, vp)

Quotient(i, j) == IF i < 0 THEN -((-i) \div j) ELSE i \div j

\* Mutant of ReadAt: the read goes on into the next frame.
ReadAt_PastPage(mem, file, start, end, offset) ==
  [a \in DOMAIN mem |->
     IF a \in start..end /\ InFile(file, offset + (a - start))
     THEN FileByte(file, offset + (a - start)) ELSE mem[a]]

\* executable->ReadAt into mem[start..end-1]; a negative length reads nothing.
ReadAt(mem, file, start, end, offset) ==
  [a \in DOMAIN mem |->
     IF a \in start..(end - 1) /\ InFile(file, offset + (a - start))
     THEN FileByte(file, offset + (a - start)) ELSE mem[a]]

SegmentIn(seg, vp) ==
  seg.size > 0 /\ vp \in (seg.virtualAddr \div PageSize)..
                        ((seg.virtualAddr + seg.size) \div PageSize)

\* What load_page reads of segment seg into the frame of page vp.  For initData
\* the file offset is taken off the end.
LoadSegment(mem, file, seg, vp, frame, initData) ==
  LET first == vp = seg.virtualAddr \div PageSize
      start == frame * PageSize + (IF first THEN seg.virtualAddr % PageSize ELSE 0)
      offset == seg.inFileAddr + (IF first THEN 0 ELSE vp * PageSize - seg.virtualAddr)
      full == start + seg.size - (IF initData THEN offset ELSE 0)
      end == IF Quotient(full, PageSize) # frame THEN (frame + 1) * PageSize ELSE full
  IN  IF SegmentIn(seg, vp) THEN ReadAt(mem, file, start, end, offset) ELSE mem

Holds(s, va) == va \in s.s_paddr..(s.s_paddr + s.s_size - 1)

\* Memory as load_program of the stand-alone interpreter fills it: the sections
\* that have bytes in the object file, where they were linked; else zero.
Linked(f, va) ==
  IF \E i \in DOMAIN sections[f] :
       /\ sections[f][i].s_name \in {".text", ".rdata", ".data", ".sdata"}
       /\ Holds(sections[f][i], va)
  THEN contents[f][va] ELSE 0

\* load_page has to open the executable for page vp.
HasSegment(k, p, vp) ==
  \E seg \in {noff[k.noffH[p]].code, noff[k.noffH[p]].initData} : SegmentIn(seg, vp)

\* The rest of load_page: text and data from the executable, then valid.  If the
\* executable cannot be opened the page keeps its frame and is not valid.
Fill(k, p, vp) ==
  LET h == noff[k.noffH[p]]
      file == noff[k.filename[p]]
      frame == k.pageTable[p][vp].physicalPage
      text == LoadSegment(k.mainMemory, file, h.code, vp, frame, FALSE)
      data == LoadSegment(text, file, h.initData, vp, frame, TRUE)
  IN  IF ~HasSegment(k, p, vp) THEN [k EXCEPT !.pageTable[p][vp].valid = TRUE]
      ELSE IF k.filename[p] = NoProgram THEN k
      ELSE [k EXCEPT !.pageTable[p][vp].valid = TRUE, !.mainMemory = data]

-----------------------------------------------------------------------------
(* Actions.                                                                *)

Serving == ~kernel.lost

\* The kernel state after AddrSpace(char* name), with the header of program h and
\* the name of program f.
Created(k, p, h, f) ==
  LET n == NumPages(noff[h]) IN
  [k EXCEPT !.noffH[p] = h,
            !.filename[p] = f,
            !.victum_offset[p] = 0,
            !.pageTable[p] = [vp \in 0..(n - 1) |->
               [virtualPage |-> vp, physicalPage |-> NoFrame, valid |-> FALSE,
                use |-> FALSE, dirty |-> FALSE, readOnly |-> FALSE]],
            !.seen[p] = [va \in 0..(n * PageSize - 1) |-> Linked(h, va)]]

NewSpace(p, f) ==
  /\ Serving /\ pc[p] = "none"
  /\ kernel' = Created(kernel, p, f, f)
  /\ pc' = [pc EXCEPT ![p] = "user"]
  /\ UNCHANGED loading

UserReads(p, va) ==
  /\ Serving /\ pc[p] = "user"
  /\ Lookup(kernel.pageTable[p], va, 1, FALSE) = "NoException"
  /\ kernel' = [kernel EXCEPT !.pageTable[p] = Touched(@, va, FALSE)]
  /\ UNCHANGED <<pc, loading>>

UserWrites(p, va, b) ==
  /\ Serving /\ pc[p] = "user"
  /\ Lookup(kernel.pageTable[p], va, 1, TRUE) = "NoException"
  /\ kernel' = [kernel EXCEPT !.pageTable[p] = Touched(@, va, TRUE),
                              !.mainMemory[PhysAddr(kernel.pageTable[p], va)] = b,
                              !.seen[p][va] = b]
  /\ UNCHANGED <<pc, loading>>

\* A page fault, up to where load_page opens the executable.
PageFault(p, va) ==
  /\ Serving /\ pc[p] = "user"
  /\ Lookup(kernel.pageTable[p], va, 1, FALSE) = "PageFaultException"
  /\ kernel' = Claim(kernel, p, va \div PageSize)
  /\ pc' = [pc EXCEPT ![p] = "loading"]
  /\ loading' = [loading EXCEPT ![p] = va \div PageSize]

PageLoaded(p) ==
  /\ Serving /\ pc[p] = "loading"
  /\ kernel' = Fill(kernel, p, loading[p])
  /\ kernel'.pageTable[p][loading[p]].valid
  /\ pc' = [pc EXCEPT ![p] = "user"]
  /\ UNCHANGED loading

(* One turn of the loops in AddrSpace::read and AddrSpace::write: the page *)
(* is loaded if it is not there.  A page that lost its frame as a victim   *)
(* is not loaded again, and the byte is outside main memory.               *)
Filled(k, p, vp) == IF k.lost THEN k ELSE Fill(k, p, vp)

Present(k, p, vp) ==
  LET e == k.pageTable[p][vp]
  IN  IF ~e.valid THEN Filled(Claim(k, p, vp), p, vp)
      ELSE IF e.physicalPage = NoFrame THEN Lost(k) ELSE k

InSpace(k, p, va) == va \div PageSize \in DOMAIN k.pageTable[p]

KernelReads(p, va) ==
  /\ Serving /\ pc[p] = "user" /\ InSpace(kernel, p, va)
  /\ kernel' = Present(kernel, p, va \div PageSize)
  /\ UNCHANGED <<pc, loading>>

\* AddrSpace::write does not set the dirty bit.
Stored(k, p, va, b) ==
  IF k.lost THEN k
  ELSE [k EXCEPT !.mainMemory[PhysAddr(k.pageTable[p], va)] = b, !.seen[p][va] = b]

Poked(k, p, va, b) == Stored(Present(k, p, va \div PageSize), p, va, b)

KernelWrites(p, va, b) ==
  /\ Serving /\ pc[p] = "user" /\ InSpace(kernel, p, va)
  /\ kernel' = Poked(kernel, p, va, b)
  /\ UNCHANGED <<pc, loading>>

\* Exit, a fatal exception, or a load_page whose executable cannot be opened.
\* ~AddrSpace gives no frame back.
Ends(p) ==
  /\ Serving /\ pc[p] \in {"user", "loading"}
  /\ kernel' = [kernel EXCEPT !.pageTable[p] = NoTable]
  /\ pc' = [pc EXCEPT ![p] = "ended"]
  /\ UNCHANGED loading

Next ==
  \E p \in Process :
    \/ \E f \in Program : NewSpace(p, f)
    \/ \E va \in Access : \/ UserReads(p, va) \/ PageFault(p, va) \/ KernelReads(p, va)
                          \/ \E b \in Written : UserWrites(p, va, b) \/ KernelWrites(p, va, b)
    \/ PageLoaded(p) \/ Ends(p)

Spec == Init /\ [][Next]_vars

-----------------------------------------------------------------------------
(* Properties.                                                             *)

\* The page table entries that hold frame f.
Holders(f) == {e \in Process \X (0..NumPhysPages) :
                 /\ e[2] \in DOMAIN kernel.pageTable[e[1]]
                 /\ kernel.pageTable[e[1]][e[2]].physicalPage = f}

\* available_pages: a frame is in at most one entry of all the page tables, also
\* while pages are being loaded and victims chosen, and never in one when it is
\* called available.
FrameExclusive ==
  \A f \in Frame :
    /\ \A e1, e2 \in Holders(f) : e1 = e2
    /\ kernel.available_pages[f] = 0 => Holders(f) = {}

Resident(p, vp) == /\ kernel.pageTable[p][vp].valid
                   /\ kernel.pageTable[p][vp].physicalPage # NoFrame

LinkedIn(f, names, va) ==
  \E i \in DOMAIN sections[f] : sections[f][i].s_name \in names /\ Holds(sections[f][i], va)

\* From coff2noff through load_page and translation: at each address of a
\* resident page a process finds the text that was linked there, zero in the
\* uninitialized data and the stack, or what was last written by itself, or by
\* the kernel for it.  Only the text of a process that was given another file's
\* name (Exec) is not its own.
ResidentIntact ==
  \A p \in Process : \A vp \in DOMAIN kernel.pageTable[p] :
    Resident(p, vp) =>
      \A va \in (vp * PageSize)..((vp + 1) * PageSize - 1) :
        \/ LinkedIn(kernel.noffH[p], {".data", ".rdata"}, va)
        \/ kernel.filename[p] # kernel.noffH[p] /\ LinkedIn(kernel.noffH[p], {".text"}, va)
        \/ kernel.mainMemory[PhysAddr(kernel.pageTable[p], va)] = kernel.seen[p][va]
=============================================================================
