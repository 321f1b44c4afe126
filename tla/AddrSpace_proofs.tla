-------------------------- MODULE AddrSpace_proofs --------------------------
(***************************************************************************)
(* FrameExclusive for any processes, programs, page and memory sizes.  The *)
(* choice of the victim, a recursive function, is left open: whatever page *)
(* Sweep comes up with, StoreBest's own tests keep frames apart.           *)
(***************************************************************************)
EXTENDS AddrSpace, WellFoundedInduction, TLAPS

Fields == {"available_pages", "mainMemory", "pageTable", "victum_offset", "noffH",
           "filename", "seen", "lost"}

FrameOf(k, p, vp) == k.pageTable[p][vp].physicalPage

\* Which entries there are, and what is a frame.
Shape(k) ==
  /\ DOMAIN k = Fields
  /\ DOMAIN k.available_pages = Frame
  /\ DOMAIN k.pageTable = Process
  /\ \A p \in Process : \A vp \in DOMAIN k.pageTable[p] :
       /\ "physicalPage" \in DOMAIN k.pageTable[p][vp]
       /\ FrameOf(k, p, vp) \in Frame \cup {NoFrame}

\* A frame in a page table is marked as taken, and in no other entry.
Apart(k) ==
  \A p \in Process : \A vp \in DOMAIN k.pageTable[p] :
    FrameOf(k, p, vp) \in Frame =>
      /\ k.available_pages[FrameOf(k, p, vp)] # 0
      /\ \A q \in Process : \A w \in DOMAIN k.pageTable[q] :
           FrameOf(k, q, w) = FrameOf(k, p, vp) => q = p /\ w = vp

KernelInv(k) == Shape(k) /\ Apart(k)

\* The inductive invariant.
FramesApart == KernelInv(kernel)

\* Steps of the machine and of load_page that move no frame.
SameFrames(k, new) ==
  /\ DOMAIN new = DOMAIN k
  /\ new.available_pages = k.available_pages
  /\ DOMAIN new.pageTable = DOMAIN k.pageTable
  /\ \A p \in Process :
       /\ DOMAIN new.pageTable[p] = DOMAIN k.pageTable[p]
       /\ \A vp \in DOMAIN k.pageTable[p] :
            /\ DOMAIN new.pageTable[p][vp] = DOMAIN k.pageTable[p][vp]
            /\ FrameOf(new, p, vp) = FrameOf(k, p, vp)

\* The invariant depends on frames only.
LEMMA SameFramesKeep ==
  ASSUME NEW k, NEW new, KernelInv(k), SameFrames(k, new)
  PROVE  KernelInv(new)
<1>1. Shape(new)
  BY DEF KernelInv, Shape, SameFrames
<1>2. Apart(new)
  BY DEF KernelInv, Shape, Apart, SameFrames
<1> QED
  BY <1>1, <1>2 DEF KernelInv

\* load_page puts a frame that is in no other entry into entry vp (Given).
LEMMA GivenKeeps ==
  ASSUME NEW k, NEW p \in Process, NEW vp \in DOMAIN k.pageTable[p], NEW frame \in Frame,
         KernelInv(k),
         \A q \in Process : \A w \in DOMAIN k.pageTable[q] :
           FrameOf(k, q, w) = frame => q = p /\ w = vp
  PROVE  KernelInv(Given(k, p, vp, frame))
<1> DEFINE g == Given(k, p, vp, frame)
<1>1. /\ DOMAIN g = Fields
      /\ g.available_pages = [k.available_pages EXCEPT ![frame] = 1]
      /\ g.pageTable = [k.pageTable EXCEPT ![p] =
                          [k.pageTable[p] EXCEPT ![vp] =
                             [k.pageTable[p][vp] EXCEPT !.physicalPage = frame]]]
  BY DEF Given, KernelInv, Shape, Fields
<1>2. \A q \in Process :
        /\ DOMAIN g.pageTable[q] = DOMAIN k.pageTable[q]
        /\ \A w \in DOMAIN k.pageTable[q] :
             /\ DOMAIN g.pageTable[q][w] = DOMAIN k.pageTable[q][w]
             /\ FrameOf(g, q, w) = IF q = p /\ w = vp THEN frame ELSE FrameOf(k, q, w)
  BY <1>1 DEF KernelInv, Shape, FrameOf
<1> HIDE DEF g
<1>3. Shape(g)
  BY <1>1, <1>2 DEF KernelInv, Shape
<1>4. Apart(g)
  BY <1>1, <1>2 DEF KernelInv, Shape, Apart
<1> QED
  BY <1>3, <1>4 DEF KernelInv, g

\* A victim that passes StoreBest's tests loses its frame, which is then in no
\* entry (Evicted).
LEMMA EvictedKeeps ==
  ASSUME NEW k, NEW p \in Process, NEW s, KernelInv(k), s.best \in DOMAIN k.pageTable[p],
         FrameOf(k, p, s.best) \in Frame
  PROVE  LET e == Evicted(k, p, s)
         IN  /\ KernelInv(e)
             /\ DOMAIN e.pageTable[p] = DOMAIN k.pageTable[p]
             /\ \A q \in Process : \A w \in DOMAIN e.pageTable[q] :
                  FrameOf(e, q, w) # FrameOf(k, p, s.best)
<1> DEFINE e == Evicted(k, p, s)
           frame == FrameOf(k, p, s.best)
<1>0. NoFrame \notin Frame
  BY DEF NoFrame, Frame
<1>1. /\ DOMAIN e = Fields
      /\ e.available_pages = [k.available_pages EXCEPT ![frame] = 0]
      /\ e.pageTable = [k.pageTable EXCEPT ![p] =
                          [vp \in DOMAIN k.pageTable[p] |->
                             Swept(k.pageTable[p][vp], s.use[vp],
                                   IF vp = s.best THEN NoFrame ELSE FrameOf(k, p, vp))]]
  BY DEF Evicted, KernelInv, Shape, Fields, FrameOf
<1>2. \A q \in Process :
        /\ DOMAIN e.pageTable[q] = DOMAIN k.pageTable[q]
        /\ \A w \in DOMAIN k.pageTable[q] :
             /\ DOMAIN e.pageTable[q][w] = DOMAIN k.pageTable[q][w]
             /\ FrameOf(e, q, w) = IF q = p /\ w = s.best THEN NoFrame ELSE FrameOf(k, q, w)
  <2>1. \A entry, use, f :
          /\ DOMAIN Swept(entry, use, f) = DOMAIN entry
          /\ "physicalPage" \in DOMAIN entry => Swept(entry, use, f).physicalPage = f
    BY DEF Swept
  <2> SUFFICES ASSUME NEW q \in Process
               PROVE  /\ DOMAIN e.pageTable[q] = DOMAIN k.pageTable[q]
                      /\ \A w \in DOMAIN k.pageTable[q] :
                           /\ DOMAIN e.pageTable[q][w] = DOMAIN k.pageTable[q][w]
                           /\ FrameOf(e, q, w) =
                                IF q = p /\ w = s.best THEN NoFrame ELSE FrameOf(k, q, w)
    OBVIOUS
  <2> HIDE DEF e
  <2>2. CASE q # p
    BY <1>1, <2>2 DEF KernelInv, Shape, FrameOf
  <2>3. CASE q = p
    <3>1. e.pageTable[q] = [vp \in DOMAIN k.pageTable[p] |->
                              Swept(k.pageTable[p][vp], s.use[vp],
                                   IF vp = s.best THEN NoFrame ELSE FrameOf(k, p, vp))]
      BY <1>1, <2>3 DEF KernelInv, Shape
    <3>2. \A w \in DOMAIN k.pageTable[p] : "physicalPage" \in DOMAIN k.pageTable[p][w]
      BY DEF KernelInv, Shape
    <3> QED
      BY <2>1, <2>3, <3>1, <3>2 DEF FrameOf
  <2> QED
    BY <2>2, <2>3
<1> HIDE DEF e, frame
<1>3. Shape(e)
  <2>1. DOMAIN e = Fields /\ DOMAIN e.available_pages = Frame /\ DOMAIN e.pageTable = Process
    BY <1>1 DEF KernelInv, Shape
  <2> QED
    BY <1>2, <2>1 DEF KernelInv, Shape
<1>4. \A q \in Process : \A w \in DOMAIN e.pageTable[q] : FrameOf(e, q, w) # frame
  BY <1>0, <1>2 DEF KernelInv, Apart, frame
<1>5. Apart(e)
  <2>1. \A f \in Frame \ {frame} : e.available_pages[f] = k.available_pages[f]
    BY <1>1 DEF KernelInv, Shape
  <2> QED
    BY <1>0, <1>2, <1>4, <2>1 DEF KernelInv, Apart
<1> QED
  BY <1>2, <1>3, <1>4, <1>5 DEF KernelInv, e, frame

\* load_page up to bzero (Claim): a free frame is in no page table, the frame of
\* a load that failed is in this entry only, and a victim's was taken away.
LEMMA ClaimKeeps ==
  ASSUME NEW k, NEW p \in Process, NEW vp \in DOMAIN k.pageTable[p], KernelInv(k)
  PROVE  LET c == Claim(k, p, vp) IN KernelInv(c) /\ DOMAIN c.pageTable[p] = DOMAIN k.pageTable[p]
<1> DEFINE c == Claim(k, p, vp)
           first == CHOOSE f \in Free(k) : \A g \in Free(k) : f <= g
           s == Sweep(k, p)
           r == StorePage(k, p)
<1>1. \A frame : DOMAIN Given(k, p, vp, frame).pageTable[p] = DOMAIN k.pageTable[p]
  BY DEF Given, KernelInv, Shape, Fields
<1>2. CASE Free(k) # {}
  <2>1. first \in Free(k)
    <3>1. Free(k) \in SUBSET Nat
      BY TranslateAssumption DEF Free, Frame
    <3> DEFINE less == {ss \in Nat \X Nat : ss[1] < ss[2]}
    <3>2. IsWellFoundedOn(less, Nat)
      BY NatLessThanWellFounded, Zenon DEF OpToRel
    <3>3. PICK f \in Free(k) : \A g \in Free(k) : <<g, f>> \notin less
      <4> HIDE DEF less
      <4> QED
        BY <1>2, <3>1, <3>2, WFMin
    <3>4. \A g \in Free(k) : f <= g
      <4>1. \A i, j \in Nat : <<i, j>> \notin less => j <= i
        OBVIOUS
      <4> HIDE DEF less
      <4> QED
        BY <3>1, <3>3, <4>1
    <3> QED
      BY <3>4
  <2> HIDE DEF first
  <2>2. first \in Frame /\ k.available_pages[first] = 0
    BY <2>1 DEF Free
  <2>3. KernelInv(Given(k, p, vp, first))
    BY <2>2, GivenKeeps DEF KernelInv, Apart
  <2>4. c = Given(k, p, vp, first)
    BY <1>2 DEF Claim, first
  <2> QED
    BY <1>1, <2>3, <2>4
<1>3. CASE Free(k) = {} /\ FrameOf(k, p, vp) # NoFrame
  <2>1. FrameOf(k, p, vp) \in Frame
    BY <1>3 DEF KernelInv, Shape
  <2>2. KernelInv(Given(k, p, vp, FrameOf(k, p, vp)))
    BY <2>1, GivenKeeps DEF KernelInv, Apart
  <2>3. c = Given(k, p, vp, FrameOf(k, p, vp))
    BY <1>3 DEF Claim, FrameOf
  <2> QED
    BY <1>1, <2>2, <2>3
<1>4. CASE Free(k) = {} /\ FrameOf(k, p, vp) = NoFrame
  <2> DEFINE e == Evicted(k, p, s)
             frame == FrameOf(k, p, s.best)
             fits == /\ ~Stray(k, k.pageTable[p], s.best) /\ ~k.pageTable[p][s.best].dirty
                     /\ ~Shared(k, k.pageTable[p][s.best]) /\ ~k.pageTable[p][s.best].readOnly
  <2>1. c = IF r.k.lost THEN r.k
            ELSE [Given(r.k, p, vp, r.frame) EXCEPT !.pageTable[p][vp].use = TRUE]
    BY <1>4 DEF Claim, Taken, FrameOf
  <2> HIDE DEF s
  <2>2. CASE ~fits
    <3>1. r.k = Lost(k) /\ r.k.lost
      BY <2>2 DEF StorePage, StoreBest, s, Lost, KernelInv, Shape, Fields
    <3>2. c = Lost(k)
      BY <2>1, <3>1
    <3>3. SameFrames(k, Lost(k))
      BY DEF SameFrames, Lost, KernelInv, Shape, Fields, FrameOf
    <3> QED
      BY <3>2, <3>3, SameFramesKeep DEF SameFrames
  <2>3. CASE fits
    <3>1. s.best \in DOMAIN k.pageTable[p] /\ frame \in Frame
      BY <2>3 DEF Stray, FrameOf, KernelInv, Shape
    <3>2. r.k = e /\ r.frame = frame
      BY <2>3 DEF StorePage, StoreBest, s, FrameOf
    <3> HIDE DEF e, frame, r
    <3>3. /\ KernelInv(e)
          /\ DOMAIN e.pageTable[p] = DOMAIN k.pageTable[p]
          /\ \A q \in Process : \A w \in DOMAIN e.pageTable[q] : FrameOf(e, q, w) # frame
      BY <3>1, EvictedKeeps DEF e, frame
    <3> DEFINE g == Given(e, p, vp, frame)
               u == [g EXCEPT !.pageTable[p][vp].use = TRUE]
    <3>4. KernelInv(g) /\ DOMAIN g.pageTable[p] = DOMAIN k.pageTable[p]
      <4>1. KernelInv(g)
        BY <3>1, <3>3, GivenKeeps
      <4> QED
        BY <3>3, <4>1 DEF Given, KernelInv, Shape, Fields
    <3> HIDE DEF g
    <3>5. SameFrames(g, u)
      BY <3>4 DEF SameFrames, KernelInv, Shape, Fields, FrameOf
    <3>6. KernelInv(u) /\ DOMAIN u.pageTable[p] = DOMAIN k.pageTable[p]
      BY <3>4, <3>5, SameFramesKeep DEF SameFrames
    <3>7. c = IF e.lost THEN e ELSE u
      BY <2>1, <3>2 DEF g
    <3> QED
      BY <3>3, <3>6, <3>7
  <2> QED
    BY <2>2, <2>3
<1> QED
  BY <1>2, <1>3, <1>4

\* The rest of load_page moves no frame (Fill).
LEMMA FillKeeps ==
  ASSUME NEW k, NEW p \in Process, NEW vp, KernelInv(k)
  PROVE  LET f == Fill(k, p, vp) IN SameFrames(k, f) /\ KernelInv(f)
<1> DEFINE f == Fill(k, p, vp)
<1>1. \A mem : /\ SameFrames(k, [k EXCEPT !.pageTable[p][vp].valid = TRUE])
               /\ SameFrames(k, [k EXCEPT !.pageTable[p][vp].valid = TRUE, !.mainMemory = mem])
               /\ SameFrames(k, k)
  BY DEF SameFrames, KernelInv, Shape, Fields, FrameOf
<1>2. \/ f = [k EXCEPT !.pageTable[p][vp].valid = TRUE]
      \/ f = k
      \/ \E mem : f = [k EXCEPT !.pageTable[p][vp].valid = TRUE, !.mainMemory = mem]
  BY Zenon DEF Fill
<1>3. SameFrames(k, f)
  BY <1>1, <1>2, Zenon
<1> QED
  BY <1>3, SameFramesKeep, Zenon

\* A turn of the loops in AddrSpace::read and AddrSpace::write (Present, Poked).
LEMMA PresentKeeps ==
  ASSUME NEW k, NEW p \in Process, NEW vp \in DOMAIN k.pageTable[p], KernelInv(k)
  PROVE  KernelInv(Present(k, p, vp))
<1>1. SameFrames(k, Lost(k))
  BY DEF SameFrames, Lost, KernelInv, Shape, Fields, FrameOf
<1>2. KernelInv(Lost(k))
  BY <1>1, SameFramesKeep
<1>3. KernelInv(Claim(k, p, vp))
  BY ClaimKeeps
<1>4. KernelInv(Fill(Claim(k, p, vp), p, vp))
  BY <1>3, FillKeeps
<1> QED
  BY <1>2, <1>3, <1>4, Zenon DEF Present, Filled

LEMMA PokedKeeps ==
  ASSUME NEW k, NEW p \in Process, NEW va, NEW b, InSpace(k, p, va), KernelInv(k)
  PROVE  KernelInv(Poked(k, p, va, b))
<1> DEFINE c == Present(k, p, va \div PageSize)
           a == PhysAddr(c.pageTable[p], va)
<1>1. KernelInv(c)
  BY PresentKeeps DEF InSpace
<1> HIDE DEF c, a
<1>2. SameFrames(c, [c EXCEPT !.mainMemory[a] = b, !.seen[p][va] = b])
  BY <1>1 DEF SameFrames, KernelInv, Shape, Fields, FrameOf
<1>3. KernelInv([c EXCEPT !.mainMemory[a] = b, !.seen[p][va] = b])
  BY <1>1, <1>2, SameFramesKeep
<1> QED
  BY <1>1, <1>3 DEF Poked, Stored, c, a

\* An access by the machine moves no frame (Touched).
LEMMA TouchedKeeps ==
  ASSUME NEW k, NEW p \in Process, NEW va, NEW writing \in BOOLEAN, NEW mem, NEW seen, KernelInv(k)
  PROVE  /\ KernelInv([k EXCEPT !.pageTable[p] = Touched(@, va, writing)])
         /\ KernelInv([k EXCEPT !.pageTable[p] = Touched(@, va, writing),
                               !.mainMemory = mem, !.seen = seen])
<1> DEFINE t == k.pageTable[p]
           u == Touched(t, va, writing)
           new1 == [k EXCEPT !.pageTable[p] = u]
           new2 == [k EXCEPT !.pageTable[p] = u, !.mainMemory = mem, !.seen = seen]
<1>1. /\ DOMAIN u = DOMAIN t
      /\ \A vp \in DOMAIN t : /\ DOMAIN u[vp] = DOMAIN t[vp]
                             /\ u[vp].physicalPage = t[vp].physicalPage
  BY DEF Touched
<1> HIDE DEF u
<1>2. SameFrames(k, new1) /\ SameFrames(k, new2)
  BY <1>1 DEF SameFrames, KernelInv, Shape, Fields, FrameOf
<1>3. KernelInv(new1) /\ KernelInv(new2)
  BY <1>2, SameFramesKeep
<1> QED
  BY <1>3 DEF u

\* An address space that holds no frame comes in place of that of p: a new one
\* (Created), or none (Ends).  The frames that p had stay taken.
LEMMA EmptyTableKeeps ==
  ASSUME NEW k, NEW p \in Process, NEW table, NEW new, KernelInv(k), DOMAIN new = Fields,
         new.available_pages = k.available_pages,
         new.pageTable = [k.pageTable EXCEPT ![p] = table],
         \A vp \in DOMAIN table : /\ "physicalPage" \in DOMAIN table[vp]
                                 /\ table[vp].physicalPage = NoFrame
  PROVE  KernelInv(new)
<1>1. NoFrame \notin Frame
  BY DEF NoFrame, Frame
<1>2. new.pageTable[p] = table /\ \A q \in Process \ {p} : new.pageTable[q] = k.pageTable[q]
  BY DEF KernelInv, Shape
<1>3. Shape(new)
  BY <1>2 DEF KernelInv, Shape, FrameOf
<1>4. Apart(new)
  BY <1>1, <1>2 DEF KernelInv, Shape, Apart, FrameOf
<1> QED
  BY <1>3, <1>4 DEF KernelInv

LEMMA InitHolds == Init => FramesApart
BY DEF Init, FramesApart, KernelInv, Shape, Apart, Fields, NoTable, FrameOf

LEMMA StepKeeps == FramesApart /\ [Next]_vars => FramesApart'
<1> SUFFICES ASSUME KernelInv(kernel), [Next]_vars PROVE KernelInv(kernel')
  BY DEF FramesApart
<1>1. ASSUME NEW p \in Process, NEW f \in Program, NewSpace(p, f) PROVE KernelInv(kernel')
  <2> DEFINE new == Created(kernel, p, f, f)
             table == [vp \in 0..(NumPages(noff[f]) - 1) |->
                         [virtualPage |-> vp, physicalPage |-> NoFrame, valid |-> FALSE,
                          use |-> FALSE, dirty |-> FALSE, readOnly |-> FALSE]]
  <2>1. /\ DOMAIN new = Fields
        /\ new.available_pages = kernel.available_pages
        /\ new.pageTable = [kernel.pageTable EXCEPT ![p] = table]
    BY DEF Created, KernelInv, Shape, Fields
  <2>2. \A vp \in DOMAIN table : /\ "physicalPage" \in DOMAIN table[vp]
                                /\ table[vp].physicalPage = NoFrame
    OBVIOUS
  <2> HIDE DEF new, table
  <2>3. KernelInv(new)
    BY <2>1, <2>2, EmptyTableKeeps
  <2> QED
    BY <1>1, <2>3 DEF NewSpace, new
<1>2. ASSUME NEW p \in Process, NEW va \in Access, UserReads(p, va) PROVE KernelInv(kernel')
  BY <1>2, TouchedKeeps DEF UserReads
<1>3. ASSUME NEW p \in Process, NEW va \in Access, NEW b \in Written, UserWrites(p, va, b)
      PROVE  KernelInv(kernel')
  <2> DEFINE mem == [kernel.mainMemory EXCEPT ![PhysAddr(kernel.pageTable[p], va)] = b]
             seen == [kernel.seen EXCEPT ![p] = [kernel.seen[p] EXCEPT ![va] = b]]
  <2>1. kernel' = [kernel EXCEPT !.pageTable[p] = Touched(@, va, TRUE),
                                 !.mainMemory = mem, !.seen = seen]
    BY <1>3 DEF UserWrites
  <2> QED
    BY <2>1, TouchedKeeps
<1>4. ASSUME NEW p \in Process, NEW va \in Access, PageFault(p, va) PROVE KernelInv(kernel')
  <2>1. va \div PageSize \in DOMAIN kernel.pageTable[p]
    BY <1>4 DEF PageFault, Lookup
  <2> QED
    BY <1>4, <2>1, ClaimKeeps DEF PageFault
<1>5. ASSUME NEW p \in Process, PageLoaded(p) PROVE KernelInv(kernel')
  BY <1>5, FillKeeps DEF PageLoaded
<1>6. ASSUME NEW p \in Process, NEW va \in Access, KernelReads(p, va) PROVE KernelInv(kernel')
  BY <1>6, PresentKeeps DEF KernelReads, InSpace
<1>7. ASSUME NEW p \in Process, NEW va \in Access, NEW b \in Written, KernelWrites(p, va, b)
      PROVE  KernelInv(kernel')
  BY <1>7, PokedKeeps DEF KernelWrites
<1>8. ASSUME NEW p \in Process, Ends(p) PROVE KernelInv(kernel')
  <2> DEFINE new == [kernel EXCEPT !.pageTable[p] = NoTable]
  <2>1. /\ DOMAIN new = Fields
        /\ new.available_pages = kernel.available_pages
        /\ new.pageTable = [kernel.pageTable EXCEPT ![p] = NoTable]
    BY DEF KernelInv, Shape, Fields
  <2>2. DOMAIN NoTable = {}
    BY DEF NoTable
  <2> HIDE DEF new
  <2>3. KernelInv(new)
    BY <2>1, <2>2, EmptyTableKeeps
  <2> QED
    BY <1>8, <2>3 DEF Ends, new
<1>9. CASE UNCHANGED vars
  BY <1>9 DEF vars
<1> QED
  BY <1>1, <1>2, <1>3, <1>4, <1>5, <1>6, <1>7, <1>8, <1>9 DEF Next

\* available_pages keeps its word for any number of processes, frames and pages:
\* whatever the programs access, at whatever point of load_page other processes
\* get the processor, and whichever victims try_store_page chooses, no frame is in
\* two page table entries, and none that is in an entry is called available.
THEOREM FrameExclusiveTheorem == Spec => []FrameExclusive
<1>1. FramesApart => FrameExclusive
  <2> SUFFICES ASSUME KernelInv(kernel), NEW f \in Frame
               PROVE  /\ \A e1, e2 \in Holders(f) : e1 = e2
                      /\ kernel.available_pages[f] = 0 => Holders(f) = {}
    BY DEF FramesApart, FrameExclusive
  <2>1. \A e \in Holders(f) : /\ e = <<e[1], e[2]>>
                              /\ e[1] \in Process /\ e[2] \in DOMAIN kernel.pageTable[e[1]]
                              /\ FrameOf(kernel, e[1], e[2]) = f
    BY DEF Holders, FrameOf
  <2> QED
    BY <2>1 DEF KernelInv, Apart
<1> QED
  BY <1>1, InitHolds, StepKeeps, PTL DEF Spec
=============================================================================
