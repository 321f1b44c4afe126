-------------------------------- MODULE List --------------------------------
(***************************************************************************)
(* Singly linked lists (threads/list.cc) as cells and pointers: the cells  *)
(* of the heap, first, and last.  The pointer 0 is NULL.                   *)
(***************************************************************************)
EXTENDS Naturals, Sequences, FiniteSets

NewList == [cells |-> <<>>, first |-> 0, last |-> 0]

IsEmpty(l) == l.first = 0

\* new ListElement: some cell that is not in use.
NewCell(l) == CHOOSE c \in 1..(Cardinality(DOMAIN l.cells) + 1) : c \notin DOMAIN l.cells

Allocated(l, item, key, next) ==
  [c \in DOMAIN l.cells \cup {NewCell(l)} |->
     IF c = NewCell(l) THEN [item |-> item, key |-> key, next |-> next] ELSE l.cells[c]]

Alone(l, item, key) ==
  [cells |-> Allocated(l, item, key, 0), first |-> NewCell(l), last |-> NewCell(l)]

\* The element goes behind the cell at.
After(l, at, item, key) ==
  LET c == NewCell(l)
  IN  [l EXCEPT !.cells = [Allocated(l, item, key, l.cells[at].next) EXCEPT ![at].next = c],
                !.last = IF at = l.last THEN c ELSE @]

AppendItem(l, item) ==
  IF IsEmpty(l) THEN Alone(l, item, 0) ELSE After(l, l.last, item, 0)

InFront(l, item, key) ==
  [l EXCEPT !.cells = Allocated(l, item, key, l.first), !.first = NewCell(l)]

Prepend(l, item) == IF IsEmpty(l) THEN Alone(l, item, 0) ELSE InFront(l, item, 0)

\* Where the loop of SortedInsert stops: the first cell from ptr on that is
\* followed by a greater key, or by nothing.
Place(l, sortKey) ==
  LET at[n \in 0..Cardinality(DOMAIN l.cells)] ==
        IF n = 0 THEN l.first
        ELSE LET ptr == at[n - 1] IN
             IF l.cells[ptr].next = 0 \/ sortKey < l.cells[l.cells[ptr].next].key
             THEN ptr ELSE l.cells[ptr].next
  IN  at[Cardinality(DOMAIN l.cells)]

SortedInsert(l, item, sortKey) ==
  IF IsEmpty(l) THEN Alone(l, item, sortKey)
  ELSE IF sortKey < l.cells[l.first].key THEN InFront(l, item, sortKey)
  ELSE After(l, Place(l, sortKey), item, sortKey)

\* Mutant of SortedRemove: last is left alone when the list becomes empty.
SortedRemove_KeepsLast(l) ==
  [l EXCEPT !.cells = [c \in DOMAIN @ \ {l.first} |-> @[c]],
            !.first = l.cells[l.first].next]

\* The list without its first element, which is deleted.
SortedRemove(l) ==
  [cells |-> [c \in DOMAIN l.cells \ {l.first} |-> l.cells[c]],
   first |-> IF l.first = l.last THEN 0 ELSE l.cells[l.first].next,
   last |-> IF l.first = l.last THEN 0 ELSE l.last]

-----------------------------------------------------------------------------
\* The cells from first on, and that they are all there are, ending at last.
Chain(l) ==
  LET n == Cardinality(DOMAIN l.cells)
      at[i \in 1..n] == IF i = 1 THEN l.first ELSE IF at[i - 1] \in DOMAIN l.cells THEN l.cells[at[i - 1]].next ELSE 0
  IN  [i \in 1..n |-> at[i]]

Represents(l, items) ==
  LET chain == Chain(l)
  IN  /\ Len(chain) = Len(items)
      /\ {chain[i] : i \in DOMAIN chain} = DOMAIN l.cells
      /\ \A i \in DOMAIN items : l.cells[chain[i]].item = items[i]
      /\ IF items = <<>> THEN l.first = 0 /\ l.last = 0
         ELSE l.last = chain[Len(chain)] /\ l.cells[l.last].next = 0
=============================================================================
