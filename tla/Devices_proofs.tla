--------------------------- MODULE Devices_proofs ---------------------------
(***************************************************************************)
(* Proofs about the devices that deliver data, each on its own: the        *)
(* network, and the console that threads share.                            *)
(***************************************************************************)
EXTENDS SynchConsole, Network, FiniteSetTheorems, SequenceTheorems, TLAPS

-----------------------------------------------------------------------------
(* Sequences.                                                              *)

LEMMA HeadFirst ==
  ASSUME NEW S, NEW s \in Seq(S), s # <<>>
  PROVE  /\ Head(s) \in S /\ Tail(s) \in Seq(S)
         /\ s = <<Head(s)>> \o Tail(s)
<1>1. Head(s) \in S /\ Tail(s) \in Seq(S) /\ Len(Tail(s)) = Len(s) - 1
  BY HeadTailProperties
<1>2. \A i \in 1..Len(Tail(s)) : Tail(s)[i] = s[i + 1]
  BY HeadTailProperties
<1>3. <<Head(s)>> \in Seq(S) /\ Len(<<Head(s)>>) = 1 /\ <<Head(s)>>[1] = s[1]
  BY <1>1
<1>4. QED
  BY <1>1, <1>2, <1>3, SeqEqual, ConcatProperties

\* Moving the first element of the second sequence to the end of the first.
LEMMA HeadMoves ==
  ASSUME NEW S, NEW s \in Seq(S), NEW u \in Seq(S), u # <<>>
  PROVE  (s \o <<Head(u)>>) \o Tail(u) = s \o u
<1>1. Head(u) \in S /\ Tail(u) \in Seq(S) /\ u = <<Head(u)>> \o Tail(u)
  BY HeadFirst
<1>2. <<Head(u)>> \in Seq(S)
  BY <1>1
<1>3. QED
  BY <1>1, <1>2, ConcatAssociative

LEMMA AppendMoves ==
  ASSUME NEW S, NEW s \in Seq(S), NEW u \in Seq(S), NEW e \in S
  PROVE  s \o Append(u, e) = Append(s \o u, e)
<1>1. <<e>> \in Seq(S) /\ s \o u \in Seq(S)
  OBVIOUS
<1>2. Append(u, e) = u \o <<e>> /\ Append(s \o u, e) = (s \o u) \o <<e>>
  BY <1>1, AppendIsConcat
<1>3. QED
  BY <1>1, <1>2, ConcatAssociative

-----------------------------------------------------------------------------
(* The network.                                                            *)

NetworkSpec == NetworkInit /\ [][NetworkNext]_networkVars

Packet == [from : Node, to : Node, length : Nat \ {0}]

NetworkTypeOK ==
  /\ up \in SUBSET Node
  /\ socket \in [Node -> Seq(Packet)]
  /\ wire \in [Node -> Seq(Packet)]
  /\ received \in [Node -> Seq(Packet)]
  /\ inHdr \in [Node -> Packet \cup {Nothing}]
  /\ sending \in [Node -> Nat]
  /\ notified \in [Node -> Nat]
  /\ sent \in Nat

NetworkInv == NetworkTypeOK /\ DeliveredInOrder

LEMMA NetworkInitInv == NetworkInit => NetworkInv
<1> SUFFICES ASSUME NetworkInit
             PROVE  NetworkInv
  OBVIOUS
<1>1. NetworkTypeOK
  BY DEF NetworkInit, NetworkTypeOK
<1>2. DeliveredInOrder
  <2> SUFFICES ASSUME NEW n \in Node
               PROVE  /\ received[n] \o Buffered(n) \o socket[n] = wire[n]
                      /\ \A i \in DOMAIN wire[n] : wire[n][i].to = n
                      /\ notified[n] = Len(received[n] \o Buffered(n))
    BY DEF DeliveredInOrder
  <2>1. /\ received[n] = <<>> /\ socket[n] = <<>> /\ wire[n] = <<>> /\ notified[n] = 0
        /\ inHdr[n] = Nothing
    BY DEF NetworkInit
  <2>2. Buffered(n) = <<>>
    BY <2>1 DEF Buffered, Nothing
  <2>3. <<>> \o <<>> = <<>> /\ Len(<<>>) = 0
    BY ConcatEmptySeq, EmptySeq
  <2>4. QED
    BY <2>1, <2>2, <2>3
<1>3. QED
  BY <1>1, <1>2 DEF NetworkInv

\* What is buffered is a sequence of at most one packet.
LEMMA BufferedIs ==
  ASSUME NetworkTypeOK, NEW n \in Node
  PROVE  /\ Buffered(n) \in Seq(Packet)
         /\ inHdr[n].length = 0 => Buffered(n) = <<>>
         /\ inHdr[n].length # 0 => inHdr[n] \in Packet /\ Buffered(n) = <<inHdr[n]>>
<1>1. inHdr[n] \in Packet \/ inHdr[n] = [length |-> 0]
  BY DEF NetworkTypeOK, Nothing
<1>2. inHdr[n] \in Packet => inHdr[n].length # 0
  BY DEF Packet
<1>3. CASE inHdr[n].length = 0
  BY <1>3 DEF Buffered
<1>4. CASE inHdr[n].length # 0
  <2>1. inHdr[n] \in Packet
    BY <1>1, <1>4
  <2>2. QED
    BY <1>4, <2>1 DEF Buffered
<1>5. QED
  BY <1>3, <1>4

LEMMA SendInv ==
  ASSUME NetworkInv, NEW n \in Node, NEW to \in Node, Send(n, to)
  PROVE  NetworkInv'
<1> USE DEF NetworkInv
<1> DEFINE hdr == [from |-> n, to |-> to, length |-> sent + 1]
<1>1. hdr \in Packet
  BY DEF NetworkTypeOK, Packet
<1>2. sent' = sent + 1 /\ inHdr' = inHdr /\ notified' = notified /\ received' = received
      /\ sending' = [sending EXCEPT ![n] = @ + 1] /\ up' \in SUBSET up
  BY DEF Send, SendToSocket
<1>3. \/ UNCHANGED <<socket, wire>>
      \/ /\ socket' = [socket EXCEPT ![to] = Append(@, hdr)]
         /\ wire' = [wire EXCEPT ![to] = Append(@, hdr)]
  BY <1>2 DEF Send, SendToSocket
<1>4. NetworkTypeOK'
  <2>1. CASE UNCHANGED <<socket, wire>>
    BY <1>2, <2>1 DEF NetworkTypeOK
  <2>2. CASE /\ socket' = [socket EXCEPT ![to] = Append(@, hdr)]
             /\ wire' = [wire EXCEPT ![to] = Append(@, hdr)]
    <3>1. Append(socket[to], hdr) \in Seq(Packet) /\ Append(wire[to], hdr) \in Seq(Packet)
      BY <1>1, AppendProperties DEF NetworkTypeOK
    <3> HIDE DEF hdr
    <3>2. socket' \in [Node -> Seq(Packet)] /\ wire' \in [Node -> Seq(Packet)]
      BY <2>2, <3>1, Zenon DEF NetworkTypeOK
    <3>3. sending' \in [Node -> Nat] /\ sent' \in Nat
      BY <1>2 DEF NetworkTypeOK
    <3>4. QED
      BY <1>2, <3>2, <3>3, Zenon DEF NetworkTypeOK
  <2>3. QED
    BY <1>3, <2>1, <2>2
<1>5. ASSUME NEW m \in Node
      PROVE  /\ received'[m] \o Buffered(m)' \o socket'[m] = wire'[m]
             /\ \A i \in DOMAIN wire'[m] : wire'[m][i].to = m
             /\ notified'[m] = Len(received'[m] \o Buffered(m)')
  <2>1. /\ received[m] \o Buffered(m) \o socket[m] = wire[m]
        /\ \A i \in DOMAIN wire[m] : wire[m][i].to = m
        /\ notified[m] = Len(received[m] \o Buffered(m))
    BY DEF DeliveredInOrder
  <2>2. Buffered(m)' = Buffered(m) /\ received'[m] = received[m] /\ notified'[m] = notified[m]
    BY <1>2 DEF Buffered
  <2>3. CASE UNCHANGED <<socket, wire>> \/ m # to
    <3>1. socket'[m] = socket[m] /\ wire'[m] = wire[m]
      BY <1>3, <2>3 DEF NetworkTypeOK
    <3>2. QED
      BY <2>1, <2>2, <3>1
  <2>4. CASE ~UNCHANGED <<socket, wire>> /\ m = to
    <3>1. socket'[m] = Append(socket[m], hdr) /\ wire'[m] = Append(wire[m], hdr)
      BY <1>3, <2>4 DEF NetworkTypeOK
    <3>2. /\ received[m] \in Seq(Packet) /\ Buffered(m) \in Seq(Packet)
          /\ socket[m] \in Seq(Packet) /\ wire[m] \in Seq(Packet)
      BY BufferedIs DEF NetworkTypeOK
    <3>3. (received[m] \o Buffered(m)) \o Append(socket[m], hdr)
            = Append((received[m] \o Buffered(m)) \o socket[m], hdr)
      <4>1. received[m] \o Buffered(m) \in Seq(Packet)
        BY <3>2, ConcatProperties
      <4>2. \A s, u \in Seq(Packet), e \in Packet : s \o Append(u, e) = Append(s \o u, e)
        BY AppendMoves
      <4> HIDE DEF hdr
      <4>3. QED
        BY <1>1, <3>2, <4>1, <4>2
    <3>4. \A i \in DOMAIN Append(wire[m], hdr) : Append(wire[m], hdr)[i].to = m
      BY <1>1, <2>1, <2>4, <3>2
    <3>5. QED
      BY <2>1, <2>2, <3>1, <3>3, <3>4
  <2>5. QED
    BY <2>3, <2>4
<1>6. QED
  BY <1>4, <1>5 DEF DeliveredInOrder

LEMMA CheckPktAvailInv ==
  ASSUME NetworkInv, NEW n \in Node, CheckPktAvail(n)
  PROVE  NetworkInv'
<1> USE DEF NetworkInv
<1>1. /\ inHdr[n].length = 0 /\ socket[n] # <<>>
      /\ inHdr' = [inHdr EXCEPT ![n] = Head(socket[n])]
      /\ socket' = [socket EXCEPT ![n] = Tail(@)]
      /\ notified' = [notified EXCEPT ![n] = @ + 1]
      /\ sending' = sending /\ wire' = wire /\ received' = received /\ sent' = sent
      /\ up' = up
  BY DEF CheckPktAvail
<1>2. /\ received[n] \in Seq(Packet) /\ socket[n] \in Seq(Packet)
      /\ Head(socket[n]) \in Packet /\ Tail(socket[n]) \in Seq(Packet)
  BY <1>1, HeadFirst DEF NetworkTypeOK
<1>3. NetworkTypeOK'
  BY <1>1, <1>2 DEF NetworkTypeOK
<1>4. ASSUME NEW m \in Node
      PROVE  /\ received'[m] \o Buffered(m)' \o socket'[m] = wire'[m]
             /\ \A i \in DOMAIN wire'[m] : wire'[m][i].to = m
             /\ notified'[m] = Len(received'[m] \o Buffered(m)')
  <2>1. /\ received[m] \o Buffered(m) \o socket[m] = wire[m]
        /\ \A i \in DOMAIN wire[m] : wire[m][i].to = m
        /\ notified[m] = Len(received[m] \o Buffered(m))
    BY DEF DeliveredInOrder
  <2>2. CASE m # n
    BY <1>1, <2>1, <2>2 DEF NetworkTypeOK, Buffered
  <2>3. CASE m = n
    <3>1. Buffered(n) = <<>> /\ Buffered(n)' = <<Head(socket[n])>>
      BY <1>1, <1>2 DEF Buffered, Packet, NetworkTypeOK
    <3>2. received[n] \o Buffered(n) = received[n]
      BY <1>2, <3>1, ConcatEmptySeq
    <3>3. (received[n] \o <<Head(socket[n])>>) \o Tail(socket[n]) = received[n] \o socket[n]
      BY <1>1, <1>2, HeadMoves
    <3>4. Len(received[n] \o <<Head(socket[n])>>) = Len(received[n]) + 1
      BY <1>2
    <3>5. socket'[n] = Tail(socket[n]) /\ notified'[n] = notified[n] + 1
      BY <1>1 DEF NetworkTypeOK
    <3>6. QED
      BY <1>1, <2>1, <2>3, <3>1, <3>2, <3>3, <3>4, <3>5
  <2>4. QED
    BY <2>2, <2>3
<1>5. QED
  BY <1>3, <1>4 DEF DeliveredInOrder

LEMMA ReceiveInv ==
  ASSUME NetworkInv, NEW n \in Node, Receive(n)
  PROVE  NetworkInv'
<1> USE DEF NetworkInv
<1>1. /\ inHdr[n].length # 0
      /\ received' = [received EXCEPT ![n] = Append(@, inHdr[n])]
      /\ inHdr' = [inHdr EXCEPT ![n] = Nothing]
      /\ UNCHANGED <<up, socket, sending, notified, wire, sent>>
  BY DEF Receive
<1>2. received[n] \in Seq(Packet) /\ inHdr[n] \in Packet /\ Buffered(n) = <<inHdr[n]>>
  BY <1>1, BufferedIs DEF NetworkTypeOK
<1>3. Append(received[n], inHdr[n]) = received[n] \o <<inHdr[n]>>
  BY <1>2, AppendIsConcat
<1>4. Append(received[n], inHdr[n]) \in Seq(Packet)
  BY <1>2, AppendProperties
<1>5. NetworkTypeOK'
  BY <1>1, <1>4 DEF NetworkTypeOK
<1>6. ASSUME NEW m \in Node
      PROVE  received'[m] \o Buffered(m)' = received[m] \o Buffered(m)
  <2>1. CASE m # n
    BY <1>1, <2>1 DEF NetworkTypeOK, Buffered
  <2>2. CASE m = n
    <3>1. Buffered(n)' = <<>>
      BY <1>1 DEF Buffered, Nothing, NetworkTypeOK
    <3>2. received'[n] = received[n] \o <<inHdr[n]>>
      BY <1>1, <1>3 DEF NetworkTypeOK
    <3>3. received'[n] \o <<>> = received'[n]
      BY <1>5, ConcatEmptySeq DEF NetworkTypeOK
    <3>4. QED
      BY <1>2, <2>2, <3>1, <3>2, <3>3
  <2>3. QED
    BY <2>1, <2>2
<1>7. QED
  BY <1>1, <1>5, <1>6 DEF DeliveredInOrder

LEMMA NetworkStepInv == NetworkInv /\ [NetworkNext]_networkVars => NetworkInv'
<1> SUFFICES ASSUME NetworkInv, [NetworkNext]_networkVars
             PROVE  NetworkInv'
  OBVIOUS
<1>1. ASSUME NEW n \in Node, SendDone(n)
      PROVE  NetworkInv'
  <2>1. NetworkTypeOK'
    BY <1>1 DEF NetworkInv, NetworkTypeOK, SendDone
  <2>2. DeliveredInOrder'
    BY <1>1 DEF NetworkInv, DeliveredInOrder, Buffered, SendDone
  <2>3. QED
    BY <2>1, <2>2 DEF NetworkInv
<1>2. CASE UNCHANGED networkVars
  BY <1>2 DEF NetworkInv, NetworkTypeOK, DeliveredInOrder, Buffered, networkVars
<1>3. up \subseteq Node
  BY DEF NetworkInv, NetworkTypeOK
<1>4. QED
  BY <1>1, <1>2, <1>3, SendInv, CheckPktAvailInv, ReceiveInv DEF NetworkNext

\* Whatever the sizes, each packet that Send put on the wire reaches the machine it
\* names once and in order, and CheckPktAvail tells the machine once of each.
THEOREM DeliveredInOrderTheorem == NetworkSpec => []DeliveredInOrder
<1>1. NetworkInv => DeliveredInOrder
  BY DEF NetworkInv
<1>2. QED
  BY <1>1, NetworkInitInv, NetworkStepInv, PTL DEF NetworkSpec

-----------------------------------------------------------------------------
(* The console.                                                            *)

ConsoleSpec ==
  CallersInit /\ ConsoleInit /\ [][ConsoleNext]_<<callerVars, consoleVars>>

Char == Chars \cup {EOF}

\* Without EOFs, being the same is transitive.
LEMMA SameTransitive ==
  ASSUME NEW r \in Seq(Char), NEW s \in Seq(Char), NEW u \in Seq(Char),
         SameTypical(r, s), SameTypical(s, u)
  PROVE  SameTypical(r, u)
<1>1. PICK g \in [Typical(r) -> Typical(s)] :
        /\ \A j \in Typical(s) : \E i \in Typical(r) : g[i] = j
        /\ \A i, j \in Typical(r) : i < j => g[i] < g[j]
        /\ \A i \in Typical(r) : s[g[i]] = r[i]
  BY DEF SameTypical
<1>2. PICK f \in [Typical(s) -> Typical(u)] :
        /\ \A j \in Typical(u) : \E i \in Typical(s) : f[i] = j
        /\ \A i, j \in Typical(s) : i < j => f[i] < f[j]
        /\ \A i \in Typical(s) : u[f[i]] = s[i]
  BY DEF SameTypical
<1> DEFINE h == [i \in Typical(r) |-> f[g[i]]]
<1>3. h \in [Typical(r) -> Typical(u)]
  BY <1>1, <1>2
<1>4. \A j \in Typical(u) : \E i \in Typical(r) : h[i] = j
  BY <1>1, <1>2
<1>5. \A i, j \in Typical(r) : i < j => h[i] < h[j]
  BY <1>1, <1>2
<1>6. \A i \in Typical(r) : u[h[i]] = r[i]
  BY <1>1, <1>2
<1> HIDE DEF h
<1>7. QED
  BY <1>3, <1>4, <1>5, <1>6 DEF SameTypical

\* Without EOFs, an EOF more or less makes no difference.
LEMMA SameWithout ==
  ASSUME NEW r \in Seq(Char), NEW s \in Seq(Char), Len(s) = Len(r) + 1,
         NEW p \in 1..Len(s), s[p] = EOF,
         \A i \in 1..Len(r) : r[i] = IF i < p THEN s[i] ELSE s[i + 1]
  PROVE  SameTypical(r, s) /\ SameTypical(s, r)
<1>1. DOMAIN r = 1..Len(r) /\ DOMAIN s = 1..Len(s) /\ Len(r) \in Nat /\ Len(s) \in Nat
  OBVIOUS
<1>2. SameTypical(r, s)
  <2> DEFINE f == [i \in Typical(r) |-> IF i < p THEN i ELSE i + 1]
  <2>1. f \in [Typical(r) -> Typical(s)]
    BY <1>1 DEF Typical
  <2>2. \A j \in Typical(s) : \E i \in Typical(r) : f[i] = j
    <3> SUFFICES ASSUME NEW j \in Typical(s)
                 PROVE  \E i \in Typical(r) : f[i] = j
      OBVIOUS
    <3>1. CASE j < p
      <4>1. j \in Typical(r) /\ f[j] = j
        BY <1>1, <3>1 DEF Typical
      <4>2. QED
        BY <4>1
    <3>2. CASE j > p
      <4>1. j - 1 \in Typical(r) /\ f[j - 1] = j
        BY <1>1, <3>2 DEF Typical
      <4>2. QED
        BY <4>1
    <3>3. j \in 1..Len(s) /\ j # p
      BY <1>1 DEF Typical
    <3>4. QED
      BY <1>1, <3>1, <3>2, <3>3
  <2>3. \A i, j \in Typical(r) : i < j => f[i] < f[j]
    BY <1>1 DEF Typical
  <2>4. \A i \in Typical(r) : s[f[i]] = r[i]
    BY <1>1 DEF Typical
  <2> HIDE DEF f
  <2>5. QED
    BY <2>1, <2>2, <2>3, <2>4 DEF SameTypical
<1>3. SameTypical(s, r)
  <2> DEFINE f == [i \in Typical(s) |-> IF i < p THEN i ELSE i - 1]
  <2>1. f \in [Typical(s) -> Typical(r)]
    <3> SUFFICES ASSUME NEW i \in Typical(s)
                 PROVE  (IF i < p THEN i ELSE i - 1) \in Typical(r)
      OBVIOUS
    <3>1. i \in 1..Len(s) /\ i # p /\ s[i] # EOF
      BY <1>1 DEF Typical
    <3>2. QED
      BY <1>1, <3>1 DEF Typical
  <2>2. \A j \in Typical(r) : \E i \in Typical(s) : f[i] = j
    <3> SUFFICES ASSUME NEW j \in Typical(r)
                 PROVE  \E i \in Typical(s) : f[i] = j
      OBVIOUS
    <3>1. CASE j < p
      <4>1. j \in Typical(s) /\ f[j] = j
        BY <1>1, <3>1 DEF Typical
      <4>2. QED
        BY <4>1
    <3>2. CASE j >= p
      <4>1. j + 1 \in Typical(s) /\ f[j + 1] = j
        BY <1>1, <3>2 DEF Typical
      <4>2. QED
        BY <4>1
    <3>3. j \in 1..Len(r)
      BY <1>1 DEF Typical
    <3>4. QED
      BY <1>1, <3>1, <3>2, <3>3
  <2>3. \A i, j \in Typical(s) : i < j => f[i] < f[j]
    BY <1>1 DEF Typical
  <2>4. \A i \in Typical(s) : r[f[i]] = s[i]
    BY <1>1 DEF Typical
  <2> HIDE DEF f
  <2>5. QED
    BY <2>1, <2>2, <2>3, <2>4 DEF SameTypical
<1>4. QED
  BY <1>2, <1>3

LEMMA SameAppended ==
  ASSUME NEW s \in Seq(Char), NEW u \in Seq(Char), NEW c \in Char, SameTypical(s, u)
  PROVE  SameTypical(Append(s, c), Append(u, c))
<1>1. PICK f \in [Typical(s) -> Typical(u)] :
        /\ \A j \in Typical(u) : \E i \in Typical(s) : f[i] = j
        /\ \A i, j \in Typical(s) : i < j => f[i] < f[j]
        /\ \A i \in Typical(s) : u[f[i]] = s[i]
  BY DEF SameTypical
<1>2. /\ Len(s) \in Nat /\ Len(u) \in Nat
      /\ Typical(s) \subseteq 1..Len(s) /\ Typical(u) \subseteq 1..Len(u)
  BY DEF Typical
<1>3. /\ Append(s, c)[Len(s) + 1] = c /\ Append(u, c)[Len(u) + 1] = c
      /\ \A i \in Typical(s) : Append(s, c)[i] = s[i]
      /\ \A i \in Typical(u) : Append(u, c)[i] = u[i]
  BY <1>2
<1>4. /\ Typical(Append(s, c)) = IF c = EOF THEN Typical(s) ELSE Typical(s) \cup {Len(s) + 1}
      /\ Typical(Append(u, c)) = IF c = EOF THEN Typical(u) ELSE Typical(u) \cup {Len(u) + 1}
  BY DEF Typical
<1> DEFINE sc == Append(s, c)
           uc == Append(u, c)
<1> HIDE DEF sc, uc
<1>5. /\ sc[Len(s) + 1] = c /\ uc[Len(u) + 1] = c
      /\ \A i \in Typical(s) : sc[i] = s[i] /\ uc[f[i]] = s[i]
  BY <1>1, <1>3 DEF sc, uc
<1>6. ASSUME c = EOF
      PROVE  SameTypical(sc, uc)
  <2>1. Typical(sc) = Typical(s) /\ Typical(uc) = Typical(u)
    BY <1>4, <1>6 DEF sc, uc
  <2>2. f \in [Typical(sc) -> Typical(uc)] /\ \A i \in Typical(sc) : uc[f[i]] = sc[i]
    BY <1>5, <2>1
  <2>3. /\ \A j \in Typical(uc) : \E i \in Typical(sc) : f[i] = j
        /\ \A i, j \in Typical(sc) : i < j => f[i] < f[j]
    BY <1>1, <2>1, Zenon
  <2>4. QED
    BY <2>2, <2>3, Zenon DEF SameTypical
<1>7. ASSUME c # EOF
      PROVE  SameTypical(sc, uc)
  <2> DEFINE S == Typical(s) \cup {Len(s) + 1}
             U == Typical(u) \cup {Len(u) + 1}
             g == [i \in S |-> IF i = Len(s) + 1 THEN Len(u) + 1 ELSE f[i]]
  <2>1. Typical(sc) = S /\ Typical(uc) = U
    BY <1>4, <1>7 DEF sc, uc
  <2>2. g \in [S -> U]
    OBVIOUS
  <2>3. /\ g[Len(s) + 1] = Len(u) + 1
        /\ \A i \in Typical(s) : g[i] = f[i] /\ i # Len(s) + 1 /\ i < Len(s) + 1 /\ f[i] < Len(u) + 1
    BY <1>2
  <2> HIDE DEF g
  <2>4. \A j \in U : \E i \in S : g[i] = j
    BY <1>1, <2>3
  <2>5. \A i, j \in S : i < j => g[i] < g[j]
    BY <1>1, <1>2, <2>3
  <2>6. \A i \in S : uc[g[i]] = sc[i]
    BY <1>5, <2>3
  <2> HIDE DEF S, U
  <2>7. QED
    BY <2>1, <2>2, <2>4, <2>5, <2>6 DEF SameTypical
<1>8. QED
  BY <1>6, <1>7 DEF sc, uc

Holding == {"get P", "get", "put", "put P", "unlock"}

ConsoleTypeOK ==
  /\ pc \in [Thread -> {"idle", "get lock", "put lock"} \cup Holding]
  /\ inside \in [Lock -> SUBSET Thread]
  /\ keyboard \in Seq(Char) /\ typed \in Seq(Char) /\ got \in Seq(Char)
  /\ incoming \in Char
  /\ putBusy \in BOOLEAN
  /\ SynchReadAvail \in Nat /\ SynchWriteDone \in Nat

\* The one lock: who is past Acquire holds it, and nobody else does.
OneCaller ==
  /\ \A t \in Thread : t \in inside[ConsoleLock] <=> pc[t] \in Holding
  /\ \A t, u \in inside[ConsoleLock] : t = u

\* Exactly while a PutChar waits for its write, either the interrupt is to come
\* or the semaphore has been signalled.
WriteSignalled ==
  /\ ~failed
  /\ putBusy => SynchWriteDone = 0
  /\ SynchWriteDone \in {0, 1}
  /\ (putBusy \/ SynchWriteDone = 1) <=> (\E t \in Thread : pc[t] = "put P")

ConsoleInv == ConsoleTypeOK /\ OneCaller /\ WriteSignalled /\ CharsDelivered

LEMMA ConsoleInitInv == CallersInit /\ ConsoleInit => ConsoleInv
<1> SUFFICES ASSUME CallersInit, ConsoleInit
             PROVE  ConsoleInv
  OBVIOUS
<1> USE DEF CallersInit, ConsoleInit, MonitorInit
<1>1. ConsoleTypeOK
  <2>1. keyboard \in Seq(Char) /\ typed \in Seq(Char) /\ got \in Seq(Char) /\ incoming \in Char
    BY DEF Char
  <2>2. pc \in [Thread -> {"idle", "get lock", "put lock"} \cup Holding]
    OBVIOUS
  <2>3. inside \in [Lock -> SUBSET Thread]
    OBVIOUS
  <2>4. putBusy \in BOOLEAN /\ SynchReadAvail \in Nat /\ SynchWriteDone \in Nat
    OBVIOUS
  <2>5. QED
    BY <2>1, <2>2, <2>3, <2>4 DEF ConsoleTypeOK
<1>2. OneCaller
  BY ConsoleAssumption DEF OneCaller, Holding
<1>3. WriteSignalled
  BY DEF WriteSignalled
<1>4. CharsDelivered
  <2>1. /\ got \o <<incoming>> \o keyboard = <<EOF>>
        /\ Len(keyboard) = 0 /\ Len(got) = 0 /\ Len(typed) = 0
    BY ConcatEmptySeq, EmptySeq
  <2>2. SameTypical(<<EOF>>, <<>>)
    <3>1. <<EOF>> \in Seq(Char) /\ <<>> \in Seq(Char) /\ Len(<<EOF>>) = 1 /\ <<EOF>>[1] = EOF
      BY DEF Char
    <3> DEFINE s == <<EOF>>
               r == <<>>
    <3>2. /\ r \in Seq(Char) /\ s \in Seq(Char) /\ Len(r) = 0 /\ Len(s) = Len(r) + 1
          /\ 1 \in 1..Len(s) /\ s[1] = EOF
          /\ \A i \in 1..Len(r) : r[i] = IF i < 1 THEN s[i] ELSE s[i + 1]
      BY <3>1, EmptySeq
    <3> HIDE DEF r, s
    <3>3. SameTypical(s, r)
      BY <3>2, SameWithout
    <3>4. QED
      BY <3>3 DEF r, s
  <2>3. {t \in Thread : pc[t] = "get"} = {}
    OBVIOUS
  <2>4. Cardinality({t \in Thread : pc[t] = "get"}) = 0
    BY <2>3, FS_EmptySet
  <2>5. typed = <<>> /\ SynchReadAvail = 0
    OBVIOUS
  <2> HIDE DEF CallersInit, ConsoleInit, MonitorInit
  <2>6. Len(typed) = Len(keyboard) + Len(got) + SynchReadAvail
                     + Cardinality({t \in Thread : pc[t] = "get"})
    BY <2>1, <2>4, <2>5
  <2>7. QED
    BY <2>1, <2>2, <2>5, <2>6 DEF CharsDelivered
<1>5. QED
  BY <1>1, <1>2, <1>3, <1>4 DEF ConsoleInv

\* What a call does to pc and the lock.
LEMMA PcMoves ==
  ASSUME ConsoleInv, NEW t \in Thread, NEW from, NEW to, Goto(t, from, to)
  PROVE  /\ pc[t] = from /\ pc'[t] = to
         /\ \A u \in Thread \ {t} : pc'[u] = pc[u]
         /\ pc' = [pc EXCEPT ![t] = to]
BY DEF ConsoleInv, ConsoleTypeOK, Goto

LEMMA CallerStays ==
  ASSUME ConsoleInv, NEW t \in Thread, NEW from \in Holding, NEW to \in Holding,
         Goto(t, from, to), UNCHANGED monitorVars
  PROVE  OneCaller' /\ inside' = inside
<1>1. inside' = inside
  BY DEF monitorVars
<1>2. /\ pc[t] = from /\ pc'[t] = to
      /\ \A u \in Thread \ {t} : pc'[u] = pc[u]
  BY PcMoves
<1>3. QED
  BY <1>1, <1>2 DEF ConsoleInv, OneCaller

LEMMA CallerEnters ==
  ASSUME ConsoleInv, NEW t \in Thread, NEW from, NEW to \in Holding,
         Acquires(t, ConsoleLock, from, to)
  PROVE  OneCaller' /\ inside' \in [Lock -> SUBSET Thread] /\ \A u \in Thread : pc[u] \notin Holding
<1>1. inside[ConsoleLock] = {} /\ inside' = [inside EXCEPT ![ConsoleLock] = {t}]
  BY DEF Acquires, Enter
<1>2. \A u \in Thread : pc[u] \notin Holding
  BY <1>1 DEF ConsoleInv, OneCaller
<1>3. pc'[t] = to /\ \A u \in Thread \ {t} : pc'[u] = pc[u]
  BY PcMoves DEF Acquires
<1>4. inside'[ConsoleLock] = {t} /\ inside' \in [Lock -> SUBSET Thread]
  BY <1>1, ConsoleAssumption DEF ConsoleInv, ConsoleTypeOK
<1>5. QED
  BY <1>2, <1>3, <1>4 DEF OneCaller

LEMMA CallerLeaves ==
  ASSUME ConsoleInv, NEW t \in Thread, Releases(t, ConsoleLock, "unlock")
  PROVE  OneCaller' /\ inside' \in [Lock -> SUBSET Thread]
<1>1. inside' = [inside EXCEPT ![ConsoleLock] = @ \ {t}]
  BY DEF Releases, Leave
<1>2. pc'[t] = "idle" /\ \A u \in Thread \ {t} : pc'[u] = pc[u]
  BY PcMoves DEF Releases
<1>3. inside'[ConsoleLock] = inside[ConsoleLock] \ {t} /\ inside' \in [Lock -> SUBSET Thread]
  BY <1>1, ConsoleAssumption DEF ConsoleInv, ConsoleTypeOK
<1>4. QED
  BY <1>2, <1>3 DEF OneCaller, ConsoleInv, Holding

\* A step that neither begins nor ends the wait of a PutChar.
LEMMA WaitKept ==
  ASSUME ConsoleInv, NEW t \in Thread, pc[t] # "put P", pc'[t] # "put P",
         \A u \in Thread \ {t} : pc'[u] = pc[u],
         UNCHANGED <<putBusy, SynchWriteDone, failed>>
  PROVE  WriteSignalled'
<1>1. (\E u \in Thread : pc'[u] = "put P") <=> (\E u \in Thread : pc[u] = "put P")
  OBVIOUS
<1>2. QED
  BY <1>1, Zenon DEF ConsoleInv, WriteSignalled

\* A step that neither begins nor ends a read.
LEMMA ReadsKept ==
  ASSUME ConsoleInv, NEW t \in Thread, pc[t] # "get", pc'[t] # "get",
         \A u \in Thread \ {t} : pc'[u] = pc[u],
         UNCHANGED <<keyboard, incoming, SynchReadAvail, typed, got>>
  PROVE  CharsDelivered'
<1>1. {u \in Thread : pc'[u] = "get"} = {u \in Thread : pc[u] = "get"}
  OBVIOUS
<1>2. QED
  BY <1>1 DEF ConsoleInv, CharsDelivered

LEMMA CallsInv ==
  ASSUME ConsoleInv, NEW t \in Thread, NEW call \in {"get lock", "put lock"},
         Calls(t, call), UNCHANGED consoleVars
  PROVE  ConsoleInv'
<1>1. /\ pc[t] = "idle" /\ pc' = [pc EXCEPT ![t] = call]
      /\ inside' = inside /\ UNCHANGED consoleVars
  BY DEF Calls, monitorVars
<1>2. pc'[t] = call /\ \A u \in Thread \ {t} : pc'[u] = pc[u]
  BY <1>1 DEF ConsoleInv, ConsoleTypeOK
<1>3. ConsoleTypeOK'
  BY <1>1 DEF ConsoleInv, ConsoleTypeOK, consoleVars
<1>4. OneCaller'
  BY <1>1, <1>2 DEF ConsoleInv, OneCaller, Holding
<1>5. WriteSignalled'
  BY <1>1, <1>2, WaitKept DEF consoleVars
<1>6. CharsDelivered'
  BY <1>1, <1>2, ReadsKept DEF consoleVars
<1>7. QED
  BY <1>3, <1>4, <1>5, <1>6 DEF ConsoleInv

LEMMA LocksInv ==
  ASSUME ConsoleInv, NEW t \in Thread, GetCharLocks(t) \/ PutCharLocks(t)
  PROVE  ConsoleInv'
<1>1. PICK from \in {"get lock", "put lock"}, to \in {"get P", "put"} :
        Acquires(t, ConsoleLock, from, to) /\ UNCHANGED consoleVars
  BY DEF GetCharLocks, PutCharLocks
<1>2. OneCaller' /\ inside' \in [Lock -> SUBSET Thread]
  BY <1>1, CallerEnters DEF Holding
<1>3. /\ pc[t] = from /\ pc'[t] = to
      /\ \A u \in Thread \ {t} : pc'[u] = pc[u]
      /\ pc' = [pc EXCEPT ![t] = to]
  BY <1>1, PcMoves DEF Acquires
<1>4. ConsoleTypeOK'
  BY <1>1, <1>2, <1>3 DEF ConsoleInv, ConsoleTypeOK, consoleVars, Holding
<1>5. WriteSignalled'
  BY <1>1, <1>3, WaitKept DEF consoleVars
<1>6. CharsDelivered'
  BY <1>1, <1>3, ReadsKept DEF consoleVars
<1>7. QED
  BY <1>2, <1>4, <1>5, <1>6 DEF ConsoleInv

LEMMA UnlocksInv ==
  ASSUME ConsoleInv, NEW t \in Thread, Unlocks(t)
  PROVE  ConsoleInv'
<1>1. Releases(t, ConsoleLock, "unlock") /\ UNCHANGED consoleVars
  BY DEF Unlocks
<1>2. OneCaller' /\ inside' \in [Lock -> SUBSET Thread]
  BY <1>1, CallerLeaves
<1>3. /\ pc[t] = "unlock" /\ pc'[t] = "idle"
      /\ \A u \in Thread \ {t} : pc'[u] = pc[u]
      /\ pc' = [pc EXCEPT ![t] = "idle"]
  BY <1>1, PcMoves DEF Releases
<1>4. ConsoleTypeOK'
  BY <1>1, <1>2, <1>3 DEF ConsoleInv, ConsoleTypeOK, consoleVars, Holding
<1>5. WriteSignalled'
  BY <1>1, <1>3, WaitKept DEF consoleVars
<1>6. CharsDelivered'
  BY <1>1, <1>3, ReadsKept DEF consoleVars
<1>7. QED
  BY <1>2, <1>4, <1>5, <1>6 DEF ConsoleInv

LEMMA ReadTypes ==
  ASSUME ConsoleInv
  PROVE  /\ keyboard \in Seq(Char) /\ typed \in Seq(Char) /\ got \in Seq(Char)
         /\ incoming \in Char /\ EOF \in Char
         /\ Len(keyboard) \in Nat /\ Len(got) \in Nat /\ SynchReadAvail \in Nat
<1>1. /\ keyboard \in Seq(Char) /\ typed \in Seq(Char) /\ got \in Seq(Char)
      /\ incoming \in Char /\ EOF \in Char /\ SynchReadAvail \in Nat
  BY DEF ConsoleInv, ConsoleTypeOK, Char
<1>2. QED
  BY <1>1, LenProperties

LEMMA GetCharPInv ==
  ASSUME ConsoleInv, NEW t \in Thread, GetCharP(t)
  PROVE  ConsoleInv'
<1>1. /\ Goto(t, "get P", "get") /\ UNCHANGED monitorVars
      /\ SynchReadAvail > 0 /\ SynchReadAvail' = SynchReadAvail - 1
      /\ UNCHANGED <<keyboard, incoming, putBusy, SynchWriteDone, typed, got, failed>>
  BY DEF GetCharP
<1>2. OneCaller' /\ inside' = inside
  BY <1>1, CallerStays DEF Holding
<1>3. /\ pc[t] = "get P" /\ pc'[t] = "get"
      /\ \A u \in Thread \ {t} : pc'[u] = pc[u]
      /\ pc' = [pc EXCEPT ![t] = "get"]
  BY <1>1, PcMoves
<1>4. ConsoleTypeOK'
  <2>1. SynchReadAvail' \in Nat
    <3>1. SynchReadAvail \in Nat
      BY ReadTypes
    <3>2. SynchReadAvail > 0 /\ SynchReadAvail' = SynchReadAvail - 1
      BY <1>1, Zenon
    <3>3. QED
      BY <3>1, <3>2
  <2>2. QED
    BY <1>1, <1>2, <1>3, <2>1 DEF ConsoleInv, ConsoleTypeOK, Holding
<1>5. WriteSignalled'
  BY <1>1, <1>3, WaitKept
<1>6. CharsDelivered'
  <2> DEFINE G == {u \in Thread : pc[u] = "get"}
  <2>1. {u \in Thread : pc'[u] = "get"} = G \cup {t} /\ t \notin G
    BY <1>3
  <2>2. IsFiniteSet(G)
    BY ConsoleAssumption, FS_Subset
  <2>3. Cardinality(G \cup {t}) = Cardinality(G) + 1 /\ Cardinality(G) \in Nat
    BY <2>1, <2>2, FS_AddElement, FS_CardinalityType
  <2>4. Len(typed) = Len(keyboard) + Len(got) + SynchReadAvail + Cardinality(G)
    BY DEF ConsoleInv, CharsDelivered
  <2>5. Len(keyboard) \in Nat /\ Len(got) \in Nat /\ SynchReadAvail \in Nat
    BY ReadTypes
  <2> HIDE DEF G
  <2>6. Len(typed) = Len(keyboard) + Len(got) + (SynchReadAvail - 1) + Cardinality(G \cup {t})
    BY <2>3, <2>4, <2>5
  <2>7. QED
    BY <1>1, <2>1, <2>6 DEF ConsoleInv, CharsDelivered
<1>7. QED
  BY <1>2, <1>4, <1>5, <1>6 DEF ConsoleInv

\* A character is handed over, and the buffer is empty.
LEMMA GetCharInv ==
  ASSUME ConsoleInv, NEW t \in Thread, GetChar(t)
  PROVE  ConsoleInv'
<1>1. /\ Goto(t, "get", "unlock") /\ UNCHANGED monitorVars
      /\ got' = Append(got, incoming) /\ incoming' = EOF
      /\ UNCHANGED <<keyboard, putBusy, SynchReadAvail, SynchWriteDone, typed, failed>>
  BY DEF GetChar
<1>2. OneCaller' /\ inside' = inside
  BY <1>1, CallerStays DEF Holding
<1>3. /\ pc[t] = "get" /\ pc'[t] = "unlock"
      /\ \A u \in Thread \ {t} : pc'[u] = pc[u]
      /\ pc' = [pc EXCEPT ![t] = "unlock"]
  BY <1>1, PcMoves
<1>4. /\ keyboard \in Seq(Char) /\ typed \in Seq(Char) /\ got \in Seq(Char)
      /\ incoming \in Char /\ EOF \in Char
  BY ReadTypes
<1>5. Append(got, incoming) \in Seq(Char) /\ Len(Append(got, incoming)) = Len(got) + 1
  BY <1>4
<1>6. ConsoleTypeOK'
  BY <1>1, <1>2, <1>3, <1>4, <1>5 DEF ConsoleInv, ConsoleTypeOK, Holding
<1>7. WriteSignalled'
  BY <1>1, <1>3, WaitKept
<1>8. SameTypical(Append(got, incoming) \o <<EOF>> \o keyboard, typed)
  <2> DEFINE r == got \o <<incoming>> \o keyboard
             s == Append(got, incoming) \o <<EOF>> \o keyboard
  <2>1. /\ r \in Seq(Char) /\ s \in Seq(Char)
        /\ Len(r) = Len(got) + 1 + Len(keyboard) /\ Len(s) = Len(r) + 1
    BY <1>4, <1>5
  <2>2. Len(got) + 2 \in 1..Len(s) /\ s[Len(got) + 2] = EOF
    BY <1>4, <1>5, <2>1
  <2>3. \A i \in 1..Len(r) : r[i] = IF i < Len(got) + 2 THEN s[i] ELSE s[i + 1]
    BY <1>4, <1>5, <2>1
  <2> HIDE DEF r, s
  <2>4. SameTypical(s, r)
    BY <2>1, <2>2, <2>3, SameWithout
  <2>5. SameTypical(r, typed)
    BY DEF ConsoleInv, CharsDelivered, r
  <2>6. SameTypical(s, typed)
    BY <1>4, <2>1, <2>4, <2>5, SameTransitive
  <2>7. QED
    BY <2>6 DEF s
<1>9. CharsDelivered'
  <2> DEFINE G == {u \in Thread : pc'[u] = "get"}
  <2>1. {u \in Thread : pc[u] = "get"} = G \cup {t} /\ t \notin G
    BY <1>3
  <2>2. IsFiniteSet(G)
    BY ConsoleAssumption, FS_Subset
  <2>3. Cardinality(G \cup {t}) = Cardinality(G) + 1 /\ Cardinality(G) \in Nat
    BY <2>1, <2>2, FS_AddElement, FS_CardinalityType
  <2>4. Len(typed) = Len(keyboard) + Len(got) + SynchReadAvail + Cardinality(G \cup {t})
    BY <2>1 DEF ConsoleInv, CharsDelivered
  <2>5. Len(keyboard) \in Nat /\ Len(got) \in Nat /\ SynchReadAvail \in Nat
    BY ReadTypes
  <2> HIDE DEF G
  <2>6. Len(typed) = Len(keyboard) + Len(Append(got, incoming)) + SynchReadAvail + Cardinality(G)
    BY <1>5, <2>3, <2>4, <2>5
  <2>7. QED
    BY <1>1, <1>8, <2>6 DEF CharsDelivered, G
<1>10. QED
  BY <1>2, <1>6, <1>7, <1>9 DEF ConsoleInv

LEMMA PutCharInv ==
  ASSUME ConsoleInv, NEW t \in Thread, PutChar(t)
  PROVE  ConsoleInv'
<1>1. /\ Goto(t, "put", "put P") /\ UNCHANGED monitorVars
      /\ failed' = putBusy /\ putBusy' = TRUE
      /\ UNCHANGED <<keyboard, incoming, SynchReadAvail, SynchWriteDone, typed, got>>
  BY DEF PutChar
<1>2. OneCaller' /\ inside' = inside
  BY <1>1, CallerStays DEF Holding
<1>3. /\ pc[t] = "put" /\ pc'[t] = "put P"
      /\ \A u \in Thread \ {t} : pc'[u] = pc[u]
      /\ pc' = [pc EXCEPT ![t] = "put P"]
  BY <1>1, PcMoves
<1>4. ConsoleTypeOK'
  BY <1>1, <1>2, <1>3 DEF ConsoleInv, ConsoleTypeOK, Holding
<1>5. WriteSignalled'
  <2>1. \A u \in Thread : pc[u] # "put P"
    BY <1>3 DEF ConsoleInv, OneCaller, Holding
  <2>2. ~putBusy /\ SynchWriteDone = 0
    BY <2>1 DEF ConsoleInv, WriteSignalled
  <2>3. ~failed' /\ putBusy' /\ SynchWriteDone' = 0
    BY <1>1, <2>2
  <2>4. \E u \in Thread : pc'[u] = "put P"
    BY <1>3
  <2>5. QED
    BY <2>3, <2>4 DEF WriteSignalled
<1>6. CharsDelivered'
  BY <1>1, <1>3, ReadsKept
<1>7. QED
  BY <1>2, <1>4, <1>5, <1>6 DEF ConsoleInv

LEMMA PutCharPInv ==
  ASSUME ConsoleInv, NEW t \in Thread, PutCharP(t)
  PROVE  ConsoleInv'
<1>1. /\ Goto(t, "put P", "unlock") /\ UNCHANGED monitorVars
      /\ SynchWriteDone > 0 /\ SynchWriteDone' = SynchWriteDone - 1
      /\ UNCHANGED <<keyboard, incoming, putBusy, SynchReadAvail, typed, got, failed>>
  BY DEF PutCharP
<1>2. OneCaller' /\ inside' = inside
  BY <1>1, CallerStays DEF Holding
<1>3. /\ pc[t] = "put P" /\ pc'[t] = "unlock"
      /\ \A u \in Thread \ {t} : pc'[u] = pc[u]
      /\ pc' = [pc EXCEPT ![t] = "unlock"]
  BY <1>1, PcMoves
<1>4. SynchWriteDone = 1 /\ SynchWriteDone' = 0
  <2>1. SynchWriteDone > 0 /\ SynchWriteDone' = SynchWriteDone - 1
    BY <1>1, Zenon
  <2>2. SynchWriteDone \in {0, 1}
    BY Zenon DEF ConsoleInv, WriteSignalled
  <2>3. QED
    BY <2>1, <2>2
<1>5. ConsoleTypeOK'
  <2>1. SynchWriteDone' \in Nat
    BY <1>4
  <2>2. pc' \in [Thread -> {"idle", "get lock", "put lock"} \cup Holding]
    BY <1>3 DEF ConsoleInv, ConsoleTypeOK, Holding
  <2>3. QED
    BY <1>1, <1>2, <2>1, <2>2, Zenon DEF ConsoleInv, ConsoleTypeOK
<1>6. WriteSignalled'
  <2>1. \A u \in Thread : pc'[u] # "put P"
    BY <1>3 DEF ConsoleInv, OneCaller, Holding
  <2>2. ~putBusy /\ ~failed
    <3>1. SynchWriteDone # 0
      BY <1>4
    <3>2. QED
      BY <3>1, Zenon DEF ConsoleInv, WriteSignalled
  <2>3. ~putBusy' /\ ~failed'
    BY <1>1, <2>2
  <2>4. SynchWriteDone' \in {0, 1} /\ SynchWriteDone' # 1
    BY <1>4
  <2>5. QED
    BY <2>1, <2>3, <2>4, Zenon DEF WriteSignalled
<1>7. CharsDelivered'
  BY <1>1, <1>3, ReadsKept
<1>8. QED
  BY <1>2, <1>5, <1>6, <1>7 DEF ConsoleInv

LEMMA WriteDoneInv ==
  ASSUME ConsoleInv, WriteDone
  PROVE  ConsoleInv'
<1>1. /\ putBusy /\ putBusy' = FALSE
      /\ SynchWriteDone' = SynchWriteDone + 1
      /\ UNCHANGED <<callerVars, keyboard, incoming, SynchReadAvail, typed, got, failed>>
  BY DEF WriteDone, SignalWritten
<1>2. pc' = pc /\ inside' = inside
  BY <1>1 DEF callerVars, monitorVars
<1>3. SynchWriteDone = 0 /\ SynchWriteDone' = 1
  <2>1. SynchWriteDone = 0
    BY <1>1, Zenon DEF ConsoleInv, WriteSignalled
  <2>2. SynchWriteDone' = SynchWriteDone + 1
    BY <1>1, Zenon
  <2>3. QED
    BY <2>1, <2>2
<1>4. ConsoleTypeOK'
  <2>1. SynchWriteDone' \in Nat
    BY <1>3
  <2>2. putBusy' \in BOOLEAN
    BY <1>1
  <2>3. QED
    BY <1>1, <1>2, <2>1, <2>2, Zenon DEF ConsoleInv, ConsoleTypeOK
<1>5. OneCaller'
  BY <1>2 DEF ConsoleInv, OneCaller
<1>6. WriteSignalled'
  <2>1. ~failed /\ \E t \in Thread : pc[t] = "put P"
    BY <1>1 DEF ConsoleInv, WriteSignalled
  <2>2. ~failed' /\ ~putBusy' /\ \E t \in Thread : pc'[t] = "put P"
    BY <1>1, <1>2, <2>1
  <2>3. QED
    BY <1>3, <2>2 DEF WriteSignalled
<1>7. CharsDelivered'
  BY <1>1, <1>2 DEF ConsoleInv, CharsDelivered
<1>8. QED
  BY <1>4, <1>5, <1>6, <1>7 DEF ConsoleInv

LEMMA TypesInv ==
  ASSUME ConsoleInv, NEW c \in Chars, Types(c)
  PROVE  ConsoleInv'
<1>1. /\ keyboard' = Append(keyboard, c) /\ typed' = Append(typed, c)
      /\ UNCHANGED <<callerVars, incoming, putBusy, SynchReadAvail, SynchWriteDone, got, failed>>
  BY DEF Types
<1>2. pc' = pc /\ inside' = inside
  BY <1>1 DEF callerVars, monitorVars
<1>3. /\ keyboard \in Seq(Char) /\ typed \in Seq(Char) /\ got \in Seq(Char)
      /\ incoming \in Char /\ c \in Char
  BY ReadTypes DEF Char
<1>4. ConsoleTypeOK'
  <2>1. Append(keyboard, c) \in Seq(Char) /\ Append(typed, c) \in Seq(Char)
    BY <1>3, AppendProperties
  <2>2. QED
    BY <1>1, <1>2, <2>1 DEF ConsoleInv, ConsoleTypeOK
<1>5. OneCaller' /\ WriteSignalled'
  BY <1>1, <1>2 DEF ConsoleInv, OneCaller, WriteSignalled
<1>6. SameTypical(got \o <<incoming>> \o Append(keyboard, c), Append(typed, c))
  <2> DEFINE s == got \o <<incoming>>
  <2>1. s \in Seq(Char) /\ s \o keyboard \in Seq(Char)
    BY <1>3
  <2>2. SameTypical(s \o keyboard, typed)
    BY DEF ConsoleInv, CharsDelivered
  <2> HIDE DEF s
  <2>3. s \o Append(keyboard, c) = Append(s \o keyboard, c)
    BY <1>3, <2>1, AppendMoves
  <2>4. SameTypical(Append(s \o keyboard, c), Append(typed, c))
    BY <1>3, <2>1, <2>2, SameAppended
  <2>5. QED
    BY <2>3, <2>4 DEF s
<1>7. CharsDelivered'
  <2> DEFINE n == Cardinality({t \in Thread : pc[t] = "get"})
  <2>1. Len(typed) = Len(keyboard) + Len(got) + SynchReadAvail + n
    BY DEF ConsoleInv, CharsDelivered
  <2>2. n \in Nat
    BY ConsoleAssumption, FS_Subset, FS_CardinalityType
  <2> HIDE DEF n
  <2>3. /\ Len(Append(keyboard, c)) = Len(keyboard) + 1 /\ Len(Append(typed, c)) = Len(typed) + 1
        /\ Len(keyboard) \in Nat /\ Len(got) \in Nat /\ SynchReadAvail \in Nat
    BY <1>3, AppendProperties, ReadTypes
  <2>4. Len(Append(typed, c)) = Len(Append(keyboard, c)) + Len(got) + SynchReadAvail + n
    BY <2>1, <2>2, <2>3
  <2>5. QED
    BY <1>1, <1>2, <1>6, <2>4 DEF CharsDelivered, n
<1>8. QED
  BY <1>4, <1>5, <1>7 DEF ConsoleInv

\* The poll puts a character where an EOF was.
LEMMA CheckCharAvailInv ==
  ASSUME ConsoleInv, CheckCharAvail
  PROVE  ConsoleInv'
<1>1. /\ incoming = EOF /\ keyboard # <<>>
      /\ incoming' = Head(keyboard) /\ keyboard' = Tail(keyboard)
      /\ SynchReadAvail' = SynchReadAvail + 1
      /\ UNCHANGED <<callerVars, putBusy, SynchWriteDone, typed, got, failed>>
  BY DEF CheckCharAvail, ReadAvail
<1>2. pc' = pc /\ inside' = inside
  BY <1>1 DEF callerVars, monitorVars
<1>3. /\ keyboard \in Seq(Char) /\ typed \in Seq(Char) /\ got \in Seq(Char)
      /\ incoming \in Char /\ SynchReadAvail \in Nat
      /\ Len(keyboard) \in Nat /\ Len(got) \in Nat
  BY ReadTypes
<1>4. Head(keyboard) \in Char /\ Tail(keyboard) \in Seq(Char) /\ Len(Tail(keyboard)) = Len(keyboard) - 1
  BY <1>1, <1>3, HeadTailProperties
<1>5. ConsoleTypeOK'
  <2>1. SynchReadAvail' \in Nat
    BY <1>1, <1>3
  <2>2. QED
    BY <1>1, <1>2, <1>4, <2>1 DEF ConsoleInv, ConsoleTypeOK
<1>6. OneCaller' /\ WriteSignalled'
  BY <1>1, <1>2 DEF ConsoleInv, OneCaller, WriteSignalled
<1>7. SameTypical(got \o <<Head(keyboard)>> \o Tail(keyboard), typed)
  <2> DEFINE r == got \o keyboard
             s == got \o <<incoming>> \o keyboard
  <2>1. got \o <<Head(keyboard)>> \o Tail(keyboard) = r
    BY <1>1, <1>3, HeadMoves
  <2>2. /\ r \in Seq(Char) /\ s \in Seq(Char)
        /\ Len(r) = Len(got) + Len(keyboard) /\ Len(s) = Len(r) + 1
    BY <1>3
  <2>3. Len(got) + 1 \in 1..Len(s) /\ s[Len(got) + 1] = EOF
    BY <1>1, <1>3, <2>2
  <2>4. \A i \in 1..Len(r) : r[i] = IF i < Len(got) + 1 THEN s[i] ELSE s[i + 1]
    BY <1>3, <2>2
  <2>5. SameTypical(s, typed)
    BY DEF ConsoleInv, CharsDelivered
  <2> HIDE DEF r, s
  <2>6. SameTypical(r, s)
    BY <2>2, <2>3, <2>4, SameWithout
  <2>7. SameTypical(r, typed)
    BY <1>3, <2>2, <2>5, <2>6, SameTransitive
  <2>8. QED
    BY <2>1, <2>7
<1>8. CharsDelivered'
  <2> DEFINE n == Cardinality({t \in Thread : pc[t] = "get"})
  <2>1. Len(typed) = Len(keyboard) + Len(got) + SynchReadAvail + n
    BY DEF ConsoleInv, CharsDelivered
  <2>2. n \in Nat
    BY ConsoleAssumption, FS_Subset, FS_CardinalityType
  <2> HIDE DEF n
  <2>3. Len(typed) = Len(Tail(keyboard)) + Len(got) + (SynchReadAvail + 1) + n
    BY <1>3, <1>4, <2>1, <2>2
  <2>4. QED
    BY <1>1, <1>2, <1>7, <2>3 DEF CharsDelivered, n
<1>9. QED
  BY <1>5, <1>6, <1>8 DEF ConsoleInv

LEMMA ConsoleStepInv ==
  ConsoleInv /\ [ConsoleNext]_<<callerVars, consoleVars>> => ConsoleInv'
<1> SUFFICES ASSUME ConsoleInv, [ConsoleNext]_<<callerVars, consoleVars>>
             PROVE  ConsoleInv'
  OBVIOUS
<1>1. ASSUME NEW t \in Thread, GetCharCalls(t) \/ PutCharCalls(t)
      PROVE  ConsoleInv'
  BY <1>1, CallsInv DEF GetCharCalls, PutCharCalls
<1>2. ASSUME NEW t \in Thread, ConsoleStep(t)
      PROVE  ConsoleInv'
  BY <1>2, LocksInv, UnlocksInv, GetCharPInv, GetCharInv, PutCharInv, PutCharPInv DEF ConsoleStep
<1>3. CASE UNCHANGED <<callerVars, consoleVars>>
  <2> USE <1>3 DEF callerVars, monitorVars, consoleVars, ConsoleInv
  <2>1. ConsoleTypeOK'
    BY DEF ConsoleTypeOK
  <2>2. OneCaller' /\ WriteSignalled'
    BY DEF OneCaller, WriteSignalled
  <2>3. CharsDelivered'
    BY DEF CharsDelivered
  <2>4. QED
    BY <2>1, <2>2, <2>3
<1>4. QED
  BY <1>1, <1>2, <1>3, TypesInv, CheckCharAvailInv, WriteDoneInv DEF ConsoleNext

\* Console::PutChar's assertion holds however many threads write, and a PutChar
\* returns only when its own write is done.
THEOREM PutsInTurnTheorem == ConsoleSpec => []PutsInTurn
<1>1. ASSUME ConsoleInv
      PROVE  PutsInTurn
  <2>1. ASSUME NEW t \in Thread, pc[t] = "unlock"
        PROVE  ~putBusy /\ SynchWriteDone = 0
    <3>1. \A u \in Thread : pc[u] # "put P"
      BY <1>1, <2>1 DEF ConsoleInv, OneCaller, Holding
    <3>2. QED
      BY <1>1, <3>1 DEF ConsoleInv, WriteSignalled
  <2>2. ~failed
    BY <1>1 DEF ConsoleInv, WriteSignalled
  <2>3. QED
    BY <2>1, <2>2 DEF PutsInTurn
<1>2. QED
  BY <1>1, ConsoleInitInv, ConsoleStepInv, PTL DEF ConsoleSpec

\* Whatever is typed, bytes that look like EOF included, the other characters reach
\* the callers of GetChar in order and once, and each poll wakes one caller.
THEOREM CharsDeliveredTheorem == ConsoleSpec => []CharsDelivered
<1>1. ConsoleInv => CharsDelivered
  BY DEF ConsoleInv
<1>2. QED
  BY <1>1, ConsoleInitInv, ConsoleStepInv, PTL DEF ConsoleSpec
=============================================================================
