------------------------------ MODULE Network ------------------------------
(***************************************************************************)
(* The network device (machine/network.cc): machines send packets to each  *)
(* other's sockets, any packet may be lost, and a machine polls its socket *)
(* into a buffer of one packet.  A machine whose sendto fails is aborted.  *)
(***************************************************************************)
EXTENDS Naturals, Sequences

CONSTANTS Node, MaxSent

Nothing == [length |-> 0]      \* an inHdr that announces no packet

VARIABLES
  up,         \* the machines that have not been aborted
  socket,     \* what each machine's socket holds (external: a Unix socket)
  inHdr,      \* the packet each machine has buffered, or Nothing
  sending,    \* how many NetworkSendDone interrupts each machine has pending
  notified,   \* how often readHandler was called
  wire,       \* history: the packets that each socket was given
  received,   \* history: the packets that Receive returned
  sent        \* how many packets were sent

networkVars == <<up, socket, inHdr, sending, notified, wire, received, sent>>

NetworkInit ==
  /\ up = Node
  /\ socket = [n \in Node |-> <<>>] /\ wire = socket /\ received = socket
  /\ inHdr = [n \in Node |-> Nothing]
  /\ sending = [n \in Node |-> 0] /\ notified = sending
  /\ sent = 0

\* sendto gives the packet to the socket, or fails, at the latest when there is no
\* machine behind the name; the assertion on its result then aborts the sender.
SendToSocket(hdr) ==
  \/ /\ hdr.to \in up
     /\ socket' = [socket EXCEPT ![hdr.to] = Append(@, hdr)]
     /\ wire' = [wire EXCEPT ![hdr.to] = Append(@, hdr)]
     /\ UNCHANGED up
  \/ up' = up \ {hdr.from} /\ UNCHANGED <<socket, wire>>

\* sendBusy, which the assertion of Send tests, is never set, so that a packet may
\* be sent while the interrupt for an earlier one is pending.
Send(n, to) ==
  /\ sent < MaxSent
  /\ sent' = sent + 1
  /\ sending' = [sending EXCEPT ![n] = @ + 1]
  /\ \/ SendToSocket([from |-> n, to |-> to, length |-> sent'])
     \/ UNCHANGED <<up, socket, wire>>      \* Random(): the packet is lost
  /\ UNCHANGED <<inHdr, notified, received>>

SendDone(n) ==
  /\ sending[n] > 0
  /\ sending' = [sending EXCEPT ![n] = @ - 1]
  /\ UNCHANGED <<up, socket, inHdr, notified, wire, received, sent>>

\* Mutant of CheckPktAvail: a packet that is still buffered is overwritten.
CheckPktAvail_Overwrites(n) ==
  /\ socket[n] # <<>>
  /\ inHdr' = [inHdr EXCEPT ![n] = Head(socket[n])]
  /\ socket' = [socket EXCEPT ![n] = Tail(@)]
  /\ notified' = [notified EXCEPT ![n] = @ + 1]
  /\ UNCHANGED <<up, sending, wire, received, sent>>

\* The poll; it does nothing while a packet is buffered or none is there.
CheckPktAvail(n) ==
  /\ inHdr[n].length = 0 /\ socket[n] # <<>>
  /\ inHdr' = [inHdr EXCEPT ![n] = Head(socket[n])]
  /\ socket' = [socket EXCEPT ![n] = Tail(@)]
  /\ notified' = [notified EXCEPT ![n] = @ + 1]
  /\ UNCHANGED <<up, sending, wire, received, sent>>

\* A Receive without a packet returns a header of length 0 and changes nothing.
Receive(n) ==
  /\ inHdr[n].length # 0
  /\ received' = [received EXCEPT ![n] = Append(@, inHdr[n])]
  /\ inHdr' = [inHdr EXCEPT ![n] = Nothing]
  /\ UNCHANGED <<up, socket, sending, notified, wire, sent>>

NetworkNext ==
  \E n \in up :
    (\E to \in Node : Send(n, to)) \/ SendDone(n) \/ CheckPktAvail(n) \/ Receive(n)

-----------------------------------------------------------------------------
Buffered(n) == IF inHdr[n].length = 0 THEN <<>> ELSE <<inHdr[n]>>

\* What Send puts on the wire is delivered to the machine it names, in the order
\* sent, once, however late the receiver fetches it and whichever machine is
\* aborted meanwhile, and the receiver is told once of each packet ("in order but
\* unreliably", network.h 31-38; the delay in place of a drop that CheckPktAvail
\* promises, network.cc 57-59).
DeliveredInOrder ==
  \A n \in Node :
    /\ received[n] \o Buffered(n) \o socket[n] = wire[n]
    /\ \A i \in DOMAIN wire[n] : wire[n][i].to = n
    /\ notified[n] = Len(received[n] \o Buffered(n))
=============================================================================
