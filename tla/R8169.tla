------------------------------- MODULE R8169 --------------------------------
(***************************************************************************)
(* The network driver (dev/r8169.c) and the card beside it.                *)
(*                                                                         *)
(* Receiving: the card fills the descriptors it owns and raises RxOK; the  *)
(* interrupt handler hands the packets to the work queue, gives the        *)
(* descriptors back and acknowledges the interrupt.  Sending: r8169_tx     *)
(* fills the descriptor at cur_tx and gives it to the card, which raises   *)
(* TxOK when it has sent it.                                               *)
(*                                                                         *)
(* The handler runs with interrupts disabled, and so does r8169_tx in a    *)
(* system call.  The works ether_rx (replies of arp_rx and icmp_rx) and    *)
(* tcp_ack_timeout run r8169_tx in the kernel task with interrupts         *)
(* enabled, where the handler or a system call of the user task may come   *)
(* in between.  The card stops for nobody: each access to a ring or a      *)
(* register is a step.                                                     *)
(***************************************************************************)
EXTENDS Integers, Sequences

CONSTANTS
    RX_RING_SIZE, TX_RING_SIZE,     \* 1024
    RX_BUF_SIZE,        \* 1536
    Frames,             \* lengths of the frames that arrive, at most RX_BUF_SIZE
    Loads               \* bounds: what is received and sent, and who sends

Senders == {"syscall", "work"}

ASSUME R8169Assumption ==
    /\ {RX_RING_SIZE, TX_RING_SIZE, RX_BUF_SIZE} \subseteq Nat \ {0}
    /\ Frames \subseteq 1 .. RX_BUF_SIZE
    /\ Loads \subseteq [frames : Nat, pkts : Nat, senders : SUBSET Senders]

VARIABLES
    load,           \* the load of this behaviour
    rx_ring,        \* [own, size, frame] of each descriptor
    cur_rx,         \* the driver's place in the ring
    nic_rx,         \* the card's place in the ring
    IntrStatus,     \* the bits the card has raised
    hpc,            \* r8169_int_handler: "idle", "receive" or "ack"
    status,         \* its copy of IntrStatus
    accepted,       \* number of frames written into the ring
    wq,             \* the frames pushed to the work queue
    tx_ring,        \* [own, end, len] of each descriptor; len stands for the packet
    mem,            \* the packet at each buffer address
    cur_tx,         \* the driver's place in the ring
    pc,             \* where each sender is in r8169_tx
    desc,           \* its tx_desc
    pkt,            \* its packet
    npkt,           \* packets given to r8169_tx so far
    queued,         \* the packets r8169_tx has given to the card, in order
    nic_tx,         \* the card's place in the ring
    sent            \* what the card has sent

rxvars == <<rx_ring, cur_rx, nic_rx, accepted, wq>>
handler == <<hpc, status>>
txvars == <<tx_ring, mem, cur_tx, pc, desc, pkt, npkt, queued, nic_tx, sent>>
vars == <<load, rx_ring, cur_rx, nic_rx, IntrStatus, hpc, status, accepted, wq,
          tx_ring, mem, cur_tx, pc, desc, pkt, npkt, queued, nic_tx, sent>>

RxRing == 0 .. RX_RING_SIZE - 1
TxRing == 0 .. TX_RING_SIZE - 1

\* low_buf and high_buf of the transmit descriptors: nothing ever sets them.
BufAddr(d) == 0

-----------------------------------------------------------------------------
\* setup_rx_descriptors and init_r8169.  The last receive descriptor carries
\* RingEnd; the transmit ring is all zeros.
R8169Init ==
    /\ load \in Loads
    /\ rx_ring = [d \in RxRing |-> [own |-> TRUE, size |-> RX_BUF_SIZE, frame |-> 0]]
    /\ cur_rx = 0 /\ nic_rx = 0 /\ IntrStatus = {}
    /\ hpc = "idle" /\ status = {} /\ accepted = 0 /\ wq = << >>
    /\ tx_ring = [d \in TxRing |-> [own |-> FALSE, end |-> FALSE, len |-> 0]]
    /\ mem = [a \in {BufAddr(d) : d \in TxRing} |-> 0]
    /\ cur_tx = 0 /\ nic_tx = 0
    /\ pc = [s \in Senders |-> "idle"]
    /\ desc = [s \in Senders |-> 0] /\ pkt = [s \in Senders |-> 0]
    /\ npkt = 0 /\ queued = << >> /\ sent = << >>

-----------------------------------------------------------------------------
(* Receiving.                                                              *)

\* The card receives a frame: it goes into the next descriptor, whose size field
\* then holds its length, or is dropped when there is no room for it.
NicReceives(len) ==
    /\ accepted < load.frames
    /\ IF rx_ring[nic_rx].own /\ len <= rx_ring[nic_rx].size
       THEN /\ rx_ring' = [rx_ring EXCEPT ![nic_rx] =
                             [own |-> FALSE, size |-> len, frame |-> accepted + 1]]
            /\ nic_rx' = (nic_rx + 1) % RX_RING_SIZE
            /\ accepted' = accepted + 1
            /\ IntrStatus' = IntrStatus \cup {"RxOK"}
       ELSE /\ IntrStatus' = IntrStatus \cup {"RxOverflow"}
            /\ UNCHANGED <<rx_ring, nic_rx, accepted>>
    /\ UNCHANGED <<load, cur_rx, handler, wq, txvars>>

\* Interrupts are disabled in the handler and in a system call.
InterruptsOn == hpc = "idle" /\ pc["syscall"] = "idle"

\* The beginning of r8169_int_handler: status is read once.
IntBegin ==
    /\ InterruptsOn /\ IntrStatus # {}
    /\ status' = IntrStatus
    /\ hpc' = IF "RxOK" \in IntrStatus THEN "receive" ELSE "ack"
    /\ UNCHANGED <<load, rxvars, IntrStatus, txvars>>

\* Mutant of Rearmed: the descriptor is not given back to the card.
RearmedNot(d) == d

\* The descriptor back in the hands of the card: only the owner bit is set.
Rearmed(d) == [d EXCEPT !.own = TRUE]

\* Mutant of ReceivePacket: one packet per interrupt.
ReceivePacketOnce ==
    /\ hpc = "receive" /\ hpc' = "ack"
    /\ IF rx_ring[cur_rx].own THEN UNCHANGED <<rx_ring, cur_rx, wq>>
       ELSE /\ wq' = Append(wq, rx_ring[cur_rx].frame)
            /\ rx_ring' = [rx_ring EXCEPT ![cur_rx] = Rearmed(@)]
            /\ cur_rx' = (cur_rx + 1) % RX_RING_SIZE
    /\ UNCHANGED <<load, nic_rx, IntrStatus, status, accepted, txvars>>

\* One iteration of receive_packet: stop at a descriptor the card owns.  The
\* other exit, RxBufEmpty, is a bit of the 8139 that this card reads as 0.
ReceivePacket ==
    /\ hpc = "receive"
    /\ IF rx_ring[cur_rx].own
       THEN hpc' = "ack" /\ UNCHANGED <<rx_ring, cur_rx, wq>>
       ELSE /\ wq' = Append(wq, rx_ring[cur_rx].frame)
            /\ rx_ring' = [rx_ring EXCEPT ![cur_rx] = Rearmed(@)]
            /\ cur_rx' = IF cur_rx + 1 >= RX_RING_SIZE THEN cur_rx + 1 - RX_RING_SIZE
                         ELSE cur_rx + 1
            /\ UNCHANGED hpc
    /\ UNCHANGED <<load, nic_rx, IntrStatus, status, accepted, txvars>>

\* The end of r8169_int_handler: the bits read at its beginning are cleared.
IntAck ==
    /\ hpc = "ack"
    /\ IntrStatus' = IntrStatus \ status
    /\ hpc' = "idle" /\ status' = {}
    /\ UNCHANGED <<load, rxvars, txvars>>

-----------------------------------------------------------------------------
(* Sending.                                                                *)

\* The handler and a system call are not interrupted: the others stand still.
MayRun(s) == hpc = "idle" /\ (s = "syscall" \/ pc["syscall"] = "idle")

At(s, from, to) == MayRun(s) /\ pc[s] = from /\ pc' = [pc EXCEPT ![s] = to]

\* Looks at the descriptor; the packet is given up when the card owns it.
TxBegin(s) ==
    /\ npkt < load.pkts /\ s \in load.senders
    /\ npkt' = npkt + 1
    /\ IF tx_ring[cur_tx].own
       THEN At(s, "idle", "idle") /\ UNCHANGED <<desc, pkt>>
       ELSE /\ At(s, "idle", "copy")
            /\ desc' = [desc EXCEPT ![s] = cur_tx]
            /\ pkt' = [pkt EXCEPT ![s] = npkt + 1]
    /\ UNCHANGED <<load, rxvars, handler, IntrStatus, tx_ring, mem, cur_tx, queued, nic_tx, sent>>

\* Mutant of TxCopy: the packet is not copied.
TxCopyNot(s) ==
    /\ At(s, "copy", "give")
    /\ UNCHANGED <<load, rxvars, handler, IntrStatus, tx_ring, mem, cur_tx, desc, pkt, npkt,
                   queued, nic_tx, sent>>

TxCopy(s) ==
    /\ At(s, "copy", "give")
    /\ mem' = [mem EXCEPT ![BufAddr(desc[s])] = pkt[s]]
    /\ UNCHANGED <<load, rxvars, handler, IntrStatus, tx_ring, cur_tx, desc, pkt, npkt,
                   queued, nic_tx, sent>>

TxGive(s) ==
    /\ At(s, "give", "advance")
    /\ tx_ring' = [tx_ring EXCEPT ![desc[s]] =
                     [own |-> TRUE, end |-> FALSE, len |-> pkt[s]]]
    /\ queued' = Append(queued, pkt[s])
    /\ UNCHANGED <<load, rxvars, handler, IntrStatus, mem, cur_tx, desc, pkt, npkt, nic_tx, sent>>

TxAdvance(s) ==
    /\ At(s, "advance", IF cur_tx + 1 >= TX_RING_SIZE THEN "end" ELSE "idle")
    /\ cur_tx' = IF cur_tx + 1 >= TX_RING_SIZE THEN cur_tx + 1 - TX_RING_SIZE
                 ELSE cur_tx + 1
    /\ UNCHANGED <<load, rxvars, handler, IntrStatus, tx_ring, mem, desc, pkt, npkt,
                   queued, nic_tx, sent>>

\* The last descriptor of the ring is marked after it was given to the card.
TxRingEnd(s) ==
    /\ At(s, "end", "idle")
    /\ tx_ring' = [tx_ring EXCEPT ![desc[s]].end = TRUE]
    /\ UNCHANGED <<load, rxvars, handler, IntrStatus, mem, cur_tx, desc, pkt, npkt,
                   queued, nic_tx, sent>>

\* The card sends the packet of the next descriptor it owns, and says so.
NicSends ==
    /\ nic_tx \in TxRing /\ tx_ring[nic_tx].own
    /\ sent' = Append(sent, [len |-> tx_ring[nic_tx].len, data |-> mem[BufAddr(nic_tx)]])
    /\ tx_ring' = [tx_ring EXCEPT ![nic_tx].own = FALSE]
    /\ nic_tx' = IF tx_ring[nic_tx].end THEN 0 ELSE nic_tx + 1
    /\ IntrStatus' = IntrStatus \cup {"TxOK"}
    /\ UNCHANGED <<load, rxvars, handler, mem, cur_tx, pc, desc, pkt, npkt, queued>>

r8169_tx(s) == TxBegin(s) \/ TxCopy(s) \/ TxGive(s) \/ TxAdvance(s) \/ TxRingEnd(s)

-----------------------------------------------------------------------------
R8169Next ==
    \/ \E len \in Frames : NicReceives(len)
    \/ IntBegin \/ ReceivePacket \/ IntAck
    \/ \E s \in Senders : r8169_tx(s)
    \/ NicSends

\* An interrupt that is raised is taken, its handler runs to the end, and so does
\* r8169_tx (a system call that keeps interrupts disabled returns).
R8169Spec ==
    /\ R8169Init /\ [][R8169Next]_vars
    /\ SF_vars(IntBegin) /\ WF_vars(ReceivePacket) /\ WF_vars(IntAck)
    /\ WF_vars(r8169_tx("syscall"))

-----------------------------------------------------------------------------
\* Every frame the card accepted is handed to the work queue once and in order
\* or waits between the driver's and the card's place in the ring, and the
\* descriptors outside that stretch are the card's, also when the ring is full
\* and when it wraps (receive_packet).
FramesConserved ==
    LET waiting == accepted - Len(wq)
    IN  /\ waiting \in 0 .. RX_RING_SIZE
        /\ nic_rx = (cur_rx + waiting) % RX_RING_SIZE
        /\ \A i \in 1 .. Len(wq) : wq[i] = i
        /\ \A k \in 0 .. RX_RING_SIZE - 1 :
             LET d == rx_ring[(cur_rx + k) % RX_RING_SIZE]
             IN  IF k < waiting THEN ~d.own /\ d.frame = Len(wq) + k + 1
                 ELSE d.own

\* While RxOK is raised, all frames received so far will be handed over: one
\* interrupt may stand for several frames and for packets sent, and its handler
\* empties the ring.  (A frame that comes after the last look at the ring and
\* before IntAck waits for the next RxOK.)
RaisedHandled ==
    \A f \in 1 .. 7 :
       (accepted >= f /\ hpc = "idle" /\ "RxOK" \in IntrStatus) ~> Len(wq) >= f

\* With one sender, and as long as the card has not left the ring, it sends the
\* descriptors in the order they were given to it, each once: none is skipped or
\* given again while the card owns it, also when the ring is full; and with no
\* descriptor of its own at its place it has sent them all.  The copy is made
\* before the descriptor is given away: the card sends the packet it was given
\* or, as all descriptors name the same buffer, one copied over it since, never
\* what was there before (r8169_tx).
SentInOrder ==
    nic_tx \in TxRing =>
      /\ Len(sent) <= Len(queued)
      /\ \A i \in 1 .. Len(sent) : sent[i].len = queued[i] /\ sent[i].data >= sent[i].len
      /\ ~tx_ring[nic_tx].own => Len(sent) = Len(queued)

\* "Descriptor is owned by NIC" (r8169.c:103): the driver does not fill a
\* descriptor again that it has given to the card.
OwnedUntouched ==
    [][\A d \in TxRing : tx_ring[d].own /\ tx_ring'[d].own
                          => tx_ring'[d].len = tx_ring[d].len]_vars

=============================================================================
