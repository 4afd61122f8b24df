--------------------------------- MODULE Tcp ---------------------------------
(***************************************************************************)
(* One TCP socket of mosmos (kernel/net/tcp.c), the user program that owns *)
(* it and a conforming peer, over a network that loses, duplicates and     *)
(* reorders segments.                                                      *)
(*                                                                         *)
(* tcp_rx handles a segment with interrupts disabled and a system call is  *)
(* atomic up to its task_sleep, so each is one action; the code after      *)
(* task_sleep is a second one.  The work functions tcp_connect_timeout,    *)
(* tcp_ack_timeout and tcp_socket_recv_timeout run at any time after they  *)
(* were armed, one after the other and not while tcp_rx does: all four run *)
(* in the kernel task.  Sequence numbers start at 0 and stay small here;   *)
(* the data segments have one length and count as one number each.  A      *)
(* connect takes a new source port; what is still under way for the old    *)
(* one is dropped by tcp_rx and by the peer, so it leaves the network at   *)
(* that point.                                                             *)
(***************************************************************************)
EXTENDS Integers, Sequences, SequencesExt, FiniteSetsExt

CONSTANTS
    Roles,          \* of "client": connects, and "server": listens
    MaxConnect,     \* tcp_socket_connect calls (2 in user_app.c)
    DataLen,        \* bytes in a data segment of the peer
    Sizes,          \* sizes given to tcp_socket_recv (nc 100, the others 1500)
    TICK_HALF,      \* 2^31: from there on a tick does not fit an int
    MaxSend,        \* bound: tcp_socket_send calls with data
    MaxEmpty,       \* bound: tcp_socket_send calls without (an empty line in nc)
    MaxRecv,        \* bound: tcp_socket_recv calls that sleep
    MaxTick,        \* bound: the tick at which one may begin
    MaxPeerData,    \* bound: data segments of the peer
    MaxData,        \* bound: these sends, receives and segments together
    MaxFault,       \* bound: segments lost, duplicated or overtaken
    MaxFlight,      \* bound: below it a retransmission timer may go off
    MaxPeerFlight   \* bound: below it the one of the peer may

ASSUME TcpAssumption ==
    /\ Roles \subseteq {"client", "server"}
    /\ {DataLen, TICK_HALF} \subseteq Nat \ {0} /\ Sizes \subseteq Nat \ {0}
    /\ {MaxConnect, MaxSend, MaxEmpty, MaxRecv, MaxTick, MaxPeerData, MaxData, MaxFault,
        MaxFlight, MaxPeerFlight} \subseteq Nat
    /\ MaxTick < 4 * TICK_HALF * TICK_HALF - TICK_HALF

VARIABLES
    sk,         \* the struct tcp_socket
    upc,        \* where the user program is; a call that sleeps ends in _sleep
    woken,      \* task_wakeup(socket) has made the sleeper runnable
    ackt,       \* armed tcp_ack_timeout works, by sequence number
    connt,      \* number of armed tcp_connect_timeout works
    recvt,      \* armed tcp_socket_recv_timeout works: [call, wait_id]
    matched,    \* tcp_socket_recv_timeout has found its wait_id, and wakes up next
    ncall,      \* [connect, send, empty, recv]: calls made, against the bounds
    read,       \* what tcp_socket_recv has returned, in order: of which segment
                \* (data) how many bytes (len)
    eof,        \* tcp_socket_recv has returned -1
    panicked,
    toPeer, toUs, nfault,       \* the network: two queues, and its faults so far
    peer, peergot               \* the peer and the bytes it has received

netvars  == <<toPeer, toUs, nfault>>
timers   == <<ackt, connt, recvt, matched>>
peervars == <<peer, peergot>>
userlog  == <<ncall, read, eof>>
vars == <<sk, upc, woken, ackt, connt, recvt, matched, ncall, read, eof, panicked,
          toPeer, toUs, nfault, peer, peergot>>

-----------------------------------------------------------------------------
(* Segments, the socket and tcp_send.                                      *)

\* data identifies what is carried, one after the other (0: nothing).
Segment(flags, seq, ack, data, port) ==
    [flags |-> flags, seq |-> seq, ack |-> ack, data |-> data, port |-> port]

Len1(data) == IF data = 0 THEN 0 ELSE 1

SYN == {"SYN"}
ACK == {"ACK"}
FIN == {"FIN"}

TCP_STATE == {"CLOSED", "LISTEN", "SYN_RCVD", "SYN_SENT", "ESTABLISHED",
              "FIN_WAIT_1", "CLOSING", "CLOSE_WAIT"}

\* tcp_socket(): a fresh socket.
NewSocket == [state |-> "CLOSED", seq_num |-> 0, ack_num |-> 0, wait_id |-> 0,
              sport |-> 0, rx |-> << >>, tx |-> << >>]

\* The segment tcp_send builds from the socket.
Built(s, flags, data) == Segment(flags, s.seq_num, s.ack_num, data, s.sport)

\* tcp_send with need_ack: keep the packet until it is acknowledged; the
\* number waited for is the sequence number plus the data size, also for SYN
\* and FIN.
Kept(s, flags, data) ==
    [s EXCEPT !.tx = Append(@, [send_seq_num |-> s.seq_num,
                                wait_ack_num |-> s.seq_num + Len1(data),
                                dup_ack_num  |-> 0,
                                pkt |-> Built(s, flags, data)]),
              !.seq_num = @ + Len1(data)]

\* What is handed to the network: packets sent again (of those, the ones of an
\* earlier port reach nobody) and what tcp_send has built.  Of the packets kept for
\* one sequence number of one port at most one takes up numbers, so their order
\* makes no difference.
Sends(again, segs) ==
    toPeer' = toPeer \o SetToSeq({m \in again : m.port = sk.sport}) \o segs

\* What tcp_send with need_ack hands to the timer.
ArmAck(seqs) == ackt' = ackt \cup seqs

-----------------------------------------------------------------------------
(* handle_ack.                                                             *)

RETRANSMIT_DUP_ACK_NUM == 3

\* The loop over the second and later entries: list_remove clears the link of
\* the entry it removes, from which the loop would go on, so the first
\* acknowledged one is removed and no other.
RemoveBehindHead(tx, ack) ==
    LET found == {i \in 2 .. Len(tx) : tx[i].wait_ack_num <= ack}
    IN  IF found = {} THEN tx ELSE RemoveAt(tx, Min(found))

\* Mutant of RemoveHead: compares with the first byte, not the one after the last.
RemoveHeadSent(tx, ack) ==
    IF tx # << >> /\ Head(tx).send_seq_num <= ack THEN Tail(tx) ELSE tx

RemoveHead(tx, ack) ==
    IF tx # << >> /\ Head(tx).wait_ack_num <= ack THEN Tail(tx) ELSE tx

\* A duplicate ack: the entry it asks for is counted (the count makes no
\* difference past the threshold) and sent again from the third on.
CountDup(tx, ack) ==
    [i \in 1 .. Len(tx) |->
       IF tx[i].send_seq_num = ack /\ tx[i].dup_ack_num < RETRANSMIT_DUP_ACK_NUM
       THEN [tx[i] EXCEPT !.dup_ack_num = @ + 1]
       ELSE tx[i]]

Unacked(tx, ack) == RemoveHead(RemoveBehindHead(tx, ack), ack)

handle_ack(tx, ack) ==
    IF Len(Unacked(tx, ack)) < Len(tx) THEN Unacked(tx, ack) ELSE CountDup(tx, ack)

\* Mutant of Packets: a retransmission takes the current sequence number.
PacketsRenumbered(es) == {[e.pkt EXCEPT !.seq = sk.seq_num] : e \in es}

Packets(es) == {e.pkt : e \in es}

\* What handle_ack sends again.
DupResent(tx, ack) ==
    IF Len(Unacked(tx, ack)) < Len(tx) THEN {}
    ELSE Packets({e \in Range(CountDup(tx, ack)) :
                    /\ e.send_seq_num = ack
                    /\ e.dup_ack_num >= RETRANSMIT_DUP_ACK_NUM})

\* handle_ack applied to the socket when the segment has the ACK flag.
WithAck(s, m) ==
    IF "ACK" \in m.flags THEN [s EXCEPT !.tx = handle_ack(@, m.ack)] ELSE s

AckResent(s, m) == IF "ACK" \in m.flags THEN DupResent(s.tx, m.ack) ELSE {}

-----------------------------------------------------------------------------
(* tcp_recv_pkt, by the state of the socket.  Each case is given the       *)
(* segment m that tcp_rx has found the socket for.                         *)

\* The machine has stopped, or the program has ended and its socket is closed.
Halted == panicked \/ (upc = "done" /\ sk.state = "CLOSED")

\* The kernel task may begin another work.
KernelFree == ~Halted /\ ~matched

Sleeping == upc \in {"connect_sleep", "accept_sleep", "recv_sleep", "close_sleep"}

\* task_wakeup(socket).
Wakeup == woken' = (woken \/ Sleeping)

RxListen(m) ==
    /\ sk.state = "LISTEN"
    /\ IF "SYN" \in m.flags
       THEN LET s == [sk EXCEPT !.ack_num = m.seq + 1]
            IN  /\ sk' = [Kept(s, SYN \cup ACK, 0) EXCEPT !.seq_num = @ + 1,
                                                        !.state = "SYN_RCVD"]
                /\ Sends({}, <<Built(s, SYN \cup ACK, 0)>>)
                /\ ArmAck({s.seq_num})
       ELSE UNCHANGED <<sk, toPeer, ackt>>
    /\ UNCHANGED woken

RxSynRcvd(m) ==
    /\ sk.state = "SYN_RCVD"
    /\ IF "ACK" \in m.flags
       THEN /\ sk' = LET s == WithAck(sk, m)
                     IN  [s EXCEPT !.state = "ESTABLISHED",
                                   !.rx = IF m.data = 0 THEN @ ELSE Append(@, m.data),
                                   !.ack_num = IF m.data = 0 THEN @ ELSE m.seq + 1]
            /\ Sends(AckResent(sk, m), << >>)
            /\ Wakeup
       ELSE UNCHANGED <<sk, toPeer, woken>>
    /\ UNCHANGED ackt

RxSynSent(m) ==
    /\ sk.state = "SYN_SENT"
    /\ IF {"SYN", "ACK"} \subseteq m.flags
       THEN LET s == [WithAck(sk, m) EXCEPT !.ack_num = m.seq + 1]
            IN  /\ sk' = [s EXCEPT !.state = "ESTABLISHED"]
                /\ Sends(AckResent(sk, m), <<Built(s, ACK, 0)>>)
                /\ Wakeup
       ELSE UNCHANGED <<sk, toPeer, woken>>
    /\ UNCHANGED ackt

\* Mutant of Expected: a gap is accepted.
ExpectedOrLater(m) == m.data = 0 \/ m.seq >= sk.ack_num

\* No data, or the data that comes next.
Expected(m) == m.data = 0 \/ m.seq = sk.ack_num

\* Data out of order: only a duplicate ack, the rest of the segment is skipped.
RxOutOfOrder(m) ==
    /\ sk.state = "ESTABLISHED"
    /\ ~Expected(m)
    /\ Sends({}, <<Built(sk, ACK, 0)>>)
    /\ UNCHANGED <<sk, woken, ackt>>

RxEstablished(m) ==
    /\ sk.state = "ESTABLISHED"
    /\ Expected(m)
    /\ LET s   == [WithAck(sk, m) EXCEPT
                     !.rx = IF m.data = 0 THEN @ ELSE Append(@, m.data),
                     !.ack_num = IF m.data = 0 THEN @ ELSE m.seq + 1]
           s2  == [s EXCEPT !.ack_num = @ + 1]
       IN  IF {"FIN", "ACK"} \subseteq m.flags
           THEN /\ sk' = [Kept(s2, ACK \cup FIN, 0) EXCEPT !.state = "CLOSING"]
                /\ Sends(AckResent(sk, m), <<Built(s2, ACK \cup FIN, 0)>>)
                /\ ArmAck({s2.seq_num})
           ELSE /\ sk' = s
                /\ Sends(AckResent(sk, m),
                         IF m.data = 0 THEN << >> ELSE <<Built(s, ACK, 0)>>)
                /\ UNCHANGED ackt
    /\ IF m.data = 0 THEN UNCHANGED woken ELSE Wakeup

RxFinWait1(m) ==
    /\ sk.state = "FIN_WAIT_1"
    /\ LET s  == WithAck(sk, m)
           s2 == [s EXCEPT !.ack_num = @ + 1]
       IN  IF {"FIN", "ACK"} \subseteq m.flags
           THEN /\ sk' = [s2 EXCEPT !.state = "CLOSED"]
                /\ Sends(AckResent(sk, m), <<Built(s2, ACK, 0)>>)
                /\ Wakeup
           ELSE /\ sk' = s
                /\ Sends(AckResent(sk, m), << >>)
                /\ UNCHANGED woken
    /\ UNCHANGED ackt

\* Mutant of RxClosing: the program that closes is not woken.
RxClosingSilent(m) ==
    /\ sk.state = "CLOSING"
    /\ sk' = IF "ACK" \in m.flags THEN [sk EXCEPT !.state = "CLOSED"] ELSE sk
    /\ UNCHANGED <<woken, toPeer, ackt>>

RxClosing(m) ==
    /\ sk.state = "CLOSING"
    /\ IF "ACK" \in m.flags
       THEN sk' = [sk EXCEPT !.state = "CLOSED"] /\ Wakeup
       ELSE UNCHANGED <<sk, woken>>
    /\ UNCHANGED <<toPeer, ackt>>

RxClosed(m) ==
    /\ sk.state \in {"CLOSED", "CLOSE_WAIT"}
    /\ UNCHANGED <<sk, woken, toPeer, ackt>>

tcp_recv_pkt(m) ==
    \/ RxListen(m) \/ RxSynRcvd(m) \/ RxSynSent(m) \/ RxOutOfOrder(m)
    \/ RxEstablished(m) \/ RxFinWait1(m) \/ RxClosing(m) \/ RxClosed(m)

\* The network delivers m, the oldest segment under way; or, as a fault, keeps
\* a copy of it for later, or m has overtaken older ones.
Delivers(net, m) ==
    \/ /\ net # << >> /\ m = Head(net)
       /\ \/ net' = Tail(net) /\ UNCHANGED nfault
          \/ net' = net /\ nfault < MaxFault /\ nfault' = nfault + 1
    \/ \E i \in 2 .. Len(net) :
          /\ m = net[i] /\ net' = RemoveAt(net, i)
          /\ nfault < MaxFault /\ nfault' = nfault + 1

TcpRx ==
    /\ KernelFree
    /\ \E m \in Range(toUs) : Delivers(toUs, m) /\ tcp_recv_pkt(m)
    /\ UNCHANGED <<upc, connt, recvt, matched, userlog, panicked, peervars>>

-----------------------------------------------------------------------------
(* The work functions.                                                     *)

\* Mutant of tcp_connect_timeout: the caller of connect is not woken.
tcp_connect_timeoutSilent ==
    /\ KernelFree /\ connt > 0
    /\ connt' = connt - 1
    /\ sk' = [sk EXCEPT !.state = IF @ = "SYN_SENT" THEN "CLOSED" ELSE @]
    /\ UNCHANGED <<upc, woken, ackt, recvt, matched, userlog, panicked, netvars, peervars>>

\* Mutant of tcp_connect_timeout: it does not look at the state.
tcp_connect_timeoutAnyState ==
    /\ KernelFree /\ connt > 0
    /\ connt' = connt - 1
    /\ sk' = [sk EXCEPT !.state = "CLOSED"] /\ Wakeup
    /\ UNCHANGED <<upc, ackt, recvt, matched, userlog, panicked, netvars, peervars>>

tcp_connect_timeout ==
    /\ KernelFree /\ connt > 0
    /\ connt' = connt - 1
    /\ IF sk.state = "SYN_SENT"
       THEN sk' = [sk EXCEPT !.state = "CLOSED"] /\ Wakeup
       ELSE UNCHANGED <<sk, woken>>
    /\ UNCHANGED <<upc, ackt, recvt, matched, userlog, panicked, netvars, peervars>>

\* Mutant of Waiting: looks for the packet by the number it waits for.
WaitingEnd(seq_num) == {e \in Range(sk.tx) : e.wait_ack_num = seq_num}

\* The packets of tx_data_list that start at seq_num.
Waiting(seq_num) == {e \in Range(sk.tx) : e.send_seq_num = seq_num}

\* Retransmit and re-arm, or find the packet acknowledged or the socket closed
\* and stop.
tcp_ack_timeout(seq_num) ==
    /\ KernelFree /\ seq_num \in ackt
    /\ IF sk.state = "CLOSED" \/ Waiting(seq_num) = {}
       THEN ackt' = ackt \ {seq_num} /\ UNCHANGED toPeer
       ELSE /\ Len(toPeer \o toUs) < MaxFlight
            /\ Sends(Packets(Waiting(seq_num)), << >>)
            /\ UNCHANGED ackt
    /\ UNCHANGED <<sk, upc, woken, connt, recvt, matched, userlog, panicked,
                   toUs, nfault, peervars>>

\* wait_id went through an int; the comparison with the uint64_t of the socket
\* sign-extends it.
ThroughInt(w) == (IF w < TICK_HALF THEN w ELSE w - 2 * TICK_HALF)
                    % (4 * TICK_HALF * TICK_HALF)

\* tcp_socket_recv_timeout: the check ...
tcp_socket_recv_timeout(work) ==
    /\ KernelFree /\ work \in recvt
    /\ recvt' = recvt \ {work}
    /\ matched' = (sk.wait_id = ThroughInt(work.wait_id))
    /\ UNCHANGED <<sk, upc, woken, ackt, connt, userlog, panicked, netvars, peervars>>

\* ... and the wakeup, with interrupts enabled in between.
RecvTimeoutWake ==
    /\ ~Halted /\ matched
    /\ matched' = FALSE
    /\ Wakeup
    /\ UNCHANGED <<sk, upc, ackt, connt, recvt, userlog, panicked, netvars, peervars>>

-----------------------------------------------------------------------------
\* The peer, before the connection: it listens, or is about to connect.  syn are
\* the flags of its first segment, una is what we have acknowledged, rcv what it
\* expects, fin whether it has sent a FIN.
PassivePeer == [state |-> "LISTEN", syn |-> SYN \cup ACK, sent |-> 0, fin |-> FALSE,
                una |-> 0, rcv |-> 0]
ActivePeer  == [PassivePeer EXCEPT !.state = "IDLE", !.syn = SYN]

-----------------------------------------------------------------------------
(* System calls of the user program.                                       *)

\* A call in a state it does not expect.
Panic ==
    /\ panicked' = TRUE
    /\ UNCHANGED <<sk, upc, woken, timers, userlog, netvars, peervars>>

\* task_sleep(socket) in call.
SleepIn(call) == upc' = call /\ woken' = FALSE

Called(call) == ncall' = [ncall EXCEPT ![call] = @ + 1]

tcp_socket_connect ==
    /\ ~Halted /\ upc = "connect"
    /\ \/ /\ sk.state # "CLOSED"
          /\ Panic
       \/ /\ sk.state = "CLOSED"
          /\ LET s == [sk EXCEPT !.sport = ncall.connect + 1]
             IN  /\ sk' = [Kept(s, SYN, 0) EXCEPT !.seq_num = @ + 1,
                                                 !.state = "SYN_SENT"]
                 /\ toPeer' = <<Built(s, SYN, 0)>>
                 /\ ArmAck({s.seq_num})
          /\ connt' = connt + 1
          /\ SleepIn("connect_sleep")
          /\ Called("connect")
          /\ toUs' = << >>
          /\ peer' = PassivePeer
          /\ UNCHANGED <<recvt, matched, read, eof, panicked, nfault, peergot>>

\* The clients of user_app.c try twice; then telnet and nc give up, and httpget
\* sends its request all the same.
ConnectReturn ==
    /\ ~Halted /\ upc = "connect_sleep" /\ woken
    /\ upc' \in IF sk.state = "ESTABLISHED" THEN {"open"}
                ELSE IF ncall.connect < MaxConnect THEN {"connect"} ELSE {"done", "refused"}
    /\ woken' = FALSE
    /\ UNCHANGED <<sk, timers, userlog, panicked, netvars, peervars>>

\* tcp_socket_bind, with the port the peer will connect to, and listen.
BindListen ==
    /\ ~Halted /\ upc = "bind"
    /\ IF sk.state # "CLOSED" THEN Panic
       ELSE /\ sk' = [sk EXCEPT !.sport = 1, !.state = "LISTEN"]
            /\ upc' = "accept"
            /\ UNCHANGED <<woken, timers, userlog, panicked, netvars, peervars>>

tcp_socket_accept ==
    /\ ~Halted /\ upc = "accept"
    /\ \/ sk.state # "LISTEN" /\ Panic
       \/ /\ sk.state = "LISTEN"
          /\ SleepIn("accept_sleep")
          /\ UNCHANGED <<sk, timers, userlog, panicked, netvars, peervars>>

\* ncserver goes on whatever accept returned.
AcceptReturn ==
    /\ ~Halted /\ upc = "accept_sleep" /\ woken
    /\ upc' = "open" /\ woken' = FALSE
    /\ UNCHANGED <<sk, timers, userlog, panicked, netvars, peervars>>

\* The bound on what is sent and waited for leaves room for more.
Room == ncall.send + ncall.empty + ncall.recv + peer.sent < MaxData

Sending(data) ==
    /\ sk' = Kept(sk, ACK, data)
    /\ Sends({}, <<Built(sk, ACK, data)>>)
    /\ ArmAck({sk.seq_num})

\* The next piece of data, or nothing.  A program does not send after recv has
\* returned -1.
tcp_socket_send ==
    /\ ~Halted
    /\ (upc = "open" /\ ~eof) \/ upc = "refused"
    /\ \/ sk.state # "ESTABLISHED" /\ Panic
       \/ /\ sk.state = "ESTABLISHED"
          /\ Room
          /\ \/ ncall.send < MaxSend /\ Sending(ncall.send + 1) /\ Called("send")
             \/ ncall.empty < MaxEmpty /\ Sending(0) /\ Called("empty")
          /\ UNCHANGED <<upc, woken, connt, recvt, matched, read, eof, panicked,
                         toUs, nfault, peervars>>

\* The end of tcp_socket_recv: nothing there, or as much of the first packet as
\* fits; the rest of it goes with the packet.
PopRx ==
    IF sk.rx = << >> THEN UNCHANGED <<sk, read>>
    ELSE /\ sk' = [sk EXCEPT !.rx = Tail(@)]
         /\ \E size \in Sizes :
               read' = Append(read, [data |-> Head(sk.rx), len |-> Min({size, DataLen})])

\* tcp_socket_recv that does not sleep: data is there, or the connection has
\* ended.  With a timeout of 0 on an empty list nothing changes.
RecvNow ==
    /\ ~Halted /\ upc = "open" /\ ~eof
    /\ sk.rx # << >> \/ sk.state # "ESTABLISHED"
    /\ PopRx
    /\ eof' = (sk.rx = << >>)
    /\ UNCHANGED <<upc, woken, timers, ncall, panicked, netvars, peervars>>

\* wait_id is the current tick.
RecvSleep ==
    /\ ~Halted /\ upc = "open" /\ ~eof /\ ncall.recv < MaxRecv /\ Room
    /\ sk.rx = << >> /\ sk.state = "ESTABLISHED"
    /\ \E tick \in sk.wait_id .. MaxTick :
          /\ sk' = [sk EXCEPT !.wait_id = tick]
          /\ recvt' = recvt \cup {[call |-> ncall.recv, wait_id |-> tick]}
    /\ SleepIn("recv_sleep")
    /\ Called("recv")
    /\ UNCHANGED <<ackt, connt, matched, read, eof, panicked, netvars, peervars>>

RecvReturn ==
    /\ ~Halted /\ upc = "recv_sleep" /\ woken
    /\ PopRx
    /\ upc' = "open" /\ woken' = FALSE
    /\ UNCHANGED <<timers, ncall, eof, panicked, netvars, peervars>>

tcp_socket_close ==
    /\ ~Halted /\ upc = "open"
    /\ \/ /\ sk.state = "ESTABLISHED"
          /\ sk' = [Kept(sk, ACK \cup FIN, 0) EXCEPT !.seq_num = @ + 1,
                                                   !.state = "FIN_WAIT_1"]
          /\ Sends({}, <<Built(sk, ACK \cup FIN, 0)>>)
          /\ ArmAck({sk.seq_num})
          /\ SleepIn("close_sleep")
          /\ UNCHANGED <<connt, recvt, matched, userlog, panicked, toUs, nfault, peervars>>
       \/ /\ sk.state = "CLOSED"
          /\ upc' = "done"
          /\ UNCHANGED <<sk, woken, timers, userlog, panicked, netvars, peervars>>
       \/ /\ sk.state # "ESTABLISHED" /\ sk.state # "CLOSED"
          /\ IF sk.state # "CLOSING" THEN Panic
             ELSE /\ SleepIn("close_sleep")
                  /\ UNCHANGED <<sk, timers, userlog, panicked, netvars, peervars>>

CloseReturn ==
    /\ ~Halted /\ upc = "close_sleep" /\ woken
    /\ upc' = "done" /\ woken' = FALSE
    /\ UNCHANGED <<sk, timers, userlog, panicked, netvars, peervars>>

-----------------------------------------------------------------------------
(* The network and the peer.                                               *)

Lose ==
    /\ ~Halted /\ nfault < MaxFault
    /\ nfault' = nfault + 1
    /\ \/ \E i \in DOMAIN toPeer : toPeer' = RemoveAt(toPeer, i) /\ UNCHANGED toUs
       \/ \E i \in DOMAIN toUs : toUs' = RemoveAt(toUs, i) /\ UNCHANGED toPeer
    /\ UNCHANGED <<sk, upc, woken, timers, userlog, panicked, peervars>>

\* The peer numbers its SYN 0, its data 1, 2, ... and then its FIN; data i
\* carries the data i.
PeerNext == peer.sent + (IF peer.fin THEN 2 ELSE 1)

PeerSeg(q) ==
    Segment(IF q = 0 THEN peer.syn
            ELSE IF q <= peer.sent THEN ACK ELSE ACK \cup FIN,
            q, peer.rcv, IF 1 <= q /\ q <= peer.sent THEN q ELSE 0, sk.sport)

PeerAck(p) == Segment(ACK, p.sent + (IF p.fin THEN 2 ELSE 1), p.rcv, 0, sk.sport)

\* The next state of the peer when it takes m.
Advanced(m) ==
    LET p  == [peer EXCEPT !.una = IF "ACK" \in m.flags /\ m.ack <= PeerNext
                                   THEN Max({@, m.ack}) ELSE @]
        inOrder == m.seq = p.rcv /\ (m.data # 0 \/ "FIN" \in m.flags)
    IN  [p EXCEPT !.rcv = IF inOrder THEN @ + 1 ELSE @]

\* The peer answers what takes up sequence numbers, in order or not.
PeerTakes(m) ==
    \/ /\ peer.state = "LISTEN"
       /\ "SYN" \in m.flags
       /\ peer' = [peer EXCEPT !.state = "OPEN", !.rcv = m.seq + 1]
       /\ toUs' = Append(toUs, [PeerSeg(0) EXCEPT !.ack = m.seq + 1])
       /\ UNCHANGED peergot
    \/ /\ peer.state = "SYN_SENT"
       /\ {"SYN", "ACK"} \subseteq m.flags
       /\ peer' = [peer EXCEPT !.state = "OPEN", !.rcv = m.seq + 1, !.una = 1]
       /\ toUs' = Append(toUs, PeerAck(peer'))
       /\ UNCHANGED peergot
    \/ /\ peer.state = "OPEN"
       /\ peer' = Advanced(m)
       /\ peergot' = IF peer'.rcv > peer.rcv /\ m.data # 0 THEN Append(peergot, m.data)
                     ELSE peergot
       /\ toUs' = IF m.data = 0 /\ m.flags = ACK THEN toUs
                  ELSE Append(toUs, IF peer'.una = 0 THEN PeerSeg(0) ELSE PeerAck(peer'))

PeerRx ==
    /\ ~Halted
    /\ \E m \in Range(toPeer) : Delivers(toPeer, m) /\ PeerTakes(m)
    /\ UNCHANGED <<sk, upc, woken, timers, userlog, panicked>>

\* Connected from the peer's side.
PeerUp == peer.state = "OPEN" /\ peer.una > 0

\* The peer of a listening socket opens the connection.
PeerConnect ==
    /\ ~Halted /\ peer.state = "IDLE" /\ sk.state = "LISTEN"
    /\ peer' = [peer EXCEPT !.state = "SYN_SENT"]
    /\ toUs' = Append(toUs, PeerSeg(0))
    /\ UNCHANGED <<sk, upc, woken, timers, userlog, panicked, toPeer, nfault, peergot>>

PeerSend ==
    /\ ~Halted /\ PeerUp /\ ~peer.fin /\ peer.sent < MaxPeerData /\ Room
    /\ peer' = [peer EXCEPT !.sent = @ + 1]
    /\ toUs' = Append(toUs, Segment(ACK, peer.sent + 1, peer.rcv, peer.sent + 1, sk.sport))
    /\ UNCHANGED <<sk, upc, woken, timers, userlog, panicked, toPeer, nfault, peergot>>

PeerFin ==
    /\ ~Halted /\ PeerUp /\ ~peer.fin
    /\ peer' = [peer EXCEPT !.fin = TRUE]
    /\ toUs' = Append(toUs, Segment(ACK \cup FIN, peer.sent + 1, peer.rcv, 0, sk.sport))
    /\ UNCHANGED <<sk, upc, woken, timers, userlog, panicked, toPeer, nfault, peergot>>

\* The oldest segment we have not acknowledged is sent again.
PeerRetransmit ==
    /\ ~Halted /\ peer.state \in {"OPEN", "SYN_SENT"} /\ peer.una < PeerNext
    /\ Len(toPeer \o toUs) < MaxPeerFlight
    /\ toUs' = Append(toUs, PeerSeg(peer.una))
    /\ UNCHANGED <<sk, upc, woken, timers, userlog, panicked, toPeer, nfault, peervars>>

-----------------------------------------------------------------------------
TcpInit ==
    /\ sk = NewSocket
    /\ \/ "client" \in Roles /\ upc = "connect" /\ peer = PassivePeer
       \/ "server" \in Roles /\ upc = "bind" /\ peer = ActivePeer
    /\ woken = FALSE
    /\ ackt = {} /\ connt = 0 /\ recvt = {} /\ matched = FALSE
    /\ ncall = [connect |-> 0, send |-> 0, empty |-> 0, recv |-> 0]
    /\ read = << >> /\ eof = FALSE /\ panicked = FALSE
    /\ toPeer = << >> /\ toUs = << >> /\ nfault = 0
    /\ peergot = << >>

\* The user programs: a client connects (nc), a server listens (ncserver), and
\* then they send, receive and close (telnet).
ClientStep == tcp_socket_connect \/ ConnectReturn

ServerStep == BindListen \/ tcp_socket_accept \/ AcceptReturn

TalkStep ==
    \/ tcp_socket_send \/ RecvNow \/ RecvSleep \/ RecvReturn
    \/ tcp_socket_close \/ CloseReturn

WorkStep ==
    \/ tcp_connect_timeout
    \/ \E n \in ackt : tcp_ack_timeout(n)
    \/ \E w \in recvt : tcp_socket_recv_timeout(w)
    \/ RecvTimeoutWake

PeerStep ==
    \/ PeerRx \/ PeerConnect \/ PeerSend \/ PeerFin \/ PeerRetransmit

TcpNext == TcpRx \/ ClientStep \/ ServerStep \/ TalkStep \/ WorkStep \/ PeerStep \/ Lose

TcpSpec == TcpInit /\ [][TcpNext]_vars

RecvWorks == [call : 0 .. MaxRecv - 1, wait_id : 0 .. MaxTick]

\* The kernel task runs due works, the user task runs when woken, the peer
\* retransmits and takes what arrives.
TcpFairSpec ==
    /\ TcpSpec
    /\ WF_vars(ConnectReturn \/ RecvReturn \/ CloseReturn)
    /\ WF_vars(TcpRx \/ RecvTimeoutWake)
    /\ WF_vars(tcp_connect_timeout)
    /\ \A n \in 0 .. MaxSend + MaxConnect : WF_vars(tcp_ack_timeout(n))
    /\ \A w \in RecvWorks : WF_vars(tcp_socket_recv_timeout(w))
    /\ WF_vars(PeerRx) /\ WF_vars(PeerRetransmit)

-----------------------------------------------------------------------------
(* Properties.                                                             *)

Segments ==
    [flags : SUBSET {"SYN", "ACK", "FIN"}, seq : Nat, ack : Nat, data : Nat, port : Nat]

\* The socket, the user program, the timers, the network and the peer keep to
\* their types (tcp.c:28-82).
TcpTypeOK ==
    /\ sk.state \in TCP_STATE
    /\ {sk.seq_num, sk.ack_num, sk.wait_id, sk.sport} \subseteq Nat
    /\ \A i \in 1 .. Len(sk.rx) : sk.rx[i] \in 1 .. MaxPeerData
    /\ \A i \in 1 .. Len(sk.tx) :
          sk.tx[i] \in [send_seq_num : Nat, wait_ack_num : Nat,
                        dup_ack_num : 0 .. RETRANSMIT_DUP_ACK_NUM, pkt : Segments]
    /\ upc \in {"connect", "bind", "accept", "open", "refused", "done"} \/ Sleeping
    /\ woken => Sleeping
    /\ ackt \subseteq Nat /\ connt \in Nat /\ recvt \subseteq RecvWorks /\ matched \in BOOLEAN
    /\ \A i \in 1 .. Len(read) : read[i] \in [data : 1 .. MaxPeerData, len : 1 .. DataLen]
    /\ Range(toPeer) \cup Range(toUs) \subseteq Segments
    /\ peer.state \in {"IDLE", "LISTEN", "SYN_SENT", "OPEN"}

\* Reliable sending (tcp_send, handle_ack, tcp_ack_timeout): as long as the
\* connection lasts, what was given to tcp_socket_send and the peer has not
\* received is in tx_data_list and its retransmission timer is armed, whatever
\* was lost, duplicated or acknowledged in between.
UnackedKept ==
    sk.state \in {"ESTABLISHED", "FIN_WAIT_1", "CLOSING"} =>
      \A d \in 1 .. ncall.send :
         \/ d \in Range(peergot)
         \/ \E e \in Range(sk.tx) : e.pkt.data = d /\ e.send_seq_num \in ackt

\* The segments tcp_socket_recv has taken, and all that have been received.
Taken == [i \in 1 .. Len(read) |-> read[i].data]

Received == Taken \o sk.rx

\* The byte stream (tcp_recv_pkt, ESTABLISHED): on the first connection of a
\* socket that connects, tcp_socket_recv takes the peer's segments in order, each
\* one once and none left out, and gives the program all of a segment unless the
\* program asked for less: then it gives as much as asked for.  (The rest of that
\* segment is lost, tcp.c:521-524, for nc on a segment of more than 100 bytes.  A
\* second connect keeps what the first left unread, and SYN_RCVD takes whatever
\* data comes first.)
StreamInOrder ==
    ncall.connect = 1 =>
      /\ Len(Received) <= peer.sent
      /\ \A i \in 1 .. Len(Received) : Received[i] = i
      /\ \A i \in 1 .. Len(read) : read[i].len < DataLen => read[i].len \in Sizes

\* The peer receives what was given to tcp_socket_send in order, each piece once:
\* tcp_send numbers them without a gap, also after SYNs that were given up.
PeerStreamInOrder ==
    /\ Len(peergot) <= ncall.send
    /\ \A i \in 1 .. Len(peergot) : peergot[i] = i

\* A packet with this flag is kept, and its tcp_ack_timeout repeats it.
Repeated(flag) == \E e \in Range(sk.tx) : flag \in e.pkt.flags /\ e.send_seq_num \in ackt

\* The timeout of the receive that sleeps is ahead of it, or about to wake it.
TimeoutAhead == matched \/ \E w \in recvt : w.wait_id = sk.wait_id

\* What a sleeper waits for is still to come, wherever segments, timeouts and
\* wakeups fall (tcp.c:196-203, 276, 483-510): connect sleeps in SYN_SENT with its
\* timeout armed; recv has nothing to read, and the timeout of its own wait_id is
\* ahead or about to wake it, if it began before the tick 2^31 (from there on the
\* timeout does not know the wait_id again, and only data wakes the receiver);
\* accept sleeps before the connection, and once a SYN has come the SYN|ACK is
\* repeated until the peer answers; close waits for the peer's FIN, or for its last
\* ACK with our FIN repeated.  In LISTEN and in FIN_WAIT_1 it is the peer alone that
\* can end the wait.
SleeperWaits ==
    ~woken =>
      /\ upc = "connect_sleep" => sk.state = "SYN_SENT" /\ connt > 0
      /\ upc = "recv_sleep" =>
            /\ sk.rx = << >>
            /\ sk.wait_id < TICK_HALF => TimeoutAhead
      /\ upc = "accept_sleep" =>
            sk.state = "LISTEN" \/ (sk.state = "SYN_RCVD" /\ Repeated("SYN"))
      /\ upc = "close_sleep" =>
            sk.state = "FIN_WAIT_1" \/ (sk.state = "CLOSING" /\ Repeated("FIN"))

\* tcp_socket_connect returns (tcp.c:188-204).
ConnectReturns == upc = "connect_sleep" ~> upc # "connect_sleep"

\* What is given to tcp_socket_send reaches the peer, unless the connection is
\* closed or the program stops the machine (tcp_ack_timeout).
DataDelivered ==
    \A d \in 1 .. MaxSend :
       ncall.send >= d ~> d \in Range(peergot) \/ sk.state = "CLOSED" \/ panicked

\* ack_num is the "next waiting rx seq num" (tcp.c:79): all data of the peer
\* below it has been received.
AckNumIsNext == \A d \in 1 .. peer.sent : d < sk.ack_num => d \in Range(Received)

\* The socket calls panic in two cases only.  A segment of the peer was handled
\* between two of them: its FIN before tcp_socket_send, or before the second
\* connect when the first finds the connection closed again, or its SYN before
\* tcp_socket_accept.  Or both connects of httpget have failed and it sends all the
\* same.  A program that has its connection and a peer that keeps it: then nothing
\* that is lost, late or repeated stops the machine, the timeout of an earlier
\* connect among it.
PanicOnlyOnRace ==
    panicked => \/ upc \in {"connect", "open"} /\ peer.fin
                \/ upc = "accept" /\ peer.state # "IDLE"
                \/ upc = "refused" /\ ncall.connect >= MaxConnect

\* The call a sleeping program is in.
SleepingCall == [connect_sleep |-> "connect", accept_sleep |-> "accept",
                 recv_sleep |-> "recv", close_sleep |-> "close"]
C == INSTANCE Connection WITH
        state <- sk.state, ready <- (sk.rx # << >>),
        call <- IF Sleeping THEN SleepingCall[upc] ELSE "none", woke <- woken, halted <- panicked

\* The socket keeps what Connection promises the programs: the order of its
\* states, which calls sleep, what wakes them and which ones panic, whatever
\* the network does to the segments (tcp_recv_pkt and the system calls).
ConnectionSpec == C!ConnSpec

=============================================================================
