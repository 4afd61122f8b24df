------------------------------- MODULE Buffers -------------------------------
(***************************************************************************)
(* Who owns the blocks of memory: the packets, works, timers, arguments    *)
(* and messages that the card's handler, the clock, the kernel task and    *)
(* the system calls allocate, hand to each other and free (dev/r8169.c,    *)
(* core/workqueue.c, core/timer.c, net/*.c).                               *)
(*                                                                         *)
(* The memory manager is what Memory shows it to be: mem_alloc returns a   *)
(* block that is not in use.  A handler allocates and frees blocks no      *)
(* other one knows of, so it is one step; the kernel task takes a work,    *)
(* runs it and frees it in steps of its own.  A packet that is sent and    *)
(* freed in the same function (ARP, ICMP, UDP, raw, TCP without an ack to  *)
(* wait for) leaves the memory as it was.  Addresses are numbers, and the  *)
(* lowest free one is given out.                                           *)
(***************************************************************************)
EXTENDS Integers, Sequences, FiniteSets, Functions

CONSTANTS
    BLOCKS,         \* number of blocks
    MaxFrames,      \* bound: frames received
    MaxSends,       \* bound: tcp_send calls that wait for an ack
    MaxRecvs,       \* bound: receives that sleep
    MaxCopies,      \* bound: packets copied for a socket
    MaxExpiries     \* bound: timers that end

ASSUME BuffersAssumption == {BLOCKS, MaxFrames, MaxSends, MaxRecvs, MaxCopies, MaxExpiries} \subseteq Nat

VARIABLES
    used,       \* blocks whose flag is USED
    works,      \* the work queue: [task, func, arg]
    running,    \* the kernel task: [at: "loop", "func" or "free", work]
    armed,      \* the timer list: [timer, work]
    tx,         \* tx_data_list of a socket, in the order of seq: [seq, blocks]
    rx,         \* rx_data_list of a socket
    closed,     \* the TCP socket is in state CLOSED
    lost,       \* log: blocks that nothing points to any more
    calls,      \* [frame, send, recv, copy, expiry]: events so far, against the bounds
    stopped     \* mem_alloc has panicked: not enough memory

bufvars == <<used, works, running, armed, tx, rx, closed, lost, calls, stopped>>

-----------------------------------------------------------------------------
Unused == (0 .. BLOCKS - 1) \ used

\* The blocks that k calls of mem_alloc return.
New(k) == [i \in 1 .. k |-> CHOOSE b \in Unused : Cardinality({c \in Unused : c < b}) = i - 1]

NoMemory ==
    stopped' = TRUE /\ UNCHANGED <<used, works, running, armed, tx, rx, closed, lost, calls>>

Enough(k) == Cardinality(Unused) >= k

Counts(event) == calls' = [calls EXCEPT ![event] = @ + 1]

Work(task, func, arg) == [task |-> task, func |-> func, arg |-> arg]

Arms(timer, work) == armed' = armed \cup {[timer |-> timer, work |-> work]}

Idle == [at |-> "loop"]

-----------------------------------------------------------------------------
(* Interrupts.                                                             *)

\* receive_packet: pktbuf and buffer, and the work of wq_push.
receive_packet ==
    /\ ~stopped /\ calls.frame < MaxFrames
    /\ IF ~Enough(3) THEN NoMemory
       ELSE LET b == New(3)
            IN  /\ used' = used \cup Range(b)
                /\ works' = Append(works, Work(b[3], "ether_rx", <<b[1], b[2]>>))
                /\ Counts("frame")
                /\ UNCHANGED <<running, armed, tx, rx, closed, lost, stopped>>

\* int_pit at the end of a timer: wq_push_timer_func takes the work, the timer
\* is freed.
TimerExpires ==
    /\ ~stopped /\ calls.expiry < MaxExpiries
    /\ \E t \in armed :
          /\ works' = Append(works, t.work)
          /\ armed' = armed \ {t}
          /\ used' = used \ {t.timer}
    /\ Counts("expiry")
    /\ UNCHANGED <<running, tx, rx, closed, lost, stopped>>

-----------------------------------------------------------------------------
(* System calls.                                                           *)

\* udp_socket_recv, raw_socket_recv and tcp_socket_recv that sleep, and
\* tcp_socket_connect: an argument and the work and timer of wq_push_with_delay.
RecvWaits ==
    /\ ~stopped /\ calls.recv < MaxRecvs
    /\ IF ~Enough(3) THEN NoMemory
       ELSE LET b == New(3)
            IN  /\ used' = used \cup Range(b)
                /\ Arms(b[3], Work(b[2], "recv_timeout", <<b[1]>>))
                /\ Counts("recv")
                /\ UNCHANGED <<works, running, tx, rx, closed, lost, stopped>>

\* The message is copied and taken off the list, and not freed.
RecvTakes ==
    /\ ~stopped /\ rx # << >>
    /\ rx' = Tail(rx)
    /\ lost' = lost \cup Range(Head(rx))
    /\ UNCHANGED <<used, works, running, armed, tx, closed, calls, stopped>>

\* udp_socket_free and raw_socket_free, which no program calls yet: the messages
\* left are freed.
SocketFreed ==
    /\ ~stopped /\ rx # << >>
    /\ rx' = << >>
    /\ used' = used \ UNION {Range(rx[i]) : i \in DOMAIN rx}
    /\ UNCHANGED <<works, running, armed, tx, closed, lost, calls, stopped>>

\* tcp_send with need_ack, by a system call or by the kernel task in tcp_rx: the
\* packet is kept in tx_data_list, and the argument of tcp_ack_timeout names it
\* by its sequence number.  In state CLOSED it is the SYN of a connect.
tcp_send ==
    /\ ~stopped /\ calls.send < MaxSends
    /\ IF ~Enough(6) THEN NoMemory
       ELSE LET b == New(6)
                seq == calls.send + 1
            IN  /\ used' = used \cup Range(b)
                /\ tx' = tx \cup {[seq |-> seq, blocks |-> <<b[1], b[2], b[3]>>]}
                /\ Arms(b[6], Work(b[5], "ack_timeout", <<b[4], seq>>))
                /\ closed' = FALSE
                /\ Counts("send")
                /\ UNCHANGED <<works, running, rx, lost, stopped>>

\* The connection ends (tcp_rx, tcp_connect_timeout); packets that wait for their
\* ack stay in tx_data_list.
Closes ==
    /\ ~stopped /\ ~closed
    /\ closed' = TRUE
    /\ UNCHANGED <<used, works, running, armed, tx, rx, lost, calls, stopped>>

-----------------------------------------------------------------------------
(* The kernel task: wq_execute.                                            *)

KernelPops ==
    /\ ~stopped /\ running.at = "loop" /\ works # << >>
    /\ running' = [at |-> "func", work |-> Head(works)]
    /\ works' = Tail(works)
    /\ UNCHANGED <<used, armed, tx, rx, closed, lost, calls, stopped>>

Runs(func) == ~stopped /\ running.at = "func" /\ running.work.func = func

FuncReturns == running' = [running EXCEPT !.at = "free"]

\* udp_rx, raw_recv and tcp_recv_pkt: the data of the packet is copied into the
\* list of a socket, or, of a TCP segment out of order, into a message that is
\* then forgotten.
Deliver ==
    /\ Runs("ether_rx") /\ calls.copy < MaxCopies
    /\ IF ~Enough(2) THEN NoMemory
       ELSE /\ used' = used \cup Range(New(2))
            /\ \/ rx' = Append(rx, New(2)) /\ UNCHANGED lost
               \/ lost' = lost \cup Range(New(2)) /\ UNCHANGED rx
            /\ Counts("copy")
            /\ UNCHANGED <<works, running, armed, tx, closed, stopped>>

\* handle_ack: the first acknowledged packet behind the head, and the head.
First(S) == {e \in S : \A f \in S : e.seq <= f.seq}
Acked(ack) ==
    LET acked == {e \in tx : e.seq <= ack}
    IN  (acked \cap First(tx)) \cup First(acked \ First(tx))

handle_ack ==
    /\ Runs("ether_rx") /\ ~closed
    /\ \E ack \in 1 .. calls.send :
          /\ Acked(ack) # {}
          /\ tx' = tx \ Acked(ack)
          /\ used' = used \ UNION {Range(e.blocks) : e \in Acked(ack)}
    /\ UNCHANGED <<works, running, armed, rx, closed, lost, calls, stopped>>

\* ether_rx never frees the packet, answered, copied or dropped.
ether_rx ==
    /\ Runs("ether_rx")
    /\ lost' = lost \cup Range(running.work.arg)
    /\ FuncReturns
    /\ UNCHANGED <<used, works, armed, tx, rx, closed, calls, stopped>>

recv_timeout ==
    /\ Runs("recv_timeout")
    /\ used' = used \ {running.work.arg[1]}
    /\ FuncReturns
    /\ UNCHANGED <<works, armed, tx, rx, closed, lost, calls, stopped>>

\* Mutant of tcp_ack_timeout: the argument is freed also when it is armed again.
tcp_ack_timeoutFrees ==
    /\ Runs("ack_timeout")
    /\ LET arg == running.work.arg
           waits == ~closed /\ \E e \in tx : e.seq = arg[2]
       IN  /\ used' = (used \ {arg[1]}) \cup (IF waits THEN Range(New(2)) ELSE {})
           /\ IF waits THEN Arms(New(2)[2], Work(New(2)[1], "ack_timeout", arg)) ELSE UNCHANGED armed
    /\ FuncReturns
    /\ UNCHANGED <<works, tx, rx, closed, lost, calls, stopped>>

\* The packet is sent again and the same argument armed with a new work and
\* timer, or the argument is freed.
tcp_ack_timeout ==
    /\ Runs("ack_timeout")
    /\ LET arg == running.work.arg
       IN  IF closed \/ \A e \in tx : e.seq # arg[2]
           THEN used' = used \ {arg[1]} /\ FuncReturns /\ UNCHANGED <<armed, stopped>>
           ELSE IF ~Enough(2) THEN stopped' = TRUE /\ UNCHANGED <<used, armed, running>>
           ELSE /\ used' = used \cup Range(New(2))
                /\ Arms(New(2)[2], Work(New(2)[1], "ack_timeout", arg))
                /\ FuncReturns
                /\ UNCHANGED stopped
    /\ UNCHANGED <<works, tx, rx, closed, lost, calls>>

WorkFreed ==
    /\ ~stopped /\ running.at = "free"
    /\ used' = used \ {running.work.task}
    /\ running' = Idle
    /\ UNCHANGED <<works, armed, tx, rx, closed, lost, calls, stopped>>

-----------------------------------------------------------------------------
BuffersInit ==
    /\ used = {} /\ works = << >> /\ running = Idle /\ armed = {}
    /\ tx = {} /\ rx = << >> /\ closed = TRUE /\ lost = {}
    /\ calls = [frame |-> 0, send |-> 0, recv |-> 0, copy |-> 0, expiry |-> 0] /\ stopped = FALSE

BuffersNext ==
    \/ receive_packet \/ TimerExpires
    \/ RecvWaits \/ RecvTakes \/ SocketFreed \/ tcp_send \/ Closes
    \/ KernelPops \/ Deliver \/ handle_ack \/ ether_rx
    \/ recv_timeout \/ tcp_ack_timeout \/ WorkFreed

BuffersSpec == BuffersInit /\ [][BuffersNext]_bufvars

-----------------------------------------------------------------------------
\* The blocks of a work: its own, and those its argument points to (the second
\* part of tcp_ack_timeout's is a sequence number).
WorkBlocks(w) ==
    IF w.func = "ether_rx" THEN <<w.task, w.arg[1], w.arg[2]>> ELSE <<w.task, w.arg[1]>>

\* The blocks of a timer: its own, and those of the work it will push.
TimerBlocks(t) == <<t.timer, t.work.task, t.work.arg[1]>>

\* Those who have blocks to free or to hand on.
Owners ==
    ({"work"} \X DOMAIN works) \cup ({"timer"} \X armed) \cup ({"unacked"} \X tx)
    \cup ({"message"} \X DOMAIN rx)
    \cup (IF running.at = "loop" THEN {} ELSE {<<"running", 0>>})

BlocksOf(o) ==
    CASE o[1] = "work"    -> WorkBlocks(works[o[2]])
      [] o[1] = "timer"   -> TimerBlocks(o[2])
      [] o[1] = "unacked" -> o[2].blocks
      [] o[1] = "message" -> rx[o[2]]
      [] o[1] = "running" -> IF running.at = "func" THEN WorkBlocks(running.work)
                             ELSE <<running.work.task>>

\* Their pointers, and the block one points to.
Pointers == UNION {{o} \X DOMAIN BlocksOf(o) : o \in Owners}
Pointed(p) == BlocksOf(p[1])[p[2]]

\* Every block in use has one owner, and no owner's block is free or given to
\* another: works, timers, arguments and packets that wait for an ack are freed
\* at most once, by the last that points to them, however timeouts, acks and the
\* kernel task interleave.  The blocks to which every pointer is dropped are those
\* of received packets and of messages (ether_rx, udp_socket_recv,
\* tcp_socket_recv, tcp.c:684-692).  That an owner frees what it has is not said:
\* the packets left in tx_data_list when the socket is closed (the FIN|ACK of
\* tcp.c:708, the SYN of a connect that failed) still belong to that list, and
\* only an ack on a later connection of the same socket would free them.
OneOwner ==
    /\ \A p, q \in Pointers : Pointed(p) = Pointed(q) => p = q
    /\ {Pointed(p) : p \in Pointers} \cap lost = {}
    /\ {Pointed(p) : p \in Pointers} \cup lost = used

=============================================================================
