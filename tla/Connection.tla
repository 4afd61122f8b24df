----------------------------- MODULE Connection -----------------------------
(***************************************************************************)
(* What a TCP socket of net/tcp.c promises the program that owns it: the   *)
(* states it goes through, which calls sleep and what wakes them, and the  *)
(* calls that stop the machine.  Tcp implements it; Shell is built on it.  *)
(***************************************************************************)
VARIABLES
    state,      \* TCP_STATE of the socket
    ready,      \* rx_data_list is not empty
    call,       \* the call that sleeps on the socket: "connect", "accept", "recv",
                \* "close" or "none"
    woke,       \* it has been woken and runs next
    halted      \* a call has met a state it does not expect

connvars == <<state, ready, call, woke, halted>>

ConnInit ==
    /\ state = "CLOSED" /\ ready = FALSE
    /\ call = "none" /\ woke = FALSE /\ halted = FALSE

-----------------------------------------------------------------------------
(* The calls.                                                              *)

\* The states in which a call may be made; in any other it panics.
Expects == [connect |-> {"CLOSED"}, listen |-> {"CLOSED"}, accept |-> {"LISTEN"},
            send |-> {"ESTABLISHED"}, close |-> {"ESTABLISHED", "CLOSING", "CLOSED"}]

May(op) == ~halted /\ call = "none" /\ state \in Expects[op]

Misused(op) ==
    /\ ~halted /\ call = "none" /\ state \notin Expects[op]
    /\ halted' = TRUE /\ UNCHANGED <<state, ready, call, woke>>

Sleeps(c) == call' = c /\ woke' = FALSE

Connect == May("connect") /\ state' = "SYN_SENT" /\ Sleeps("connect") /\ UNCHANGED <<ready, halted>>

Listen == May("listen") /\ state' = "LISTEN" /\ UNCHANGED <<ready, call, woke, halted>>

Accept == May("accept") /\ Sleeps("accept") /\ UNCHANGED <<state, ready, halted>>

Send == May("send") /\ UNCHANGED connvars

\* A receive that finds data takes the first packet of the list.
RecvTake ==
    /\ ~halted /\ call = "none" /\ ready
    /\ ready' \in BOOLEAN
    /\ UNCHANGED <<state, call, woke, halted>>

\* One that finds none sleeps while the connection is open.
RecvWait ==
    /\ ~halted /\ call = "none" /\ ~ready /\ state = "ESTABLISHED"
    /\ Sleeps("recv") /\ UNCHANGED <<state, ready, halted>>

Close ==
    /\ May("close")
    /\ \/ state = "CLOSED" /\ UNCHANGED connvars
       \/ /\ state # "CLOSED"
          /\ state' = IF state = "ESTABLISHED" THEN "FIN_WAIT_1" ELSE state
          /\ Sleeps("close") /\ UNCHANGED <<ready, halted>>

\* The sleeper goes on; a receive takes what is there by now.
Return ==
    /\ ~halted /\ call # "none" /\ woke
    /\ call' = "none" /\ woke' = FALSE
    /\ ready' \in IF call = "recv" /\ ready THEN BOOLEAN ELSE {ready}
    /\ UNCHANGED <<state, halted>>

UserCall ==
    \/ \E op \in DOMAIN Expects : Misused(op)
    \/ Connect \/ Listen \/ Accept \/ Send \/ RecvTake \/ RecvWait \/ Close \/ Return

-----------------------------------------------------------------------------
(* What the segments of the peer and the timeouts do meanwhile.            *)

Wakes == woke' = (call # "none")

\* SYN|ACK, or tcp_connect_timeout.
ConnectEnds ==
    /\ state = "SYN_SENT" /\ state' \in {"ESTABLISHED", "CLOSED"}
    /\ Wakes /\ UNCHANGED ready

Knock == state = "LISTEN" /\ state' = "SYN_RCVD" /\ UNCHANGED <<ready, woke>>

\* The third segment of the handshake may carry data.
Accepted == state = "SYN_RCVD" /\ state' = "ESTABLISHED" /\ ready' \in {ready, TRUE} /\ Wakes

Arrives == state = "ESTABLISHED" /\ ready' = TRUE /\ Wakes /\ UNCHANGED state

\* A FIN by itself wakes nobody; data that comes with it does.
PeerCloses ==
    /\ state = "ESTABLISHED" /\ state' = "CLOSING"
    /\ \/ UNCHANGED <<ready, woke>>
       \/ ready' = TRUE /\ Wakes

CloseEnds == state \in {"CLOSING", "FIN_WAIT_1"} /\ state' = "CLOSED" /\ Wakes /\ UNCHANGED ready

\* tcp_socket_recv_timeout, of this receive or of the last one before a close.
RecvExpires == call \in {"recv", "close"} /\ Wakes /\ UNCHANGED <<state, ready>>

Network ==
    /\ ~halted
    /\ UNCHANGED <<call, halted>>
    /\ ConnectEnds \/ Knock \/ Accepted \/ Arrives \/ PeerCloses \/ CloseEnds \/ RecvExpires

ConnNext == UserCall \/ Network

ConnSpec == ConnInit /\ [][ConnNext]_connvars

=============================================================================
