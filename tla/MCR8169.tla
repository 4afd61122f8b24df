------------------------------ MODULE MCR8169 -------------------------------
(* Model checking of R8169: short rings, and a few packets more than they  *)
(* hold.                                                                   *)
EXTENDS R8169

\* Mostly receiving, mostly sending, and both.
MCLoads == {[frames |-> 7, pkts |-> 1, senders |-> {"syscall"}],
            [frames |-> 1, pkts |-> 7, senders |-> {"syscall"}],
            [frames |-> 1, pkts |-> 5, senders |-> {"work"}],
            [frames |-> 3, pkts |-> 3, senders |-> {"work"}]}

\* The kernel task and a system call send.
MCRaceLoads == {[frames |-> 0, pkts |-> 7, senders |-> {"syscall", "work"}]}
=============================================================================
