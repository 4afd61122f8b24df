------------------------------- MODULE MCShell -------------------------------
(* Model checking of Shell: one key for every command.                     *)
EXTENDS Shell

Cmd(prog, dest, literal, arg) ==
    [prog |-> prog, dest |-> dest, literal |-> literal, arg |-> arg]

\* 1 is the newline, 2 the word exit.
MCCommand ==
    << Cmd("none", "", FALSE, ""),
       Cmd("none", "", FALSE, ""),
       Cmd("ping", "a.org", FALSE, ""),
       Cmd("traceroute", "b.org", FALSE, ""),
       Cmd("httpget", "b.org", FALSE, ""),
       Cmd("telnet", "10.0.0.1", TRUE, ""),
       Cmd("nc", "a.org", FALSE, ""),
       Cmd("nc", "10.0.0.1", TRUE, "no port"),
       Cmd("nctest", "", FALSE, ""),
       Cmd("ncserver", "", FALSE, ""),
       Cmd("ncserver", "", FALSE, "no port"),
       Cmd("httpget", "", FALSE, "malformed") >>

MCKeys == DOMAIN MCCommand
=============================================================================
