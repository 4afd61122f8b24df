----------------------------- MODULE ShellProofs -----------------------------
(***************************************************************************)
(* The user task, for any commands, tables of any size and any number of   *)
(* unread answers: an address is the one of the name the program was       *)
(* given, echo requests leave as ICMP while only ping and traceroute run,  *)
(* and only the four known panics stop the machine.                        *)
(***************************************************************************)
EXTENDS Shell, TLAPS

Cmds  == {Command[k] : k \in Keys}
Names == {c.dest : c \in Cmds} \cup Hops

Pings == {"ping", "traceroute"}

AnyCmd == Cmds \cup {[prog |-> "none"]}

Locals == [line : Seq(Keys), cmd : AnyCmd, usock : Nat,
           addr : Names \cup {NONE}, n : Nat, final : BOOLEAN]

ShellTypeOK ==
    /\ queue \in Seq(Keys)
    /\ p \in Locals
    /\ nsock \in [raw : Nat, udp : 0 .. SOCKET_COUNT, tcp : Nat]
    /\ asked \subseteq [sock : 0 .. nsock.udp - 1, name : Names]
    /\ inbox \in [0 .. SOCKET_COUNT - 1 -> Seq(Names)]
    /\ pc # "prompt" => p.cmd \in Cmds

\* A socket that is not in use has no packets; the one of a program has only
\* answers to its own question, until it has its address.
DnsInv ==
    /\ \A s \in nsock.udp .. SOCKET_COUNT - 1 : inbox[s] = << >>
    /\ pc \in {"ask", "answer", "echo", "echoed", "host"} => p.usock < nsock.udp
    /\ pc \in {"ask", "answer"} =>
         /\ \A m \in asked : m.sock = p.usock => m.name = p.cmd.dest
         /\ \A i \in 1 .. Len(inbox[p.usock]) : inbox[p.usock][i] = p.cmd.dest
    /\ pc = "prompt" => p.addr = NONE
    /\ AddrOwnAnswer

\* ping and traceroute open a raw socket before their UDP socket.
SockInv ==
    /\ pc = "raw_socket" => p.cmd.prog \in Pings
    /\ ~mixed => nsock.udp <= nsock.raw
    /\ ~mixed /\ pc = "udp_socket" /\ p.cmd.prog \in Pings => nsock.udp < nsock.raw
    /\ EchoOnIcmp

\* The state the TCP socket of a program may be in at each of its calls.
Quiet  == {"prompt", "raw_socket", "udp_socket", "ask", "answer", "echo", "echoed",
           "host", "tcp_socket", "listen"}
Joined == {"ESTABLISHED", "CLOSING", "CLOSED"}

ConnInv ==
    /\ call = CASE pc = "connecting" -> "connect" [] pc = "accepting" -> "accept"
                [] pc = "receiving" -> "recv" [] pc = "closing" -> "close"
                [] OTHER -> "none"
    /\ state = "CLOSING" => peerfin
    /\ pc \in Quiet => state = "CLOSED"
    /\ pc \in {"listen", "accept", "accepting", "receiving"} => ~Loops
    /\ pc = "connect" => state \in {"CLOSING", "CLOSED"}
    /\ pc = "connecting" => IF woke THEN state \in Joined ELSE state = "SYN_SENT"
    /\ pc = "accepting" => IF woke THEN state \in Joined ELSE state \in {"LISTEN", "SYN_RCVD"}
    /\ pc \in {"send", "recv", "receiving", "getc", "close"} => state \in Joined
    /\ pc = "send" => state = "ESTABLISHED" \/ peerfin \/ p.cmd.prog = "httpget"
    /\ pc = "getc" \/ (pc = "recv" /\ Loops) => Loops /\ (state = "ESTABLISHED" \/ peerfin)

\* Every panic is a known one, and freezes the machine.
ShellInv == ShellTypeOK /\ DnsInv /\ SockInv /\ ConnInv /\ PanicOnlyKnown

-----------------------------------------------------------------------------
\* The first call of a command opens a socket, if there is one; only ping and
\* traceroute begin with a raw socket.
LEMMA EntryCall ==
    ASSUME NEW c
    PROVE  /\ Entry(c) \in {"raw_socket", "udp_socket", "tcp_socket", "return"}
           /\ Entry(c) = "raw_socket" <=> c.prog \in Pings
  BY DEF Entry, Pings

\* With an address a program sends its first echo request, opens its TCP socket
\* or returns.
LEMMA AddressCall == WithAddress \in {"echo", "tcp_socket", "return"}
  BY DEF WithAddress

\* Typing and reading keep the queue a queue of keys; reads return a key.
LEMMA QueueKeeps ==
    ASSUME queue \in Seq(Keys), (\E k \in Keys : Type(k)) \/ Read \/ Poll \/ Wait
    PROVE  queue' \in Seq(Keys) /\ (Read => last' \in Keys)
<1>1. ASSUME NEW k \in Keys, Type(k) PROVE queue' \in Seq(Keys)
  BY <1>1 DEF Type
<1>2. CASE Read
  BY <1>2 DEF Read
<1>3. CASE Poll \/ Wait
  BY <1>3 DEF Poll, Wait, Read
<1> QED
  BY <1>1, <1>2, <1>3 DEF Read, Poll, Wait

\* The resolver's part is kept by a step that leaves the sockets and the
\* answers alone and does not go back to the question.
LEMMA DnsKept ==
    ASSUME ShellInv, UNCHANGED <<asked, inbox, nsock>>,
           p'.cmd = p.cmd, p'.usock = p.usock, p'.addr = p.addr,
           pc' \in {"ask", "answer", "echo", "echoed", "host"} => pc' = pc,
           pc' = "prompt" => pc = "prompt"
    PROVE  DnsInv'
  BY DEF ShellInv, DnsInv, AddrOwnAnswer

\* The tables are kept by a step that opens no socket and sends no request.
LEMMA SockKept ==
    ASSUME ShellInv, UNCHANGED <<nsock, echo, mixed>>,
           pc' \in {"raw_socket", "udp_socket"} => pc' = pc /\ p'.cmd = p.cmd
    PROVE  SockInv'
  BY DEF ShellInv, SockInv, EchoOnIcmp

\* The connection is kept by a step of a program that has none yet.
LEMMA ConnKept ==
    ASSUME ShellInv, UNCHANGED <<state, call, peerfin>>, pc \in Quiet,
           pc' \in (Quiet \cup {"connect", "return"}), pc' = "listen" => ~Loops'
    PROVE  ConnInv'
  BY DEF ShellInv, ConnInv, Quiet, Joined, Loops

-----------------------------------------------------------------------------
\* The command line: a key is read or waited for, a command begins or returns.
LEMMA PromptKeeps ==
    ASSUME ShellInv, userland_main \/ PromptSleeps \/ KeyTyped
    PROVE  ShellInv'
<1> USE DEF ShellInv
<1>1. /\ UNCHANGED <<state, ready, call, woke, halted, asked, inbox, nsock, echo, peerfin, mixed>>
      /\ ~halted /\ halted' = halted
  BY DEF userland_main, PromptSleeps, KeyTyped, connvars, dnsvars, logvars, At
<1>2. PanicOnlyKnown'
  BY <1>1 DEF PanicOnlyKnown
<1>3. CASE PromptSleeps \/ KeyTyped
  <2>1. UNCHANGED <<pc, p>>
    BY <1>3 DEF PromptSleeps, KeyTyped
  <2>2. queue' \in Seq(Keys)
    BY <1>3, QueueKeeps, ShellAssumption DEF PromptSleeps, KeyTyped, ShellTypeOK
  <2>3. ShellTypeOK'
    BY <1>1, <2>1, <2>2 DEF ShellTypeOK
  <2>4. DnsInv' /\ SockInv'
    BY <1>1, <2>1 DEF DnsInv, SockInv, AddrOwnAnswer, EchoOnIcmp
  <2>5. ConnInv'
    BY <1>1, <2>1 DEF ConnInv, Loops
  <2> QED
    BY <1>2, <2>3, <2>4, <2>5
<1>4. CASE userland_main
  <2> DEFINE buf == IF last' = ENTER THEN p.line ELSE Append(p.line, last')
  <2>1. pc = "prompt" /\ queue' \in Seq(Keys) /\ last' \in Keys
    BY <1>4, QueueKeeps DEF userland_main, At, ShellTypeOK
  <2>2. buf \in Seq(Keys)
    BY <2>1 DEF ShellTypeOK, Locals
  <2>3. CASE buf # << >> /\ (last' = ENTER \/ Len(buf) > LINE_MAX)
    <3> DEFINE c == Command[Head(buf)]
    <3>1. Head(buf) \in Keys
      BY <2>2, <2>3
    <3>2. c \in Cmds
      BY <3>1 DEF Cmds
    <3>3. p' = [p EXCEPT !.cmd = c, !.line = << >>] /\ pc' = Entry(c)
      BY <1>4, <2>3 DEF userland_main, exec_command
    <3> HIDE DEF c, buf
    <3>4. p'.cmd = c /\ p'.usock = p.usock /\ p'.addr = NONE
      BY <2>1, <3>3 DEF ShellTypeOK, Locals, DnsInv
    <3>5. ShellTypeOK'
      <4>1. c \in AnyCmd /\ << >> \in Seq(Keys)
        BY <3>2 DEF AnyCmd
      <4>2. p' \in Locals
        BY <3>3, <4>1 DEF ShellTypeOK, Locals
      <4> QED
        BY <1>1, <2>1, <3>2, <3>4, <4>2 DEF ShellTypeOK
    <3>6. pc' \in {"raw_socket", "udp_socket", "tcp_socket", "return"}
          /\ (pc' = "raw_socket" <=> c.prog \in Pings)
      BY <3>3, EntryCall
    <3>7. DnsInv'
      BY <1>1, <3>4, <3>6 DEF DnsInv, AddrOwnAnswer
    <3>8. SockInv'
      BY <1>1, <3>4, <3>6 DEF SockInv, EchoOnIcmp
    <3>9. ConnInv'
      BY <1>1, <2>1, <3>6, ConnKept DEF Quiet
    <3> QED
      BY <1>2, <3>5, <3>7, <3>8, <3>9
  <2>4. CASE ~(buf # << >> /\ (last' = ENTER \/ Len(buf) > LINE_MAX))
    <3>1. p' = [p EXCEPT !.line = buf] /\ pc' = pc
      BY <1>4, <2>4 DEF userland_main
    <3> HIDE DEF buf
    <3>2. p'.cmd = p.cmd /\ p'.usock = p.usock /\ p'.addr = p.addr
      BY <3>1 DEF ShellTypeOK, Locals
    <3>3. ShellTypeOK'
      BY <1>1, <2>1, <2>2, <3>1 DEF ShellTypeOK, Locals
    <3>4. DnsInv' /\ SockInv' /\ ConnInv'
      BY <1>1, <2>1, <3>1, <3>2, DnsKept, SockKept, ConnKept DEF Quiet
    <3> QED
      BY <1>2, <3>3, <3>4
  <2> QED
    BY <2>3, <2>4
<1> QED
  BY <1>3, <1>4

\* A command returns: its locals and its connection are gone.
LEMMA ReturnKeeps ==
    ASSUME ShellInv, CommandReturns
    PROVE  ShellInv'
<1> USE DEF ShellInv
<1>1. /\ pc' = "prompt" /\ p' = NoLocals /\ state' = "CLOSED" /\ peerfin' = FALSE
      /\ call' = call /\ pc = "return" /\ ~halted /\ halted' = halted
      /\ queue' = queue /\ UNCHANGED <<asked, inbox, echo, mixed, nsock>>
  BY DEF CommandReturns, At, qvars
<1>2. ShellTypeOK'
  BY <1>1 DEF ShellTypeOK, Locals, NoLocals, AnyCmd
<1>3. p'.addr = NONE
  BY <1>1 DEF NoLocals
<1>4. DnsInv' /\ SockInv'
  BY <1>1, <1>3 DEF DnsInv, SockInv, AddrOwnAnswer, EchoOnIcmp
<1>5. ConnInv'
  BY <1>1 DEF ConnInv
<1>6. PanicOnlyKnown'
  BY <1>1 DEF PanicOnlyKnown
<1> QED
  BY <1>2, <1>4, <1>5, <1>6

\* A raw or TCP socket is opened, or there is none left.
LEMMA SocketKeeps ==
    ASSUME ShellInv, RawSocket \/ TcpSocket \/ SocketPanics
    PROVE  ShellInv'
<1> USE DEF ShellInv
<1>1. /\ UNCHANGED <<state, ready, call, woke, asked, inbox, echo, peerfin, mixed, p>>
      /\ queue' = queue /\ ~halted
  BY DEF RawSocket, TcpSocket, SocketPanics, connvars, dnsvars, logvars, qvars, At
<1>2. CASE SocketPanics
  <2>1. pc' = pc /\ nsock' = nsock /\ pc \in {"raw_socket", "udp_socket", "tcp_socket"}
    BY <1>2 DEF SocketPanics, At
  <2>2. ShellTypeOK'
    BY <1>1, <2>1 DEF ShellTypeOK
  <2>3. DnsInv' /\ SockInv' /\ ConnInv'
    BY <1>1, <2>1, DnsKept, SockKept, ConnKept DEF Quiet
  <2>4. PanicOnlyKnown'
    BY <2>1 DEF PanicOnlyKnown
  <2> QED
    BY <2>2, <2>3, <2>4
<1>3. CASE RawSocket
  <2>1. pc = "raw_socket" /\ pc' = "udp_socket" /\ halted' = halted
        /\ nsock' = [nsock EXCEPT !.raw = @ + 1]
    BY <1>3 DEF RawSocket, At, Opened, connvars
  <2>2. nsock'.raw = nsock.raw + 1 /\ nsock'.udp = nsock.udp
        /\ nsock' \in [raw : Nat, udp : 0 .. SOCKET_COUNT, tcp : Nat]
    BY <2>1 DEF ShellTypeOK
  <2>3. ShellTypeOK'
    BY <1>1, <2>1, <2>2 DEF ShellTypeOK
  <2>4. DnsInv'
    BY <1>1, <2>1, <2>2 DEF DnsInv, AddrOwnAnswer
  <2>5. SockInv'
    BY <1>1, <2>1, <2>2 DEF SockInv, EchoOnIcmp, ShellTypeOK
  <2>6. ConnInv'
    BY <1>1, <2>1, ConnKept DEF Quiet
  <2> QED
    BY <1>1, <2>1, <2>3, <2>4, <2>5, <2>6 DEF PanicOnlyKnown
<1>4. CASE TcpSocket
  <2>1. pc = "tcp_socket" /\ pc' \in {"connect", "return", "listen"} /\ halted' = halted
        /\ nsock' = [nsock EXCEPT !.tcp = @ + 1]
    BY <1>4 DEF TcpSocket, At, Opened, connvars
  <2>2. nsock'.raw = nsock.raw /\ nsock'.udp = nsock.udp
        /\ nsock' \in [raw : Nat, udp : 0 .. SOCKET_COUNT, tcp : Nat]
    BY <2>1 DEF ShellTypeOK
  <2>3. ShellTypeOK'
    BY <1>1, <2>1, <2>2 DEF ShellTypeOK
  <2>4. DnsInv'
    BY <1>1, <2>1, <2>2 DEF DnsInv, AddrOwnAnswer
  <2>5. SockInv'
    BY <1>1, <2>1, <2>2 DEF SockInv, EchoOnIcmp, ShellTypeOK
  <2>6. ConnInv'
    <3>1. pc' = "listen" => ~Loops'
      BY <1>1, <1>4 DEF TcpSocket, Loops
    <3> QED
      BY <1>1, <2>1, <3>1, ConnKept DEF Quiet
  <2> QED
    BY <1>1, <2>1, <2>3, <2>4, <2>5, <2>6 DEF PanicOnlyKnown
<1> QED
  BY <1>2, <1>3, <1>4

\* The names asked for.
LEMMA DestIsName ==
    ASSUME ShellInv, pc # "prompt"
    PROVE  p.cmd.dest \in Names
  BY DEF ShellInv, ShellTypeOK, Names

\* A UDP socket is opened: no question has been asked on it and no packet is
\* waiting in it.
LEMMA UdpSocketKeeps ==
    ASSUME ShellInv, UdpSocket
    PROVE  ShellInv'
<1> USE DEF ShellInv
<1> DEFINE u == nsock.udp
           a == IF p.cmd.literal /\ p.cmd.prog # "httpget" THEN p.cmd.dest ELSE NONE
<1>1. /\ UNCHANGED <<state, ready, call, woke, halted, asked, inbox, echo, peerfin>>
      /\ queue' = queue /\ ~halted /\ pc = "udp_socket"
      /\ mixed' = (mixed \/ p.cmd.prog \notin Pings)
      /\ nsock' = [nsock EXCEPT !.udp = @ + 1]
      /\ p' = [p EXCEPT !.usock = u, !.addr = a]
  BY DEF UdpSocket, connvars, dnsvars, qvars, At, Opened, Pings
<1>2. pc' \in {"ask", "echo", "tcp_socket", "return"}
  BY AddressCall DEF UdpSocket
<1>3. /\ nsock'.udp = u + 1 /\ nsock'.raw = nsock.raw /\ u \in 0 .. SOCKET_COUNT - 1
      /\ nsock' \in [raw : Nat, udp : 0 .. SOCKET_COUNT, tcp : Nat]
  <2>1. u \in 0 .. SOCKET_COUNT /\ u < SOCKET_COUNT /\ SOCKET_COUNT \in Nat
    BY ShellAssumption DEF UdpSocket, ShellTypeOK
  <2> QED
    BY <1>1, <2>1 DEF ShellTypeOK
<1>4. a \in {p.cmd.dest, NONE}
  OBVIOUS
<1> HIDE DEF a
<1>5. p' \in Locals /\ p'.usock = u /\ p'.addr = a /\ p'.cmd = p.cmd
  <2>1. a \in Names \cup {NONE}
    BY <1>1, <1>4, DestIsName
  <2>2. u \in Nat
    BY <1>3
  <2> QED
    BY <1>1, <2>1, <2>2 DEF ShellTypeOK, Locals
<1>6. ShellTypeOK'
  <2>1. asked' \subseteq [sock : 0 .. nsock'.udp - 1, name : Names]
    BY <1>1, <1>3 DEF ShellTypeOK
  <2> QED
    BY <1>1, <1>2, <1>3, <1>5, <2>1 DEF ShellTypeOK
<1>7. DnsInv'
  <2>1. inbox[u] = << >> /\ \A m \in asked : m.sock # u
    BY <1>3 DEF DnsInv, ShellTypeOK
  <2>2. \A i \in 1 .. Len(inbox[u]) : inbox[u][i] = p.cmd.dest
    BY <2>1
  <2>3. \A s \in nsock'.udp .. SOCKET_COUNT - 1 : inbox'[s] = << >>
    BY <1>1, <1>3, ShellAssumption DEF DnsInv, ShellTypeOK
  <2> QED
    BY <1>1, <1>2, <1>3, <1>4, <1>5, <2>1, <2>2, <2>3 DEF DnsInv, AddrOwnAnswer
<1>8. SockInv'
  <2>1. ~mixed' => ~mixed /\ p.cmd.prog \in Pings
    BY <1>1
  <2>2. ~mixed' => nsock'.udp <= nsock'.raw
    BY <1>1, <1>3, <2>1 DEF SockInv, ShellTypeOK
  <2> QED
    BY <1>1, <1>2, <2>1, <2>2 DEF SockInv, EchoOnIcmp
<1>9. ConnInv'
  BY <1>1, <1>2, ConnKept DEF Quiet
<1> QED
  BY <1>1, <1>6, <1>7, <1>8, <1>9 DEF PanicOnlyKnown

\* A question on the socket of the program.
LEMMA AskKeeps ==
    ASSUME ShellInv, NEW name \in Names, AsksFor(name), p.usock < nsock.udp,
           UNCHANGED nsock
    PROVE  /\ asked' \subseteq [sock : 0 .. nsock'.udp - 1, name : Names]
           /\ inbox' = inbox
           /\ \A m \in asked' : m \in asked \/ m.name = name
<1>1. [sock |-> p.usock, name |-> name] \in [sock : 0 .. nsock.udp - 1, name : Names]
  BY DEF ShellInv, ShellTypeOK, Locals
<1> QED
  BY <1>1 DEF AsksFor, ShellInv, ShellTypeOK

\* A read of the socket takes away its first packet, which is a name.
LEMMA ReadsKeep ==
    ASSUME ShellInv, TimesOut \/ ReadsAnswer, p.usock < nsock.udp
    PROVE  /\ asked' = asked /\ inbox' \in [0 .. SOCKET_COUNT - 1 -> Seq(Names)]
           /\ \A s \in 0 .. SOCKET_COUNT - 1 : s # p.usock => inbox'[s] = inbox[s]
           /\ ReadsAnswer =>
                /\ answer' \in Names
                /\ \E i \in 1 .. Len(inbox[p.usock]) : answer' = inbox[p.usock][i]
<1>1. p.usock \in 0 .. SOCKET_COUNT - 1 /\ inbox \in [0 .. SOCKET_COUNT - 1 -> Seq(Names)]
  BY ShellAssumption DEF ShellInv, ShellTypeOK, Locals
<1>2. CASE TimesOut
  BY <1>1, <1>2 DEF TimesOut, ReadsAnswer, dnsvars
<1>3. CASE ReadsAnswer
  <2> DEFINE b == inbox[p.usock]
  <2>1. b \in Seq(Names) /\ b # << >>
    BY <1>1, <1>3 DEF ReadsAnswer
  <2>2. Tail(b) \in Seq(Names) /\ Head(b) \in Names /\ Head(b) = b[1] /\ 1 \in 1 .. Len(b)
    BY <2>1
  <2>3. /\ asked' = asked /\ answer' = Head(b)
        /\ inbox' = [inbox EXCEPT ![p.usock] = Tail(b)]
    BY <1>3 DEF ReadsAnswer
  <2> HIDE DEF b
  <2>4. \E i \in 1 .. Len(b) : answer' = b[i]
    BY <2>2, <2>3
  <2> QED
    BY <1>1, <2>2, <2>3, <2>4 DEF b
<1> QED
  BY <1>2, <1>3

\* The question and its answer.
LEMMA ResolveKeeps ==
    ASSUME ShellInv, AskAddr \/ resolve_addr
    PROVE  ShellInv'
<1> USE DEF ShellInv
<1>1. /\ UNCHANGED <<state, ready, call, woke, halted, echo, peerfin, mixed, nsock>>
      /\ queue' = queue /\ ~halted /\ pc \in {"ask", "answer"} /\ p.usock < nsock.udp
  BY DEF AskAddr, resolve_addr, connvars, logvars, qvars, At, DnsInv
<1>2. CASE AskAddr
  <2>1. pc' = "answer" /\ p' = p /\ AsksFor(p.cmd.dest) /\ pc = "ask"
    BY <1>2 DEF AskAddr, At
  <2>2. /\ asked' \subseteq [sock : 0 .. nsock'.udp - 1, name : Names]
        /\ inbox' = inbox
        /\ \A m \in asked' : m \in asked \/ m.name = p.cmd.dest
    BY <1>1, <2>1, AskKeeps, DestIsName
  <2>3. ShellTypeOK'
    BY <1>1, <2>1, <2>2 DEF ShellTypeOK
  <2>4. DnsInv'
    BY <1>1, <2>1, <2>2 DEF DnsInv, AddrOwnAnswer
  <2>5. SockInv' /\ ConnInv'
    BY <1>1, <2>1, SockKept, ConnKept DEF Quiet
  <2> QED
    BY <1>1, <2>3, <2>4, <2>5 DEF PanicOnlyKnown
<1>3. CASE resolve_addr
  <2>1. TimesOut \/ ReadsAnswer
    BY <1>3 DEF resolve_addr
  <2>2. pc' \in {"return", "echo", "tcp_socket"}
    BY <1>3, AddressCall DEF resolve_addr
  <2>3. /\ p' \in Locals /\ p'.cmd = p.cmd /\ p'.usock = p.usock
        /\ p'.addr \in {p.addr, p.cmd.dest}
    <3>1. CASE p' = p
      BY <3>1 DEF ShellTypeOK
    <3>2. CASE ReadsAnswer /\ p' = [p EXCEPT !.addr = answer']
      <4>1. answer' = p.cmd.dest /\ answer' \in Names
        BY <1>1, <1>3, <3>2, ReadsKeep DEF DnsInv, resolve_addr, At
      <4> QED
        BY <3>2, <4>1 DEF ShellTypeOK, Locals
    <3> QED
      BY <1>3, <3>1, <3>2 DEF resolve_addr
  <2>4. ShellTypeOK'
    BY <1>1, <2>1, <2>3, ReadsKeep DEF ShellTypeOK
  <2>5. \A s \in nsock'.udp .. SOCKET_COUNT - 1 : inbox'[s] = << >>
    <3> TAKE s \in nsock'.udp .. SOCKET_COUNT - 1
    <3>1. s \in 0 .. SOCKET_COUNT - 1 /\ s # p.usock /\ s \in nsock.udp .. SOCKET_COUNT - 1
      BY <1>1, ShellAssumption DEF ShellTypeOK, Locals
    <3> QED
      BY <1>1, <2>1, <3>1, ReadsKeep DEF DnsInv
  <2>6. DnsInv'
    BY <1>1, <2>2, <2>3, <2>5 DEF DnsInv, AddrOwnAnswer
  <2>7. SockInv' /\ ConnInv'
    BY <1>1, <2>2, SockKept, ConnKept DEF Quiet
  <2> QED
    BY <1>1, <2>4, <2>6, <2>7 DEF PanicOnlyKnown
<1> QED
  BY <1>2, <1>3

\* An answer arrives: the socket it is for is in use, and the name is the one
\* asked for on that socket.
LEMMA ResolverKeeps ==
    ASSUME ShellInv, Resolver
    PROVE  ShellInv'
<1> USE DEF ShellInv
<1>1. PICK m \in asked :
          /\ inbox' = [inbox EXCEPT ![m.sock] = Append(@, m.name)]
          /\ asked' \in {asked, asked \ {m}}
  BY DEF Resolver
<1>2. /\ UNCHANGED <<state, ready, call, woke, halted, echo, peerfin, mixed, nsock, pc, p>>
      /\ queue' = queue /\ ~halted
  BY DEF Resolver, connvars, logvars, qvars
<1>3. /\ m.sock \in 0 .. nsock.udp - 1 /\ m.name \in Names
      /\ m.sock \in 0 .. SOCKET_COUNT - 1 /\ asked' \subseteq asked
  BY <1>1, ShellAssumption DEF ShellTypeOK
<1> DEFINE b == inbox[m.sock]
<1>4. /\ b \in Seq(Names) /\ Append(b, m.name) \in Seq(Names)
      /\ Len(Append(b, m.name)) = Len(b) + 1
      /\ \A i \in 1 .. Len(b) : Append(b, m.name)[i] = b[i]
      /\ Append(b, m.name)[Len(b) + 1] = m.name
  BY <1>3 DEF ShellTypeOK
<1>5. inbox' = [inbox EXCEPT ![m.sock] = Append(b, m.name)]
  BY <1>1
<1>6. ShellTypeOK'
  BY <1>2, <1>3, <1>4, <1>5 DEF ShellTypeOK
<1>7. DnsInv'
  <2>1. \A s \in nsock.udp .. SOCKET_COUNT - 1 : inbox'[s] = << >>
    <3> TAKE s \in nsock.udp .. SOCKET_COUNT - 1
    <3>1. s \in 0 .. SOCKET_COUNT - 1 /\ s # m.sock
      BY <1>3, ShellAssumption DEF ShellTypeOK
    <3> QED
      BY <1>5, <3>1 DEF DnsInv, ShellTypeOK
  <2>2. ASSUME pc \in {"ask", "answer"}
        PROVE  \A i \in 1 .. Len(inbox'[p.usock]) : inbox'[p.usock][i] = p.cmd.dest
    <3>1. p.usock \in 0 .. SOCKET_COUNT - 1
      BY <2>2, ShellAssumption DEF DnsInv, ShellTypeOK, Locals
    <3>2. CASE p.usock = m.sock
      <4>1. m.name = p.cmd.dest /\ \A i \in 1 .. Len(b) : b[i] = p.cmd.dest
        BY <2>2, <3>2 DEF DnsInv
      <4>2. inbox'[p.usock] = Append(b, m.name)
        BY <1>5, <3>1, <3>2 DEF ShellTypeOK
      <4>3. \A i \in 1 .. Len(b) + 1 : Append(b, m.name)[i] = p.cmd.dest
        BY <1>4, <4>1
      <4> QED
        BY <1>4, <4>2, <4>3
    <3>3. CASE p.usock # m.sock
      <4>1. inbox'[p.usock] = inbox[p.usock]
        BY <1>5, <3>1, <3>3 DEF ShellTypeOK
      <4> QED
        BY <2>2, <4>1 DEF DnsInv
    <3> QED
      BY <3>2, <3>3
  <2> QED
    BY <1>2, <1>3, <2>1, <2>2 DEF DnsInv, AddrOwnAnswer
<1>8. SockInv' /\ ConnInv'
  BY <1>2 DEF SockInv, EchoOnIcmp, ConnInv, Loops
<1> QED
  BY <1>2, <1>6, <1>7, <1>8 DEF PanicOnlyKnown

\* ping and traceroute: the number of the UDP socket is below that of the next
\* raw one, so the request leaves as ICMP.
LEMMA EchoKeeps ==
    ASSUME ShellInv, EchoProgram
    PROVE  ShellInv'
<1> USE DEF ShellInv
<1>1. /\ UNCHANGED <<state, ready, call, woke, halted, peerfin, mixed, nsock>>
      /\ queue' = queue /\ ~halted /\ pc \in {"echo", "echoed", "host"}
      /\ p.usock < nsock.udp
  BY DEF EchoProgram, EchoSend, EchoReturns, resolve_host, connvars, logvars, qvars, At, DnsInv
<1>2. pc' \in {"return", "echo", "echoed", "host"}
  BY DEF EchoProgram, EchoSend, EchoReturns, resolve_host
<1>3. ConnInv' /\ PanicOnlyKnown'
  BY <1>1, <1>2, ConnKept DEF Quiet, PanicOnlyKnown
<1>4. p' \in Locals /\ p'.cmd = p.cmd /\ p'.usock = p.usock /\ p'.addr = p.addr
  <2>1. CASE p' = p
    BY <2>1 DEF ShellTypeOK
  <2>2. CASE p' = [p EXCEPT !.n = @ + 1]
    BY <2>2 DEF ShellTypeOK, Locals
  <2>3. CASE \E reply \in BOOLEAN : p' = [p EXCEPT !.final = reply]
    BY <2>3 DEF ShellTypeOK, Locals
  <2> QED
    BY <2>1, <2>2, <2>3 DEF EchoProgram, EchoSend, EchoReturns, resolve_host
<1>5. CASE EchoSend
  <2>1. UNCHANGED <<asked, inbox>> /\ pc = "echo"
    BY <1>5 DEF EchoSend, dnsvars, At
  <2>2. ShellTypeOK'
    BY <1>1, <1>4, <2>1 DEF ShellTypeOK
  <2>3. DnsInv'
    BY <1>1, <1>2, <1>4, <2>1 DEF DnsInv, AddrOwnAnswer
  <2>4. ~mixed => p.usock < nsock.raw
    BY <1>1 DEF SockInv, ShellTypeOK, Locals
  <2>5. ~mixed' => echo' \in {"none", "ICMP"}
    BY <1>1, <1>5, <2>4 DEF EchoSend, SockInv, EchoOnIcmp
  <2>6. SockInv'
    BY <1>1, <1>2, <1>4, <2>5 DEF SockInv, EchoOnIcmp
  <2> QED
    BY <1>3, <2>2, <2>3, <2>6
<1>6. CASE EchoReturns \/ resolve_host
  <2>1. echo' = echo
    BY <1>6 DEF EchoReturns, resolve_host, logvars
  <2>2. SockInv'
    BY <1>1, <1>2, <2>1, SockKept
  <2>3. /\ asked' \subseteq [sock : 0 .. nsock.udp - 1, name : Names]
        /\ inbox' \in [0 .. SOCKET_COUNT - 1 -> Seq(Names)]
        /\ \A s \in 0 .. SOCKET_COUNT - 1 : s # p.usock => inbox'[s] = inbox[s]
    <3>1. CASE UNCHANGED dnsvars
      BY <3>1 DEF dnsvars, ShellTypeOK
    <3>2. ASSUME NEW hop \in Hops, AsksFor(hop)
          PROVE  /\ asked' \subseteq [sock : 0 .. nsock.udp - 1, name : Names]
                 /\ inbox' = inbox
      BY <1>1, <3>2, AskKeeps DEF Names
    <3>3. CASE TimesOut \/ ReadsAnswer
      BY <1>1, <3>3, ReadsKeep DEF ShellTypeOK
    <3> QED
      BY <1>6, <3>1, <3>2, <3>3 DEF EchoReturns, resolve_host, ShellTypeOK
  <2>4. ShellTypeOK'
    BY <1>1, <1>4, <2>3 DEF ShellTypeOK
  <2>5. \A s \in nsock.udp .. SOCKET_COUNT - 1 : inbox'[s] = << >>
    <3> TAKE s \in nsock.udp .. SOCKET_COUNT - 1
    <3>1. s \in 0 .. SOCKET_COUNT - 1 /\ s # p.usock
      BY <1>1, ShellAssumption DEF ShellTypeOK, Locals
    <3> QED
      BY <2>3, <3>1 DEF DnsInv
  <2>6. DnsInv'
    BY <1>1, <1>2, <1>4, <2>5 DEF DnsInv, AddrOwnAnswer
  <2> QED
    BY <1>3, <2>2, <2>4, <2>6
<1> QED
  BY <1>5, <1>6 DEF EchoProgram

-----------------------------------------------------------------------------
\* The labels of a program that has its TCP socket.
Talking == {"connect", "connecting", "listen", "accept", "accepting", "send", "recv",
            "receiving", "getc", "close", "closing"}

\* What every call of a TCP program leaves alone.
LEMMA TcpFrame ==
    ASSUME ShellInv, TcpProgram
    PROVE  /\ UNCHANGED <<asked, inbox, nsock, echo, peerfin, mixed>>
           /\ ~halted /\ pc \in Talking /\ pc' \in Talking \cup {"return"}
           /\ queue' \in Seq(Keys) /\ p' \in Locals
           /\ p'.cmd = p.cmd /\ p'.usock = p.usock /\ p'.addr = p.addr
<1>1. UNCHANGED <<asked, inbox, nsock, echo, peerfin, mixed>> /\ ~halted
  BY DEF TcpProgram, ConnectCall, ConnectReturns, ListenCall, AcceptCall, AcceptReturns,
         SendCall, RecvCall, RecvReturns, TelnetKey, NcKey, CloseCall, CloseReturns,
         dnsvars, logvars, At
<1>2. pc \in Talking /\ pc' \in Talking \cup {"return"}
  BY DEF TcpProgram, ConnectCall, ConnectReturns, ListenCall, AcceptCall, AcceptReturns,
         SendCall, RecvCall, RecvReturns, TelnetKey, NcKey, CloseCall, CloseReturns,
         Calls, AfterData, Talking, At
<1>3. queue \in Seq(Keys) /\ p \in Locals
  BY DEF ShellInv, ShellTypeOK
<1>4. queue' \in Seq(Keys)
  <2>1. CASE queue' = queue
    BY <1>3, <2>1
  <2>2. CASE Read \/ Poll
    BY <1>3, <2>2, QueueKeeps
  <2> QED
    BY <2>1, <2>2 DEF TcpProgram, ConnectCall, ConnectReturns, ListenCall, AcceptCall,
         AcceptReturns, SendCall, RecvCall, RecvReturns, TelnetKey, NcKey, CloseCall,
         CloseReturns, qvars
<1>5. /\ p' \in Locals
      /\ p'.cmd = p.cmd /\ p'.usock = p.usock /\ p'.addr = p.addr
  <2>1. CASE p' = p
    BY <1>3, <2>1
  <2>2. ASSUME NEW i \in Nat, p' = [p EXCEPT !.n = i]
        PROVE  /\ p' \in Locals
               /\ p'.cmd = p.cmd /\ p'.usock = p.usock /\ p'.addr = p.addr
    BY <1>3, <2>2 DEF Locals
  <2>3. p.n \in Nat /\ p.n + 1 \in Nat /\ 0 \in Nat
    BY <1>3 DEF Locals
  <2>4. CASE NcKey /\ p' # p
    <3>1. PICK line \in Seq(Keys) : p' = [p EXCEPT !.line = line]
      <4>1. CASE p' = [p EXCEPT !.line = << >>]
        <5>1. << >> \in Seq(Keys)
          OBVIOUS
        <5> QED
          BY <4>1, <5>1
      <4>2. CASE Read /\ p' = [p EXCEPT !.line = Append(@, last')]
        <5>1. last' \in Keys /\ p.line \in Seq(Keys)
          BY <1>3, <4>2, QueueKeeps DEF Locals
        <5>2. Append(p.line, last') \in Seq(Keys)
          BY <5>1
        <5> QED
          BY <4>2, <5>2
      <4>3. CASE /\ Read
                 /\ p' = [p EXCEPT !.line = IF Len(p.line) + 1 > LINE_MAX THEN << >>
                                           ELSE Append(@, last')]
        <5>1. CASE Len(p.line) + 1 > LINE_MAX
          BY <4>1, <4>3, <5>1
        <5>2. CASE ~(Len(p.line) + 1 > LINE_MAX)
          BY <4>2, <4>3, <5>2
        <5> QED
          BY <5>1, <5>2
      <4> QED
        BY <2>4, <4>1, <4>3 DEF NcKey
    <3> QED
      BY <1>3, <3>1 DEF Locals
  <2>5. CASE ConnectReturns \/ (SendCall /\ p' # p)
    <3>1. p' = [p EXCEPT !.n = 0] \/ p' = [p EXCEPT !.n = p.n + 1]
      BY <2>5 DEF ConnectReturns, SendCall, Calls
    <3> QED
      BY <2>2, <2>3, <3>1
  <2>6. CASE p' # p
    <3>1. ConnectReturns \/ SendCall \/ NcKey
      BY <2>6 DEF TcpProgram, ConnectCall, ListenCall, AcceptCall, AcceptReturns,
           RecvCall, RecvReturns, TelnetKey, CloseCall, CloseReturns, Calls
    <3> QED
      BY <2>4, <2>5, <2>6, <3>1
  <2> QED
    BY <2>1, <2>6
<1> QED
  BY <1>1, <1>2, <1>4, <1>5

\* A program that calls, sleeps in or comes back from its socket finds it in one
\* of the states that ConnInv lists for the call.
LEMMA TcpConn ==
    ASSUME ShellInv, TcpProgram
    PROVE  ConnInv' /\ PanicOnlyKnown'
<1> USE DEF ShellInv
<1>1. ~halted /\ peerfin' = peerfin /\ p'.cmd = p.cmd /\ Loops' = Loops
  BY TcpFrame DEF Loops
<1>2. CASE ConnectCall
  <2>1. CASE state \in Expects["connect"]
    BY <1>1, <1>2, <2>1 DEF ConnectCall, Calls, Connect, Sleeps, At, ConnInv, Quiet, PanicOnlyKnown
  <2>2. CASE state \notin Expects["connect"]
    <3>1. state # "CLOSED"
      BY <2>2 DEF Expects
    <3> QED
      BY <1>1, <1>2, <2>2, <3>1 DEF ConnectCall, Calls, Misused, At, ConnInv, Quiet, PanicOnlyKnown
  <2> QED
    BY <2>1, <2>2
<1>3. CASE ConnectReturns
  BY <1>1, <1>3 DEF ConnectReturns, Return, At, ConnInv, Quiet, Joined, Loops, PanicOnlyKnown
<1>4. CASE ListenCall
  <2>1. state \in Expects["listen"]
    BY <1>4 DEF ListenCall, At, ConnInv, Quiet, Expects
  <2> QED
    BY <1>1, <1>4, <2>1 DEF ListenCall, Calls, Listen, At, ConnInv, Quiet, PanicOnlyKnown
<1>5. CASE AcceptCall
  <2>1. CASE state \in Expects["accept"]
    <3>1. state = "LISTEN"
      BY <2>1 DEF Expects
    <3> QED
      BY <1>1, <1>5, <2>1, <3>1 DEF AcceptCall, Calls, Accept, Sleeps, At, ConnInv, Quiet, PanicOnlyKnown
  <2>2. CASE state \notin Expects["accept"]
    BY <1>1, <1>5, <2>2 DEF AcceptCall, Calls, Misused, At, ConnInv, Quiet, PanicOnlyKnown
  <2> QED
    BY <2>1, <2>2
<1>6. CASE AcceptReturns
  BY <1>1, <1>6 DEF AcceptReturns, Return, At, ConnInv, Quiet, Joined, Loops, PanicOnlyKnown
<1>7. CASE SendCall
  <2>1. CASE state \in Expects["send"]
    <3>1. state = "ESTABLISHED"
      BY <2>1 DEF Expects
    <3> QED
      BY <1>1, <1>7, <2>1, <3>1 DEF SendCall, Calls, Send, connvars, At, ConnInv, Quiet, Joined, Loops, PanicOnlyKnown
  <2>2. CASE state \notin Expects["send"]
    <3>1. state # "ESTABLISHED"
      BY <2>2 DEF Expects
    <3> QED
      BY <1>1, <1>7, <2>2, <3>1 DEF SendCall, Calls, Misused, At, ConnInv, Quiet, Joined, Loops, PanicOnlyKnown
  <2> QED
    BY <2>1, <2>2
<1>8. CASE RecvCall
  <2>1. pc = "recv" /\ state' = state /\ halted' = halted
    BY <1>8 DEF RecvCall, At, RecvTake, RecvWait, connvars
  <2>2. \/ call' = call /\ pc' = IF Loops THEN "getc" ELSE "recv"
        \/ call' = call /\ pc' = "close"
        \/ call' = call /\ Loops /\ pc' = "getc"
        \/ call' = "recv" /\ ~Loops /\ pc' = "receiving"
    BY <1>8 DEF RecvCall, RecvTake, RecvWait, Sleeps, AfterData, connvars
  <2> QED
    BY <1>1, <2>1, <2>2 DEF ConnInv, Quiet, Joined, PanicOnlyKnown
<1>9. CASE RecvReturns
  BY <1>1, <1>9 DEF RecvReturns, Return, At, ConnInv, Quiet, Joined, Loops, PanicOnlyKnown
<1>10. CASE TelnetKey \/ NcKey
  <2>1. UNCHANGED connvars /\ pc = "getc" /\ pc' \in {"recv", "send", "close"}
    BY <1>10 DEF TelnetKey, NcKey, At
  <2> QED
    BY <1>1, <2>1 DEF connvars, ConnInv, Quiet, Joined, PanicOnlyKnown
<1>11. CASE CloseCall
  <2>1. state \in Expects["close"]
    BY <1>11 DEF CloseCall, At, ConnInv, Joined, Expects
  <2> QED
    BY <1>1, <1>11, <2>1 DEF CloseCall, Calls, Close, Sleeps, connvars, At, ConnInv, Quiet, PanicOnlyKnown
<1>12. CASE CloseReturns
  BY <1>1, <1>12 DEF CloseReturns, Return, At, ConnInv, Quiet, PanicOnlyKnown
<1> QED
  BY <1>2, <1>3, <1>4, <1>5, <1>6, <1>7, <1>8, <1>9, <1>10, <1>11, <1>12 DEF TcpProgram

\* The calls of a TCP program.
LEMMA TcpKeeps ==
    ASSUME ShellInv, TcpProgram
    PROVE  ShellInv'
<1>1. ShellTypeOK'
  BY TcpFrame DEF ShellInv, ShellTypeOK, Talking
<1>2. DnsInv' /\ SockInv'
  BY TcpFrame, DnsKept, SockKept DEF Talking
<1> QED
  BY <1>1, <1>2, TcpConn DEF ShellInv

\* The peer and the timeouts change the connection at any of its calls.
LEMMA PeerKeeps ==
    ASSUME ShellInv, Peer
    PROVE  ShellInv'
<1> USE DEF ShellInv
<1>1. /\ UNCHANGED <<asked, inbox, nsock, echo, mixed, pc, p, call, halted>>
      /\ queue' = queue /\ ~halted /\ pc \in Talking /\ pc # "listen"
  BY DEF Peer, Network, dnsvars, qvars, Talking
<1>2. ShellTypeOK' /\ DnsInv' /\ SockInv'
  BY <1>1 DEF ShellTypeOK, DnsInv, SockInv, AddrOwnAnswer, EchoOnIcmp
<1>3. peerfin' <=> peerfin \/ (state = "ESTABLISHED" /\ state' = "CLOSING")
  BY DEF Peer
<1>4. Network
  BY DEF Peer
<1>5. pc \notin Quiet
  BY <1>1 DEF Talking, Quiet
<1>6. Loops' = Loops
  BY <1>1 DEF Loops
<1>7. ConnInv'
  <2>1. CASE ConnectEnds
    BY <1>1, <1>3, <1>5, <1>6, <2>1 DEF ConnectEnds, Wakes, ConnInv, Joined
  <2>2. CASE Knock
    BY <1>1, <1>3, <1>5, <1>6, <2>2 DEF Knock, ConnInv, Joined
  <2>3. CASE Accepted
    BY <1>1, <1>3, <1>5, <1>6, <2>3 DEF Accepted, Wakes, ConnInv, Joined
  <2>4. CASE Arrives
    BY <1>1, <1>3, <1>5, <1>6, <2>4 DEF Arrives, Wakes, ConnInv, Joined
  <2>5. CASE PeerCloses
    <3>1. state = "ESTABLISHED" /\ state' = "CLOSING" /\ peerfin'
      BY <1>3, <2>5 DEF PeerCloses
    <3>2. (woke => woke') \/ (call # "none" => woke')
      BY <2>5 DEF PeerCloses, Wakes
    <3>3. pc = "connecting" \/ pc = "accepting" => woke /\ woke'
      <4>1. pc = "connecting" \/ pc = "accepting" => woke
        BY <3>1 DEF ConnInv
      <4>2. pc = "connecting" \/ pc = "accepting" => call # "none"
        BY DEF ConnInv
      <4> QED
        BY <3>2, <4>1, <4>2
    <3> QED
      BY <1>1, <1>5, <1>6, <3>1, <3>3 DEF ConnInv, Joined
  <2>6. CASE CloseEnds
    BY <1>1, <1>3, <1>5, <1>6, <2>6 DEF CloseEnds, Wakes, ConnInv, Joined
  <2>7. CASE RecvExpires
    BY <1>1, <1>3, <1>5, <1>6, <2>7 DEF RecvExpires, Wakes, ConnInv, Joined
  <2> QED
    BY <1>4, <2>1, <2>2, <2>3, <2>4, <2>5, <2>6, <2>7 DEF Network
<1> QED
  BY <1>1, <1>2, <1>7 DEF PanicOnlyKnown

-----------------------------------------------------------------------------
\* ShellInv is an inductive invariant of the user task (user_app.c, dns.c).
THEOREM ShellInvariant == ShellSpec => []ShellInv
<1>1. ShellInit => ShellInv
  <2> SUFFICES ASSUME ShellInit PROVE ShellInv
    OBVIOUS
  <2>1. ShellTypeOK
    BY ShellAssumption DEF ShellInit, QInit, NoLocals, ShellTypeOK, Locals, AnyCmd
  <2>2. DnsInv /\ SockInv
    BY ShellAssumption DEF ShellInit, NoLocals, DnsInv, SockInv, AddrOwnAnswer, EchoOnIcmp
  <2>3. ConnInv /\ PanicOnlyKnown
    BY DEF ShellInit, ConnInit, ConnInv, PanicOnlyKnown
  <2> QED
    BY <2>1, <2>2, <2>3 DEF ShellInv
<1>2. ShellInv /\ [ShellNext]_shellvars => ShellInv'
  <2> SUFFICES ASSUME ShellInv, [ShellNext]_shellvars PROVE ShellInv'
    OBVIOUS
  <2>1. CASE UNCHANGED shellvars
    BY <2>1 DEF shellvars, qvars, connvars, dnsvars, logvars, ShellInv, ShellTypeOK, DnsInv,
                SockInv, ConnInv, Loops, PanicOnlyKnown, AddrOwnAnswer, EchoOnIcmp
  <2>2. CASE userland_main \/ PromptSleeps \/ KeyTyped \/ CommandReturns
    BY <2>2, PromptKeeps, ReturnKeeps
  <2>3. CASE RawSocket \/ UdpSocket \/ TcpSocket \/ SocketPanics
    BY <2>3, SocketKeeps, UdpSocketKeeps
  <2>4. CASE AskAddr \/ resolve_addr \/ Resolver
    BY <2>4, ResolveKeeps, ResolverKeeps
  <2>5. CASE EchoProgram \/ TcpProgram \/ Peer
    BY <2>5, EchoKeeps, TcpKeeps, PeerKeeps
  <2> QED
    BY <2>1, <2>2, <2>3, <2>4, <2>5 DEF ShellNext
<1> QED
  BY <1>1, <1>2, PTL DEF ShellSpec

\* The address a program uses is the one of the name it was given
\* (AddrOwnAnswer), however late and however often the resolver answers
\* (dns.c:108, udp_socket).
THEOREM AddressOwn == ShellSpec => []AddrOwnAnswer
<1>1. ShellInv => AddrOwnAnswer
  BY DEF ShellInv, DnsInv
<1> QED
  BY <1>1, ShellInvariant, PTL

\* Echo requests leave as ICMP until a program other than ping and traceroute
\* has opened a UDP socket (EchoOnIcmp; user_app.c:144, 214).
THEOREM EchoCorrect == ShellSpec => []EchoOnIcmp
<1>1. ShellInv => EchoOnIcmp
  BY DEF ShellInv, SockInv
<1> QED
  BY <1>1, ShellInvariant, PTL

\* No program stops the machine but in the four known ways (PanicOnlyKnown;
\* user_app.c:267-613).
THEOREM PanicsKnown == ShellSpec => []PanicOnlyKnown
<1>1. ShellInv => PanicOnlyKnown
  BY DEF ShellInv
<1> QED
  BY <1>1, ShellInvariant, PTL

=============================================================================
