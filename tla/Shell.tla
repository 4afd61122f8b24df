-------------------------------- MODULE Shell --------------------------------
(***************************************************************************)
(* The user task (user/user_app.c, user/dns.c): the command line and the   *)
(* programs ping, traceroute, httpget, telnet, nc, nctest and ncserver,    *)
(* one system call after the other.  The keyboard is KeyQueue, the TCP     *)
(* socket of the running program is Connection; a resolver answers the     *)
(* questions it gets late, twice or never.                                 *)
(*                                                                         *)
(* A key is a newline or stands for one word of the command line; the      *)
(* first word of a line tells the command.  No program frees a socket, so  *)
(* the three tables are counters.                                          *)
(***************************************************************************)
EXTENDS Integers, Sequences, KeyQueue, Connection

CONSTANTS
    ENTER, EXIT,        \* the newline, and the word that ends nc
    Command,            \* key -> the command [prog, dest, literal, arg] it stands for
    Hops,               \* the routers that answer a traceroute
    LINE_MAX,           \* 90: a longer line is cut off
    ECHOES,             \* echo requests of ping (5) and traceroute (19)
    SENDS,              \* messages of nctest (30)
    SOCKET_COUNT,       \* size of each table of sockets (10)
    TalkKeys,           \* bound: the keys typed to telnet and nc
    MaxInbox,           \* bound: unread answers of a UDP socket
    NONE

ASSUME ShellAssumption ==
    /\ {LINE_MAX, ECHOES, SENDS, SOCKET_COUNT, MaxInbox} \subseteq Nat
    /\ {ENTER, EXIT} \cup TalkKeys \subseteq Keys /\ DOMAIN Command = Keys

VARIABLES
    pc,         \* the system call the task makes next, or sleeps in
    p,          \* the locals: line (typed so far, at the prompt or in nc), cmd,
                \* usock (udp_sock), addr (the name ipaddr belongs to, or NONE),
                \* n (seq, ttl, failed connects, messages sent), final (echo reply)
    nsock,      \* sockets in use, by table
    asked,      \* questions at the resolver: [sock, name]
    inbox,      \* rx_data_list of the UDP sockets: the names answered for
    question, answer,   \* the name last asked for, and the one of the answer read
    echo,       \* log: the protocol the last echo request was sent with
    peerfin,    \* log: the peer has closed the connection of the program
    mixed       \* log: a program has opened a UDP socket and no raw one

dnsvars   == <<asked, inbox, question, answer>>
logvars   == <<echo, peerfin, mixed>>
shellvars == <<qvars, connvars, dnsvars, logvars, pc, p, nsock>>

-----------------------------------------------------------------------------
(* The command line.                                                       *)

\* The task is at a call, and the machine has not stopped.
At(label) == ~halted /\ pc = label

\* The first system call of a command.  httpget and nc look at the form of
\* their argument before they make one; help and unknown words make none.
Entry(c) ==
    CASE c.prog \in {"ping", "traceroute"} -> "raw_socket"
      [] c.prog \in {"httpget", "nc"} /\ c.arg # "malformed" -> "udp_socket"
      [] c.prog = "telnet" -> "udp_socket"
      [] c.prog \in {"nctest", "ncserver"} -> "tcp_socket"
      [] OTHER -> "return"

exec_command(buf) ==
    LET c == Command[Head(buf)]
    IN  p' = [p EXCEPT !.cmd = c, !.line = << >>] /\ pc' = Entry(c)

\* The locals before a command.
NoLocals == [line |-> << >>, cmd |-> [prog |-> "none"], usock |-> 0, addr |-> NONE,
             n |-> 0, final |-> FALSE]

\* The program returns; what becomes of its TCP socket concerns no other.
CommandReturns ==
    /\ At("return")
    /\ pc' = "prompt" /\ p' = NoLocals
    /\ question' = NONE /\ answer' = NONE /\ peerfin' = FALSE
    /\ state' = "CLOSED" /\ ready' = FALSE /\ woke' = FALSE
    /\ UNCHANGED <<qvars, call, halted, asked, inbox, echo, mixed, nsock>>

\* A line that has become too long is executed as far as it goes; what is typed
\* after that begins the next one.
userland_main ==
    /\ At("prompt") /\ Read
    /\ LET buf == IF last' = ENTER THEN p.line ELSE Append(p.line, last')
       IN  IF buf # << >> /\ (last' = ENTER \/ Len(buf) > LINE_MAX)
           THEN exec_command(buf)
           ELSE p' = [p EXCEPT !.line = buf] /\ UNCHANGED pc
    /\ UNCHANGED <<connvars, dnsvars, logvars, nsock>>

PromptSleeps == At("prompt") /\ Wait /\ UNCHANGED <<connvars, dnsvars, logvars, pc, p, nsock>>

-----------------------------------------------------------------------------
(* Sockets.                                                                *)

\* Mutant of Opened: udp_socket does not set the flag of the socket.
OpenedFree(table) == nsock' = [nsock EXCEPT ![table] = IF table = "udp" THEN @ ELSE @ + 1]

\* The next free socket of a table.
Opened(table) == nsock' = [nsock EXCEPT ![table] = @ + 1]

\* The table has no free socket: panic.
SocketPanics ==
    /\ \/ At("raw_socket") /\ nsock.raw = SOCKET_COUNT
       \/ At("udp_socket") /\ nsock.udp = SOCKET_COUNT
       \/ At("tcp_socket") /\ nsock.tcp = SOCKET_COUNT
    /\ halted' = TRUE
    /\ UNCHANGED <<qvars, state, ready, call, woke, dnsvars, logvars, pc, p, nsock>>

RawSocket ==
    /\ At("raw_socket") /\ nsock.raw < SOCKET_COUNT
    /\ Opened("raw") /\ pc' = "udp_socket"
    /\ UNCHANGED <<qvars, connvars, dnsvars, logvars, p>>

\* What a program does once it has an address.
WithAddress ==
    CASE p.cmd.prog \in {"ping", "traceroute"} -> "echo"
      [] p.cmd.prog = "nc" /\ p.cmd.arg = "no port" -> "return"
      [] OTHER -> "tcp_socket"

\* Mutant of UdpSocket: a second socket is opened, for the resolver.
UdpSocketTwice ==
    /\ At("udp_socket") /\ nsock.udp + 2 <= SOCKET_COUNT
    /\ nsock' = [nsock EXCEPT !.udp = @ + 2]
    /\ p' = [p EXCEPT !.usock = nsock.udp + 1]
    /\ mixed' = (mixed \/ p.cmd.prog \notin {"ping", "traceroute"})
    /\ pc' = "ask"
    /\ UNCHANGED <<qvars, connvars, dnsvars, echo, peerfin>>

\* All programs but httpget try to read the destination as an address first.
UdpSocket ==
    /\ At("udp_socket") /\ nsock.udp < SOCKET_COUNT
    /\ Opened("udp")
    /\ LET parsed == p.cmd.literal /\ p.cmd.prog # "httpget"
       IN  /\ p' = [p EXCEPT !.usock = nsock.udp, !.addr = IF parsed THEN p.cmd.dest ELSE NONE]
           /\ pc' = IF parsed THEN WithAddress ELSE "ask"
    /\ mixed' = (mixed \/ p.cmd.prog \notin {"ping", "traceroute"})
    /\ UNCHANGED <<qvars, connvars, dnsvars, echo, peerfin>>

\* ncserver looks at the port when it has its socket.
TcpSocket ==
    /\ At("tcp_socket") /\ nsock.tcp < SOCKET_COUNT
    /\ Opened("tcp")
    /\ pc' = CASE p.cmd.prog # "ncserver" -> "connect"
               [] p.cmd.arg = "no port" -> "return"
               [] OTHER -> "listen"
    /\ UNCHANGED <<qvars, connvars, dnsvars, logvars, p>>

-----------------------------------------------------------------------------
(* resolve_addr and resolve_host: the identifier of a question is always   *)
(* 777, and the next answer is taken for the question last asked.          *)

AsksFor(name) ==
    /\ asked' = asked \cup {[sock |-> p.usock, name |-> name]}
    /\ question' = name /\ answer' = NONE
    /\ UNCHANGED inbox

\* udp_socket_recv: the first packet of the list, or a timeout.
ReadsAnswer ==
    /\ inbox[p.usock] # << >>
    /\ answer' = Head(inbox[p.usock])
    /\ inbox' = [inbox EXCEPT ![p.usock] = Tail(@)]
    /\ UNCHANGED <<asked, question>>

TimesOut == inbox[p.usock] = << >> /\ UNCHANGED dnsvars

AskAddr ==
    /\ At("ask") /\ AsksFor(p.cmd.dest)
    /\ pc' = "answer"
    /\ UNCHANGED <<qvars, connvars, logvars, p, nsock>>

\* An answer of a form that resolve_addr does not read ends the command like a
\* timeout.
resolve_addr ==
    /\ At("answer")
    /\ \/ (TimesOut \/ ReadsAnswer) /\ pc' = "return" /\ UNCHANGED p
       \/ ReadsAnswer /\ p' = [p EXCEPT !.addr = answer'] /\ pc' = WithAddress
    /\ UNCHANGED <<qvars, connvars, logvars, nsock>>

-----------------------------------------------------------------------------
(* ping and traceroute.                                                    *)

\* The request is sent on the raw socket with the number of the UDP socket; one
\* that is not in use has protocol 0.
EchoSend ==
    /\ At("echo")
    /\ IF p.n = ECHOES THEN pc' = "return" /\ UNCHANGED echo
       ELSE pc' = "echoed" /\ echo' = IF p.usock < nsock.raw THEN "ICMP" ELSE "0"
    /\ UNCHANGED <<qvars, connvars, dnsvars, peerfin, mixed, p, nsock>>

\* raw_socket_recv: a timeout, or an ICMP packet; traceroute asks for the name
\* of its sender.
EchoReturns ==
    /\ At("echoed")
    /\ \/ pc' = "echo" /\ p' = [p EXCEPT !.n = @ + 1] /\ UNCHANGED dnsvars
       \/ /\ p.cmd.prog = "traceroute"
          /\ \E hop \in Hops : AsksFor(hop)
          /\ \E reply \in BOOLEAN : p' = [p EXCEPT !.final = reply]
          /\ pc' = "host"
    /\ UNCHANGED <<qvars, connvars, logvars, nsock>>

\* The name is printed, or the address when there is none.
resolve_host ==
    /\ At("host")
    /\ TimesOut \/ ReadsAnswer
    /\ IF p.final THEN pc' = "return" /\ UNCHANGED p
       ELSE pc' = "echo" /\ p' = [p EXCEPT !.n = @ + 1]
    /\ UNCHANGED <<qvars, connvars, logvars, nsock>>

-----------------------------------------------------------------------------
(* The TCP programs.                                                       *)

\* A call of the socket, or its panic.
Calls(op, Does) == IF state \in Expects[op] THEN Does ELSE Misused(op) /\ UNCHANGED <<pc, p>>

Loops == p.cmd.prog \in {"telnet", "nc"}

ConnectCall ==
    /\ At("connect")
    /\ Calls("connect", Connect /\ pc' = "connecting" /\ UNCHANGED p)
    /\ UNCHANGED <<qvars, dnsvars, logvars, nsock>>

\* Mutant of ConnectReturns: no program looks at the result of the second try.
ConnectReturnsAnyway ==
    /\ At("connecting") /\ Return
    /\ pc' = IF state # "ESTABLISHED" /\ p.n = 0 THEN "connect"
             ELSE IF Loops THEN "recv" ELSE "send"
    /\ p' = [p EXCEPT !.n = IF state = "ESTABLISHED" THEN 0 ELSE @ + 1]
    /\ UNCHANGED <<qvars, dnsvars, logvars, nsock>>

\* Two tries; httpget does not look at the result of the second.
ConnectReturns ==
    /\ At("connecting") /\ Return
    /\ IF state = "ESTABLISHED" \/ (p.cmd.prog = "httpget" /\ p.n = 1)
       THEN pc' = (IF Loops THEN "recv" ELSE "send") /\ p' = [p EXCEPT !.n = 0]
       ELSE pc' = (IF p.n = 0 THEN "connect" ELSE "return") /\ p' = [p EXCEPT !.n = @ + 1]
    /\ UNCHANGED <<qvars, dnsvars, logvars, nsock>>

\* tcp_socket_bind and tcp_socket_listen.
ListenCall ==
    /\ At("listen")
    /\ Calls("listen", Listen /\ pc' = "accept" /\ UNCHANGED p)
    /\ UNCHANGED <<qvars, dnsvars, logvars, nsock>>

AcceptCall ==
    /\ At("accept")
    /\ Calls("accept", Accept /\ pc' = "accepting" /\ UNCHANGED p)
    /\ UNCHANGED <<qvars, dnsvars, logvars, nsock>>

\* ncserver goes on whatever accept has returned.
AcceptReturns ==
    /\ At("accepting") /\ Return
    /\ pc' = "recv"
    /\ UNCHANGED <<qvars, dnsvars, logvars, p, nsock>>

SendCall ==
    /\ At("send")
    /\ Calls("send",
             /\ Send
             /\ IF p.cmd.prog = "nctest"
                THEN /\ p' = [p EXCEPT !.n = @ + 1]
                     /\ pc' = IF p'.n < SENDS THEN "send" ELSE "close"
                ELSE pc' = "recv" /\ UNCHANGED p)
    /\ UNCHANGED <<qvars, dnsvars, logvars, nsock>>

\* After a receive that has returned data.
AfterData == IF Loops THEN "getc" ELSE "recv"

\* tcp_socket_recv: data, the end of the connection, or nothing; telnet and nc
\* do not wait.
RecvCall ==
    /\ At("recv")
    /\ \/ RecvTake /\ pc' = AfterData
       \/ ~ready /\ state # "ESTABLISHED" /\ pc' = "close" /\ UNCHANGED connvars
       \/ ~ready /\ state = "ESTABLISHED" /\ Loops /\ pc' = "getc" /\ UNCHANGED connvars
       \/ RecvWait /\ ~Loops /\ pc' = "receiving"
    /\ UNCHANGED <<qvars, dnsvars, logvars, p, nsock>>

\* httpget ends at the first timeout, ncserver tries again.
RecvReturns ==
    /\ At("receiving") /\ Return
    /\ pc' = IF ready \/ p.cmd.prog = "ncserver" THEN "recv" ELSE "close"
    /\ UNCHANGED <<qvars, dnsvars, logvars, p, nsock>>

\* key_getc(0) of telnet, which sends every key ...
TelnetKey ==
    /\ At("getc") /\ p.cmd.prog = "telnet"
    /\ \/ Poll /\ pc' = "recv"
       \/ Read /\ pc' = "send"
    /\ UNCHANGED <<connvars, dnsvars, logvars, p, nsock>>

\* ... and of nc, which sends a line at a time and ends with "exit", or with a
\* line that is too long.
NcKey ==
    /\ At("getc") /\ p.cmd.prog = "nc"
    /\ \/ Poll /\ pc' = "recv" /\ UNCHANGED p
       \/ /\ Read /\ last' = ENTER
          /\ pc' = IF p.line = <<EXIT>> THEN "close" ELSE "send"
          /\ p' = [p EXCEPT !.line = << >>]
       \/ /\ Read /\ last' # ENTER
          /\ LET full == Len(p.line) + 1 > LINE_MAX
             IN  /\ pc' = IF full THEN "close" ELSE "recv"
                 /\ p' = [p EXCEPT !.line = IF full THEN << >> ELSE Append(@, last')]
    /\ UNCHANGED <<connvars, dnsvars, logvars, nsock>>

CloseCall ==
    /\ At("close")
    /\ Calls("close", Close /\ UNCHANGED p
                      /\ pc' = IF state = "CLOSED" THEN "return" ELSE "closing")
    /\ UNCHANGED <<qvars, dnsvars, logvars, nsock>>

CloseReturns ==
    /\ At("closing") /\ Return
    /\ pc' = "return"
    /\ UNCHANGED <<qvars, dnsvars, logvars, p, nsock>>

-----------------------------------------------------------------------------
(* Around the task.                                                        *)

\* A key typed while no program reads the keyboard waits in the queue, as if it
\* had been typed just before the next read.
KeyTyped ==
    /\ \/ At("prompt") /\ \E k \in Keys : Type(k)
       \/ At("getc") /\ \E k \in TalkKeys : Type(k)
    /\ UNCHANGED <<connvars, dnsvars, logvars, pc, p, nsock>>

\* The resolver's answer arrives; a copy of it may follow.
Resolver ==
    /\ ~halted
    /\ \E m \in asked :
          /\ Len(inbox[m.sock]) < MaxInbox
          /\ inbox' = [inbox EXCEPT ![m.sock] = Append(@, m.name)]
          /\ asked' \in {asked, asked \ {m}}
    /\ UNCHANGED <<qvars, connvars, question, answer, logvars, pc, p, nsock>>

\* The peer's segments and the timeouts, while the program has its TCP socket.
Peer ==
    /\ pc \in {"connecting", "accept", "accepting", "send", "recv", "receiving", "getc",
               "connect", "close", "closing"}
    /\ Network
    /\ peerfin' = (peerfin \/ (state = "ESTABLISHED" /\ state' = "CLOSING"))
    /\ UNCHANGED <<qvars, dnsvars, echo, mixed, pc, p, nsock>>

ShellInit ==
    /\ QInit /\ ConnInit
    /\ pc = "prompt"
    /\ p = NoLocals
    /\ nsock = [raw |-> 0, udp |-> 0, tcp |-> 0]
    /\ asked = {} /\ inbox = [s \in 0 .. SOCKET_COUNT - 1 |-> << >>]
    /\ question = NONE /\ answer = NONE
    /\ echo = "none" /\ peerfin = FALSE /\ mixed = FALSE

EchoProgram == EchoSend \/ EchoReturns \/ resolve_host

TcpProgram ==
    \/ ConnectCall \/ ConnectReturns \/ ListenCall \/ AcceptCall \/ AcceptReturns
    \/ SendCall \/ RecvCall \/ RecvReturns \/ TelnetKey \/ NcKey
    \/ CloseCall \/ CloseReturns

ShellNext ==
    \/ userland_main \/ PromptSleeps \/ CommandReturns
    \/ RawSocket \/ UdpSocket \/ TcpSocket \/ SocketPanics
    \/ AskAddr \/ resolve_addr
    \/ EchoProgram \/ TcpProgram
    \/ KeyTyped \/ Resolver \/ Peer

ShellSpec == ShellInit /\ [][ShellNext]_shellvars

-----------------------------------------------------------------------------
\* The address a program uses is the one of the name it was given: a late or
\* repeated answer to the question of an earlier command never reaches a later
\* one, because a socket is not used again (dns.c:108, udp_socket).
AddrOwnAnswer == p.addr # NONE => p.addr = p.cmd.dest

\* As long as only ping and traceroute have opened UDP sockets, the two tables
\* are filled alike and every echo request leaves as ICMP, although it is sent
\* on the raw socket with the number of the UDP socket (user_app.c:144, 214).
EchoOnIcmp == ~mixed => echo \in {"none", "ICMP"}

\* The programs stop the machine in four ways only: no socket is left; the peer
\* has closed the connection before a send or a second connect; its SYN came
\* before the accept; and httpget sends on a connection it did not get.  No
\* program closes or listens in a state in which that panics, whatever its
\* calls have returned (user_app.c:267-613).
PanicOnlyKnown ==
    halted => \/ pc \in {"raw_socket", "udp_socket", "tcp_socket", "accept"}
              \/ pc \in {"connect", "send"} /\ peerfin
              \/ pc = "send" /\ p.cmd.prog = "httpget" /\ state = "CLOSED"

\* The query section of an answer is that of the request, which resolve_addr
\* and resolve_host skip on this assumption (dns.c:132, 292).
QuerySectionSame == answer # NONE => answer = question

=============================================================================
