------------------------------- MODULE Kernel -------------------------------
(***************************************************************************)
(* The kernel at work: the task kstart with its work queue                 *)
(* (core/kernel.c, core/workqueue.c), the clock interrupt (core/timer.c),  *)
(* the network interrupt (dev/r8169.c), a user task that opens UDP and raw *)
(* sockets and receives from them with a timeout (net/udp.c and net/raw.c  *)
(* through core/syscall.c), and the idle task, on top of the scheduler     *)
(* (Task.tla).                                                             *)
(*                                                                         *)
(* Grain of atomicity.  Every gate of the IDT is an interrupt gate, so     *)
(* interrupt handlers and system calls run with interrupts disabled and    *)
(* are one step each, up to the task_sleep or task_switch inside them; the *)
(* code after it is a second step, taken with interrupts still disabled    *)
(* when the task is scheduled again.  The user program and the functions   *)
(* the kernel task takes from the work queue run with interrupts enabled   *)
(* and are cut into steps at every access to state that others write.      *)
(***************************************************************************)
EXTENDS Task, TimerList

CONSTANTS
    QUANTUM,            \* ticks between two task_switch calls of int_pit (10)
    DELAY,              \* timeout of a receive in ticks (5000)
    TICK_HALF,          \* 2^31: where a tick stops fitting in an int
    UDP_SOCKET_COUNT, RAW_SOCKET_COUNT,
    MaxTick,            \* bound: the clock stops counting here, interrupts go on
    MaxPkts,            \* bound: packets received by the network card
    MaxOpens            \* bound: udp_socket and raw_socket system calls

VARIABLES
    tick, timer_list,
    wq,         \* the work queue: sequence of [func, arg]
    kpc,        \* where the kernel task is
    kwork,      \* the work it executes
    inpit,      \* tasks suspended inside int_pit by its task_switch
    sockets,    \* udp_sockets and raw_sockets
    upc,        \* where the user task is
    usock,      \* the socket it receives from
    npkt,       \* packets received so far; packets are numbered
    dst_of,     \* log: the destination of each packet
    nopen,      \* sockets opened so far
    base,       \* base[s]: npkt when socket s was opened
    got,        \* got[s]: packets its receives returned, in order
    panicked

netvars  == <<npkt, dst_of, nopen, base, got>>
kernvars == <<wq, kpc, kwork>>
vars == <<taskctl, tick, timer_list, wq, kpc, kwork, inpit, sockets, upc, usock,
          npkt, dst_of, nopen, base, got, panicked>>

-----------------------------------------------------------------------------
\* Task ids given by task_init and kstart's task_start calls.
KERNEL == 0
USER   == 1

UdpSock == {<<"udp", i>> : i \in 0 .. UDP_SOCKET_COUNT - 1}
RawSock == {<<"raw", i>> : i \in 0 .. RAW_SOCKET_COUNT - 1}
Sock    == UdpSock \cup RawSock

\* The addresses tasks sleep on: the work queue and the sockets.
wq_cond == <<"wq", 0>>

\* Destinations of packets: a UDP port, the last one of no socket, or ICMP.
Dst == {<<"udp", i>> : i \in 0 .. UDP_SOCKET_COUNT} \cup {<<"icmp", 0>>}

KernelStart == << [func |-> userland_main,  priority |-> TASK_PRIORITY_HIGH],
                  [func |-> task_idle_main, priority |-> TASK_PRIORITY_LOW] >>

ASSUME KernelAssumption ==
    /\ Start = KernelStart
    /\ Causes = {wq_cond} \cup Sock
    /\ {QUANTUM, TICK_HALF} \subseteq Nat \ {0}
    /\ {DELAY, UDP_SOCKET_COUNT, RAW_SOCKET_COUNT, MaxTick, MaxPkts, MaxOpens}
         \subseteq Nat
    /\ MaxTick < TICK_MAX /\ MaxTick % QUANTUM = 0
    /\ MaxTick < 4 * TICK_HALF * TICK_HALF - TICK_HALF     \* 2^32 and 2^64 - 2^31

Work(func, arg) == [func |-> func, arg |-> arg]
NoWork == Work("none", NULL)

-----------------------------------------------------------------------------
(* The work queue (core/workqueue.c).                                      *)

\* Mutant of wq_push: the kernel task is not woken.
wq_pushSilent(work) == wq' = Append(wq, work) /\ UNCHANGED taskctl

wq_push(work) ==
    /\ wq' = Append(wq, work)
    /\ taskctl' = task_wakeup(taskctl, wq_cond)

wq_push_with_delay(work, delay) ==
    timer_list' = set_timer(timer_list, [tick |-> Deadline(tick, delay), work |-> work])

-----------------------------------------------------------------------------
(* Interrupts.                                                             *)

\* Interrupts are enabled while the current task is not inside int_pit or
\* task_sleep.
InterruptsOn ==
    LET t == taskctl.current_task
    IN  /\ ~panicked
        /\ Booted(taskctl)
        /\ t \notin inpit
        /\ t = KERNEL => kpc # "slept"
        /\ t = USER => upc # "slept"

\* Task t executes instructions with interrupts enabled.
Runs(t) == taskctl.current_task = t /\ InterruptsOn

\* Task t comes back from the task_sleep it called.
Returns(t) == ~panicked /\ taskctl.current_task = t /\ t \notin inpit

\* wq_push_timer_func for each expired timer: queue the work, wake the kernel
\* task.  The deadlines stay below last_timer's.
RunTimers(tc, now) ==
    LET due == Expired(timer_list, now)
    IN  /\ timer_list' = Unexpired(timer_list, now)
        /\ wq' = wq \o [i \in 1 .. Len(due) |-> due[i].work]
        /\ taskctl' = IF due = << >> THEN tc ELSE task_wakeup(tc, wq_cond)

NextTick == IF tick < MaxTick THEN tick + 1 ELSE tick

\* Mutant of Switched: int_pit does not call task_switch.
SwitchedNever(tc, now) == tc

\* Every QUANTUM ticks int_pit calls task_switch.
Switched(tc, now) == IF now % QUANTUM = 0 THEN schedule(tc) ELSE tc

\* int_pit.  When task_switch leaves for another task, the timers have to wait
\* until this one resumes.
Pit ==
    /\ InterruptsOn
    /\ tick' = NextTick
    /\ LET old == taskctl.current_task
           tc  == Switched(taskctl, tick')
       IN  IF tc.current_task = old
           THEN RunTimers(tc, tick') /\ UNCHANGED inpit
           ELSE /\ taskctl' = tc
                /\ inpit' = inpit \cup {old}
                /\ UNCHANGED <<timer_list, wq>>
    /\ UNCHANGED <<kpc, kwork, sockets, upc, usock, netvars, panicked>>

\* The task is scheduled again: the rest of int_pit, then iretq.
PitResume ==
    LET t == taskctl.current_task
    IN  /\ ~panicked
        /\ t \in inpit
        /\ inpit' = inpit \ {t}
        /\ RunTimers(taskctl, tick)
        /\ UNCHANGED <<tick, kpc, kwork, sockets, upc, usock, netvars, panicked>>

\* r8169_int_handler, receive_packet: the packet becomes work for ether_rx.
NicInt(dst) ==
    /\ InterruptsOn
    /\ npkt < MaxPkts
    /\ npkt' = npkt + 1
    /\ dst_of' = Append(dst_of, dst)
    /\ wq_push(Work("ether_rx", [id |-> npkt + 1, dst |-> dst]))
    /\ UNCHANGED <<tick, timer_list, kpc, kwork, inpit, sockets, upc, usock,
                   nopen, base, got, panicked>>

-----------------------------------------------------------------------------
(* The kernel task: the loop of kstart.                                    *)

\* Before interrupts are enabled.
KBoot ==
    /\ TaskStart
    /\ UNCHANGED <<tick, timer_list, kernvars, inpit, sockets, upc, usock, netvars, panicked>>

\* Mutant of KLoop: the task marks itself asleep but does not call schedule.
KLoopNoYield ==
    /\ Runs(KERNEL) /\ kpc = "loop"
    /\ IF wq = << >>
       THEN taskctl' = MarkWaiting(taskctl, wq_cond) /\ kpc' = "slept"
       ELSE kpc' = "exec" /\ UNCHANGED taskctl
    /\ UNCHANGED <<tick, timer_list, wq, kwork, inpit, sockets, upc, usock, netvars, panicked>>

\* io_cli, wq_empty; sleep on the queue when it is empty.
KLoop ==
    /\ Runs(KERNEL) /\ kpc = "loop"
    /\ \/ /\ wq = << >>
          /\ taskctl' = task_sleep(taskctl, wq_cond)
          /\ kpc' = "slept"
       \/ /\ wq # << >>
          /\ kpc' = "exec"
          /\ UNCHANGED taskctl
    /\ UNCHANGED <<tick, timer_list, wq, kwork, inpit, sockets, upc, usock, netvars, panicked>>

\* task_sleep returns and io_sti.
KWoken ==
    /\ Returns(KERNEL) /\ kpc = "slept"
    /\ kpc' = "loop"
    /\ UNCHANGED <<taskctl, tick, timer_list, wq, kwork, inpit, sockets, upc, usock,
                   netvars, panicked>>

\* wq_execute takes the first work.
KExec ==
    /\ Runs(KERNEL) /\ kpc = "exec"
    /\ wq # << >>
    /\ kwork' = Head(wq)
    /\ wq' = Tail(wq)
    /\ kpc' = "func"
    /\ UNCHANGED <<taskctl, tick, timer_list, inpit, sockets, upc, usock, netvars, panicked>>

\* A packet is for the socket of its port, or for every raw socket (in all
\* programs their protocol is ICMP).
IsFor(dst, s) == s = dst \/ (s \in RawSock /\ dst[1] = "icmp")

\* The open sockets that take a packet.
Takers(dst) ==
    {s \in Sock : sockets[s].flag = "USED" /\ IsFor(dst, s)}

\* Mutant of Delivered: list_pushfront instead of list_pushback.
DeliveredFront(pkt) ==
    [s \in Sock |-> IF s \in Takers(pkt.dst)
                    THEN [sockets[s] EXCEPT !.rx = <<pkt.id>> \o @] ELSE sockets[s]]

\* A copy of the packet is appended to rx_data_list of each of them.
Delivered(pkt) ==
    [s \in Sock |-> IF s \in Takers(pkt.dst)
                    THEN [sockets[s] EXCEPT !.rx = Append(@, pkt.id)] ELSE sockets[s]]

\* ... and the tasks that sleep on them are woken, in the order of the table.
TakersWoken(pkt) ==
    LET table == IF pkt.dst[1] = "udp" THEN "udp" ELSE "raw"
        count == IF table = "udp" THEN UDP_SOCKET_COUNT ELSE RAW_SOCKET_COUNT
        woken[i \in 0 .. count] ==
          IF i = 0 THEN taskctl
          ELSE IF <<table, i - 1>> \in Takers(pkt.dst)
          THEN task_wakeup(woken[i - 1], <<table, i - 1>>)
          ELSE woken[i - 1]
    IN  woken[count]

\* ether_rx, ip_rx and, under io_cli, raw_recv or udp_rx.
KRx ==
    /\ Runs(KERNEL) /\ kpc = "func" /\ kwork.func = "ether_rx"
    /\ sockets' = Delivered(kwork.arg)
    /\ taskctl' = TakersWoken(kwork.arg)
    /\ kpc' = "loop"
    /\ kwork' = NoWork
    /\ UNCHANGED <<tick, timer_list, wq, inpit, upc, usock, netvars, panicked>>

\* The argument went through an int; the comparison with the uint64_t wait_id
\* sign-extends it.
ThroughInt(w) == (IF w < TICK_HALF THEN w ELSE w - 2 * TICK_HALF)
                    % (4 * TICK_HALF * TICK_HALF)

\* Mutant of KTimeoutCheck: wakes the socket whichever receive the work belongs to.
KTimeoutCheckAny ==
    /\ Runs(KERNEL) /\ kpc = "func" /\ kwork.func = "recv_timeout"
    /\ kpc' = "wake"
    /\ UNCHANGED <<taskctl, tick, timer_list, wq, inpit, kwork, sockets, upc, usock, netvars, panicked>>

\* udp_socket_recv_timeout and raw_socket_recv_timeout: the check ...
KTimeoutCheck ==
    /\ Runs(KERNEL) /\ kpc = "func" /\ kwork.func = "recv_timeout"
    /\ LET match == sockets[kwork.arg.sock].wait_id = ThroughInt(kwork.arg.wait_id)
       IN  /\ kpc' = IF match THEN "wake" ELSE "loop"
           /\ kwork' = IF match THEN kwork ELSE NoWork
    /\ UNCHANGED <<taskctl, tick, timer_list, wq, inpit, sockets, upc, usock, netvars, panicked>>

\* ... and the wakeup, with interrupts enabled in between.
KTimeoutWake ==
    /\ Runs(KERNEL) /\ kpc = "wake"
    /\ taskctl' = task_wakeup(taskctl, kwork.arg.sock)
    /\ kpc' = "loop"
    /\ kwork' = NoWork
    /\ UNCHANGED <<tick, timer_list, wq, inpit, sockets, upc, usock, netvars, panicked>>

-----------------------------------------------------------------------------
(* The user task.                                                          *)

Opened(s) == [sockets EXCEPT ![s].flag = "USED", ![s].wait_id = 0]

\* udp_socket and raw_socket: the first free socket of the table, or panic when
\* there is none.
UserOpen(table) ==
    /\ Runs(USER) /\ upc = "user"
    /\ nopen < MaxOpens
    /\ nopen' = nopen + 1
    /\ LET free == {s \in table : sockets[s].flag = "FREE"}
       IN  \/ \E s \in free :
                /\ \A r \in free : s[2] <= r[2]
                /\ sockets' = Opened(s)
                /\ base' = [base EXCEPT ![s] = npkt]
                /\ UNCHANGED panicked
           \/ /\ free = {}
              /\ panicked' = TRUE
              /\ UNCHANGED <<sockets, base>>
    /\ UNCHANGED <<taskctl, tick, timer_list, kernvars, inpit, upc, usock, npkt, dst_of, got>>

\* Mutant of TimeoutOf: the arguments are stored before wait_id is.
TimeoutOfLast(s) == Work("recv_timeout", [sock |-> s, wait_id |-> sockets[s].wait_id])

\* The timeout of a receive that sleeps on s from now on.
TimeoutOf(s) == Work("recv_timeout", [sock |-> s, wait_id |-> tick])

\* list_popfront and the copy to the caller.
Pop(s) ==
    /\ sockets' = [sockets EXCEPT ![s].rx = Tail(@)]
    /\ got' = [got EXCEPT ![s] = Append(@, Head(sockets[s].rx))]

\* udp_socket_recv or raw_socket_recv on a socket with data returns the oldest
\* packet; on an empty one it arms the timeout and sleeps.
UserRecv(s) ==
    /\ Runs(USER) /\ upc = "user"
    /\ sockets[s].flag = "USED"
    /\ tick + DELAY <= MaxTick
    /\ \/ /\ sockets[s].rx # << >>
          /\ Pop(s)
          /\ UNCHANGED <<taskctl, timer_list, upc, usock>>
       \/ /\ sockets[s].rx = << >>
          /\ sockets' = [sockets EXCEPT ![s].wait_id = tick]
          /\ wq_push_with_delay(TimeoutOf(s), DELAY)
          /\ taskctl' = task_sleep(taskctl, s)
          /\ upc' = "slept"
          /\ usock' = s
          /\ UNCHANGED got
    /\ UNCHANGED <<tick, kernvars, inpit, npkt, dst_of, nopen, base, panicked>>

\* syscall_handler: the calls of this module.
Syscall ==
    \/ UserOpen(UdpSock) \/ UserOpen(RawSock)
    \/ \E s \in Sock : UserRecv(s)

\* task_sleep returns: data, or -1 when there is none.
UserRecvReturn ==
    /\ Returns(USER) /\ upc = "slept"
    /\ upc' = "user"
    /\ \/ sockets[usock].rx = << >> /\ UNCHANGED <<sockets, got>>
       \/ sockets[usock].rx # << >> /\ Pop(usock)
    /\ UNCHANGED <<taskctl, tick, timer_list, kernvars, inpit, usock,
                   npkt, dst_of, nopen, base, panicked>>

-----------------------------------------------------------------------------
KernelInit ==
    /\ TaskInit
    /\ tick = 0
    /\ timer_list = <<[tick |-> TICK_MAX, work |-> NoWork]>>
    /\ wq = << >>
    /\ kpc = "loop" /\ kwork = NoWork
    /\ inpit = {}
    /\ sockets = [s \in Sock |-> [flag |-> "FREE", wait_id |-> 0, rx |-> << >>]]
    /\ upc = "user" /\ usock = NULL
    /\ npkt = 0 /\ dst_of = << >> /\ nopen = 0
    /\ base = [s \in Sock |-> 0]
    /\ got = [s \in Sock |-> << >>]
    /\ panicked = FALSE

KernelStep == KLoop \/ KExec \/ KRx \/ KTimeoutCheck \/ KTimeoutWake

KernelNext ==
    \/ KBoot
    \/ Pit \/ PitResume
    \/ \E dst \in Dst : NicInt(dst)
    \/ KernelStep \/ KWoken
    \/ Syscall \/ UserRecvReturn

KernelSpec == KernelInit /\ [][KernelNext]_vars

(***************************************************************************)
(* Fairness: the clock keeps interrupting; code that runs with interrupts  *)
(* disabled finishes; and the kernel task, whenever it keeps being given   *)
(* the processor, executes: a time slice is many instructions long.        *)
(***************************************************************************)
KernelFairSpec ==
    /\ KernelSpec
    /\ WF_vars(KBoot) /\ WF_vars(Pit) /\ WF_vars(PitResume)
    /\ WF_vars(KWoken) /\ WF_vars(UserRecvReturn)
    /\ SF_vars(KernelStep)

-----------------------------------------------------------------------------
(* Properties.                                                             *)

Flag(t) == taskctl.tasks[t].flag
Elements(seq) == {seq[i] : i \in 1 .. Len(seq)}

\* The variables of this module have their types.
KernelTypeOK ==
    /\ TaskTypeOK
    /\ tick \in 0 .. MaxTick
    /\ kpc \in {"loop", "slept", "exec", "func", "wake"}
    /\ upc \in {"user", "slept"}
    /\ inpit \subseteq Slots
    /\ \A s \in Sock : /\ sockets[s].flag \in {"FREE", "USED"}
                        /\ sockets[s].wait_id \in 0 .. MaxTick
                        /\ sockets[s].rx \in Seq(1 .. MaxPkts)
    /\ \A e \in Elements(timer_list) : e.tick \in 0 .. TICK_MAX

\* Nobody sleeps through a wakeup: the kernel task does not sleep while there is
\* work, nor a receiver on a socket that has data.  kstart, udp_socket_recv and
\* raw_socket_recv test their list and go to sleep with interrupts disabled, so
\* no wq_push and no packet can fall in between and be missed.
NoLostWakeup ==
    /\ wq # << >> => Flag(KERNEL) # TASK_WAITING
    /\ (upc = "slept" /\ Flag(USER) = TASK_WAITING) => sockets[usock].rx = << >>

\* A sleeping receiver always has its timeout ahead of it: in the timer list,
\* in the work queue or in the hands of the kernel task, while the clock is
\* below 2^31.
TimeoutArmed ==
    (upc = "slept" /\ Flag(USER) = TASK_WAITING /\ sockets[usock].wait_id < TICK_HALF)
      => Work("recv_timeout", [sock |-> usock, wait_id |-> sockets[usock].wait_id])
           \in {e.work : e \in Elements(timer_list)} \cup Elements(wq) \cup {kwork}

\* The works that are taken from the queue or will be; those of received packets.
Flight == <<kwork>> \o wq
IsPacket(w) == w.func = "ether_rx"

\* The packets that have come as far as the list of socket s.
Taken(s) == got[s] \o sockets[s].rx

\* Packets reach the receiver in the order of arrival, none twice and, once
\* the socket is open, none lost: a packet that has come since is on its list,
\* was received or is on its way, and no other is.
DeliveredInOrder ==
    /\ \A i, j \in 1 .. Len(Flight) :
          i < j /\ IsPacket(Flight[i]) /\ IsPacket(Flight[j])
            => Flight[i].arg.id < Flight[j].arg.id
    /\ \A s \in Sock :
          /\ \A i, j \in 1 .. Len(Taken(s)) : i < j => Taken(s)[i] < Taken(s)[j]
          /\ \A i \in 1 .. Len(Taken(s)), w \in Elements(Flight) :
                IsPacket(w) => Taken(s)[i] < w.arg.id
          /\ sockets[s].flag = "USED" =>
                \A p \in base[s] + 1 .. npkt :
                   IsFor(dst_of[p], s) <=>
                     \/ p \in Elements(Taken(s))
                     \/ \E w \in Elements(Flight) :
                           IsPacket(w) /\ w.arg.id = p /\ IsFor(w.arg.dst, s)

\* A receive returns, with a packet or by its timeout: always while the clock
\* is below 2^31.  (Beyond, the comparison of udp.c:143 and raw.c:113 fails.)
RecvReturns == (upc = "slept" /\ sockets[usock].wait_id < TICK_HALF) ~> upc = "user"

\* A timeout is let through only when the time of the last receive on the socket
\* is over: a work armed by an earlier receive that ended with a packet, or that
\* was delayed in the queue, never cuts a later one short at the comparison
\* (udp.c:143, raw.c:113).  Nothing is said of the time from there to task_wakeup.
TimeoutDue ==
    [][(kpc = "func" /\ kpc' = "wake") => tick >= sockets[kwork.arg.sock].wait_id + DELAY]_vars

\* All work is done eventually: the kernel task empties its queue again and
\* again, whatever the other tasks and the interrupts do meanwhile.
WorkDone == []<>(panicked \/ wq = << >>)

=============================================================================
