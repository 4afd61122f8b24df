---------------------------- MODULE KernelProofs ----------------------------
(***************************************************************************)
(* Proofs about the kernel at work (Kernel.tla), for any number of sockets *)
(* and packets, any timeout, quantum and range of the clock: nobody sleeps *)
(* through a wakeup, a sleeping receiver has its timeout ahead of it, a    *)
(* timeout that is let through is due, packets reach the programs in       *)
(* order; and whatever the handlers and tasks do inside their atomic       *)
(* steps, the scheduler is used as TaskSpec says.                          *)
(***************************************************************************)
EXTENDS Kernel, TaskProofs

TimeoutWork(s, n) == Work("recv_timeout", [sock |-> s, wait_id |-> n])

\* The works that can be in the queue.
Works ==
    {Work("ether_rx", [id |-> i, dst |-> d]) : i \in 1 .. MaxPkts, d \in Dst}
    \cup {TimeoutWork(s, n) : s \in Sock, n \in 0 .. MaxTick}

\* The entries of the timer list: timeouts of receives, and last_timer.
Timers ==
    {[tick |-> n + DELAY, work |-> TimeoutWork(s, n)] :
        s \in Sock, n \in {m \in 0 .. MaxTick : m + DELAY <= MaxTick}}
    \cup {[tick |-> TICK_MAX, work |-> NoWork]}

Socket == [flag : {"FREE", "USED"}, wait_id : 0 .. MaxTick, rx : Seq(1 .. MaxPkts)]

KernelTypes ==
    /\ tick \in 0 .. MaxTick
    /\ timer_list \in Seq(Timers)
    /\ wq \in Seq(Works)
    /\ kpc \in {"loop", "slept", "exec", "func", "wake"}
    /\ kwork \in Works \cup {NoWork}
    /\ inpit \subseteq Slots
    /\ sockets \in [Sock -> Socket]
    /\ upc \in {"user", "slept"}
    /\ upc = "slept" => usock \in Sock
    /\ npkt \in 0 .. MaxPkts
    /\ dst_of \in Seq(Dst) /\ Len(dst_of) = npkt
    /\ base \in [Sock -> Nat]
    /\ got \in [Sock -> Seq(1 .. MaxPkts)]

\* Who is asleep, and on what.  (The second conjunct of each is NoLostWakeup.)
SleepersInv ==
    /\ Func(taskctl, KERNEL) = kstart
    /\ ~Booted(taskctl) => kpc = "loop" /\ upc = "user" /\ inpit = {}
    /\ Flag(KERNEL) = TASK_WAITING =>
         /\ kpc = "slept" /\ wq = << >>
         /\ taskctl.tasks[KERNEL].waitcause = wq_cond
    /\ Flag(USER) = TASK_WAITING =>
         /\ upc = "slept" /\ sockets[usock].rx = << >>
         /\ taskctl.tasks[USER].waitcause = usock

\* The kernel task has a work exactly while it runs one.
WorkInHand ==
    /\ kpc \in {"loop", "slept", "exec"} => kwork = NoWork
    /\ kpc = "wake" => kwork.func = "recv_timeout"

\* A timeout is in the work queue only when its time is over.
QueuedAreDue ==
    \A w \in Elements(Flight) :
       w.func = "recv_timeout" => w.arg.wait_id + DELAY <= tick

\* Packets are what the log says they are.
PacketsLogged ==
    /\ \A w \in Elements(Flight) :
          IsPacket(w) => w.arg.id <= npkt /\ w.arg.dst = dst_of[w.arg.id]
    /\ \A s \in Sock : /\ base[s] <= npkt
                       /\ \A i \in 1 .. Len(Taken(s)) : Taken(s)[i] <= npkt

KernelInv ==
    /\ KernelTypes /\ TaskInv
    /\ SleepersInv /\ WorkInHand
    /\ TimeoutArmed /\ QueuedAreDue
    /\ PacketsLogged /\ DeliveredInOrder

-----------------------------------------------------------------------------
(* The constants.                                                          *)

\* The sizes are numbers; there are three slots at least; the idle task is the
\* second that kstart starts.
LEMMA KernelConstants ==
    /\ MAX_TASK \in Nat /\ MAX_TASK >= 3 /\ Len(Start) = 2
    /\ KERNEL \in Slots /\ USER \in Slots
    /\ Start[1].func = userland_main /\ Start[2].func = task_idle_main
    /\ wq_cond \in Causes /\ wq_cond \notin Sock /\ Sock \subseteq Causes
    /\ DELAY \in Nat /\ MaxTick \in Nat /\ MaxPkts \in Nat /\ TICK_MAX \in Nat
    /\ TICK_HALF \in Nat /\ TICK_HALF > 0 /\ MaxTick < TICK_MAX
    /\ UDP_SOCKET_COUNT \in Nat /\ RAW_SOCKET_COUNT \in Nat
<1>1. /\ Start = KernelStart /\ Causes = {wq_cond} \cup Sock
      /\ {QUANTUM, TICK_HALF} \subseteq Nat \ {0}
      /\ {DELAY, UDP_SOCKET_COUNT, RAW_SOCKET_COUNT, MaxTick, MaxPkts, MaxOpens} \subseteq Nat
      /\ MaxTick < TICK_MAX
  BY KernelAssumption
<1>2. Len(Start) = 2 /\ Start[1].func = userland_main /\ Start[2].func = task_idle_main
  BY <1>1 DEF KernelStart
<1>3. wq_cond \notin Sock
  BY DEF wq_cond, Sock, UdpSock, RawSock
<1> QED
  BY <1>1, <1>2, <1>3, StartAssumption, TickAssumption DEF Slots, KERNEL, USER

-----------------------------------------------------------------------------
(* What the operations of the scheduler do to the tasks.                   *)

\* Only the kernel task and the user task ever sleep.
LEMMA WhoSleeps ==
    ASSUME NEW tc, SchedInv(tc), NEW t \in Slots, tc.tasks[t].flag = TASK_WAITING
    PROVE  t = KERNEL \/ t = USER
<1>1. t < tc.next_task_id /\ tc.next_task_id \in 1 .. 3
  BY KernelConstants DEF SchedInv, SlotsInUse, TASK_WAITING, Unused
<1>2. t # 2
  <2> SUFFICES ASSUME t = 2 PROVE FALSE
    OBVIOUS
  <2>1. 2 \in 1 .. tc.next_task_id - 1
    BY <1>1
  <2>2. tc.tasks[2].func = task_idle_main
    BY <2>1, KernelConstants DEF SchedInv, IdleReady
  <2> QED
    BY <2>2 DEF SchedInv, IdleReady, TASK_WAITING, TASK_RUNNING
<1> QED
  BY <1>1, <1>2 DEF Slots, KERNEL, USER

\* A wakeup of a cause that nobody sleeps on changes nothing.
LEMMA WakesNobody ==
    ASSUME NEW tc, SchedInv(tc), NEW cause,
           \A t \in Slots : tc.tasks[t].flag = TASK_WAITING => tc.tasks[t].waitcause # cause
    PROVE  task_wakeup(tc, cause) = tc
<1>1. tc \in TaskCtl /\ tc.next_task_id \in 0 .. MAX_TASK
  BY TaskCtlFields DEF SchedInv
<1>2. Sleepers(tc, cause) = {}
  <2> SUFFICES ASSUME NEW t \in Sleepers(tc, cause) PROVE FALSE
    OBVIOUS
  <2>1. /\ t \in 0 .. tc.next_task_id - 1
        /\ tc.tasks[t].waitcause = cause /\ tc.tasks[t].flag # TASK_RUNNING
    BY DEF Sleepers
  <2>2. t \in Slots /\ t < tc.next_task_id
    BY <1>1, <2>1, KernelConstants DEF Slots
  <2>3. tc.tasks[t].flag # Unused /\ tc.tasks[t] \in Task
    BY <1>1, <2>2, TaskCtlFields DEF SchedInv, SlotsInUse
  <2> QED
    BY <2>1, <2>2, <2>3 DEF Task
<1>3. InOrder({}) = << >>
  <2>1. InOrder({}) \in Seq({}) /\ Members(InOrder({})) = {}
    BY InOrderLists
  <2> QED
    BY <2>1, EmptySeq, LenProperties DEF Members
<1>4. \A p \in Priorities :
        tc.lists[p] \o InOrder({t \in {} : tc.tasks[t].priority = p}) = tc.lists[p]
  <2> TAKE p \in Priorities
  <2>1. {t \in {} : tc.tasks[t].priority = p} = {} /\ tc.lists[p] \in Seq(Slots)
    BY <1>1, TaskCtlFields
  <2> QED
    BY <2>1, <1>3, ConcatEmptySeq
<1> DEFINE tasks == [t \in Slots |-> IF t \in {} THEN [tc.tasks[t] EXCEPT !.flag = TASK_RUNNING]
                                     ELSE tc.tasks[t]]
           lists == [p \in Priorities |->
                       tc.lists[p] \o InOrder({t \in {} : tc.tasks[t].priority = p})]
<1>5. task_wakeup(tc, cause) = [tc EXCEPT !.tasks = tasks, !.lists = lists]
  BY <1>1, <1>2 DEF task_wakeup, TaskCtl
<1>6. tasks = tc.tasks
  BY <1>1, TaskCtlFields
<1>7. lists = tc.lists
  <2>1. lists = [p \in Priorities |-> tc.lists[p]]
    BY <1>4
  <2> HIDE DEF lists
  <2> QED
    BY <2>1, <1>1, TaskCtlFields
<1> HIDE DEF tasks, lists
<1> QED
  BY <1>1, <1>5, <1>6, <1>7 DEF TaskCtl

\* A wakeup wakes those who sleep on its cause and leaves the others alone.
LEMMA WakeupIs ==
    ASSUME NEW tc, SchedInv(tc), NEW cause \in Causes
    PROVE  /\ SchedInv(task_wakeup(tc, cause))
           /\ task_wakeup(tc, cause).current_task = tc.current_task
           /\ task_wakeup(tc, cause).next_task_id = tc.next_task_id
           /\ \A t \in Slots :
                 /\ task_wakeup(tc, cause).tasks[t].func = tc.tasks[t].func
                 /\ task_wakeup(tc, cause).tasks[t].waitcause = tc.tasks[t].waitcause
                 /\ task_wakeup(tc, cause).tasks[t].flag = TASK_WAITING
                      => tc.tasks[t].flag = TASK_WAITING /\ tc.tasks[t].waitcause # cause
<1>1. tc \in TaskCtl /\ tc.next_task_id \in 0 .. MAX_TASK
  BY TaskCtlFields DEF SchedInv
<1> DEFINE W     == Sleepers(tc, cause)
           tasks == [t \in Slots |-> IF t \in W THEN [tc.tasks[t] EXCEPT !.flag = TASK_RUNNING]
                                     ELSE tc.tasks[t]]
           lists == [p \in Priorities |->
                       tc.lists[p] \o InOrder({t \in W : tc.tasks[t].priority = p})]
<1>2. task_wakeup(tc, cause) = [tc EXCEPT !.tasks = tasks, !.lists = lists]
  BY <1>1 DEF task_wakeup, TaskCtl
<1>3. /\ task_wakeup(tc, cause).tasks = tasks
      /\ task_wakeup(tc, cause).current_task = tc.current_task
      /\ task_wakeup(tc, cause).next_task_id = tc.next_task_id
  <2> HIDE DEF tasks, lists
  <2> QED
    BY <1>1, <1>2 DEF TaskCtl
<1>4. ASSUME NEW t \in Slots
      PROVE  /\ tasks[t].func = tc.tasks[t].func
             /\ tasks[t].waitcause = tc.tasks[t].waitcause
             /\ tasks[t].flag = TASK_WAITING
                  => tc.tasks[t].flag = TASK_WAITING /\ tc.tasks[t].waitcause # cause
  <2>1. tc.tasks[t] \in Task
    BY <1>1, TaskCtlFields
  <2>2. CASE t \in W
    BY <2>1, <2>2 DEF Task, TASK_RUNNING, TASK_WAITING
  <2>3. CASE t \notin W
    <3>1. tasks[t] = tc.tasks[t]
      BY <2>3
    <3>2. tc.tasks[t].flag = TASK_WAITING => t < tc.next_task_id
      BY DEF SchedInv, SlotsInUse, TASK_WAITING, Unused
    <3>3. t < tc.next_task_id => t \in 0 .. tc.next_task_id - 1
      BY <1>1, KernelConstants DEF Slots
    <3> QED
      BY <2>3, <3>1, <3>2, <3>3 DEF Sleepers, TASK_RUNNING, TASK_WAITING
  <2> QED
    BY <2>2, <2>3
<1>5. SchedInv(task_wakeup(tc, cause))
  BY WakeupKeeps
<1> HIDE DEF tasks
<1> QED
  BY <1>3, <1>4, <1>5

\* schedule gives the processor to somebody else or does nothing.
LEMMA ScheduleIs ==
    ASSUME NEW tc, SchedInv(tc)
    PROVE  /\ SchedInv(schedule(tc))
           /\ schedule(tc).tasks = tc.tasks
           /\ schedule(tc).next_task_id = tc.next_task_id
           /\ schedule(tc).current_task = tc.current_task => schedule(tc) = tc
<1>1. BeforeSwitch(tc) /\ CurrentRuns(tc) /\ tc \in TaskCtl
  BY DEF SchedInv, BeforeSwitch, CurrentRuns, TASK_RUNNING, Unused
<1>2. SchedInv(schedule(tc))
  BY <1>1, ScheduleKeeps
<1>3. ASSUME NEW p \in Priorities, tc.lists[p] # << >>
      PROVE  /\ SwitchTo(tc, p).tasks = tc.tasks
             /\ SwitchTo(tc, p).next_task_id = tc.next_task_id
             /\ SwitchTo(tc, p).current_task # tc.current_task
  <2>1. SwitchTo(tc, p).tasks = tc.tasks /\ SwitchTo(tc, p).next_task_id = tc.next_task_id
    BY <1>1 DEF SwitchTo, TaskCtl
  <2> QED
    BY <2>1, <1>1, <1>3, SwitchKeeps
<1>4. \/ schedule(tc) = tc
      \/ \E p \in Priorities : tc.lists[p] # << >> /\ schedule(tc) = SwitchTo(tc, p)
  BY DEF schedule, Priorities
<1> QED
  BY <1>2, <1>3, <1>4

\* task_sleep marks the current task asleep on the cause and leaves the other
\* tasks alone.
LEMMA SleepIs ==
    ASSUME NEW tc, SchedInv(tc), Booted(tc), NEW cause \in Causes,
           Func(tc, tc.current_task) # task_idle_main
    PROVE  /\ SchedInv(task_sleep(tc, cause))
           /\ task_sleep(tc, cause).next_task_id = tc.next_task_id
           /\ \A t \in Slots : Func(task_sleep(tc, cause), t) = Func(tc, t)
           /\ \A t \in Slots \ {tc.current_task} :
                 task_sleep(tc, cause).tasks[t] = tc.tasks[t]
           /\ task_sleep(tc, cause).tasks[tc.current_task].waitcause = cause
<1> DEFINE mc == MarkWaiting(tc, cause)
           r  == schedule(mc)
<1>1. tc \in TaskCtl /\ tc.tasks \in [Slots -> Task] /\ tc.current_task \in Slots
  BY TaskCtlFields DEF SchedInv
<1>2. /\ mc.next_task_id = tc.next_task_id
      /\ mc.tasks = [tc.tasks EXCEPT ![tc.current_task] =
                       [@ EXCEPT !.flag = TASK_WAITING, !.waitcause = cause]]
      /\ DOMAIN mc = DOMAIN tc
  BY <1>1 DEF MarkWaiting, TaskCtl
<1>3. /\ \A t \in Slots : mc.tasks[t].func = tc.tasks[t].func
      /\ \A t \in Slots \ {tc.current_task} : mc.tasks[t] = tc.tasks[t]
      /\ mc.tasks[tc.current_task].waitcause = cause
  BY <1>1, <1>2 DEF Task
<1>4. r.tasks = mc.tasks /\ r.next_task_id = mc.next_task_id
  <2> HIDE DEF mc
  <2>1. \A p \in Priorities : /\ SwitchTo(mc, p).tasks = mc.tasks
                              /\ SwitchTo(mc, p).next_task_id = mc.next_task_id
    BY <1>1, <1>2 DEF SwitchTo, TaskCtl
  <2>2. r = mc \/ \E p \in Priorities : r = SwitchTo(mc, p)
    BY DEF schedule, Priorities
  <2> QED
    BY <2>1, <2>2
<1>5. task_sleep(tc, cause) = r
  BY DEF task_sleep
<1> HIDE DEF r, mc
<1> QED
  BY <1>2, <1>3, <1>4, <1>5, SleepKeeps DEF Func

\* task_start gives the new task its slot and leaves the others alone.
LEMMA StartIs ==
    ASSUME NEW tc, SchedInv(tc), ~Booted(tc),
           NEW s, s = Start[tc.next_task_id]
    PROVE  /\ SchedInv(task_start(tc, s.func, s.priority))
           /\ \A t \in Slots :
                 task_start(tc, s.func, s.priority).tasks[t].flag = TASK_WAITING
                   => task_start(tc, s.func, s.priority).tasks[t] = tc.tasks[t]
           /\ task_start(tc, s.func, s.priority).tasks[KERNEL] = tc.tasks[KERNEL]
<1> DEFINE id == tc.next_task_id
           r  == task_start(tc, s.func, s.priority)
<1>1. tc \in TaskCtl /\ tc.tasks \in [Slots -> Task] /\ id \in 1 .. 2 /\ id \in Slots
  BY TaskCtlFields, KernelConstants DEF SchedInv, Booted, Slots
<1>2. r.tasks = [tc.tasks EXCEPT ![id] = [@ EXCEPT !.flag = TASK_RUNNING,
                                                   !.priority = s.priority,
                                                   !.func = s.func]]
  BY <1>1 DEF task_start, TaskCtl
<1>3. SchedInv(r)
  BY StartKeeps
<1> HIDE DEF r
<1>4. /\ \A t \in Slots \ {id} : r.tasks[t] = tc.tasks[t]
      /\ r.tasks[id].flag = TASK_RUNNING
  BY <1>1, <1>2 DEF Task
<1> QED
  BY <1>1, <1>3, <1>4, KernelConstants DEF r, KERNEL, TASK_RUNNING, TASK_WAITING

-----------------------------------------------------------------------------
(* What KRx does to the sleepers: the loops of udp_rx and raw_recv.        *)

\* The tasks that a packet wakes: the receiver, if it sleeps on a socket that
\* takes the packet.  A loop of wakeups comes down to one or none.
LEMMA TakersWokenIs ==
    ASSUME KernelInv, NEW pkt, pkt.dst \in Dst
    PROVE  /\ \/ TakersWoken(pkt) = taskctl
              \/ upc = "slept" /\ TakersWoken(pkt) = task_wakeup(taskctl, usock)
           /\ Flag(USER) = TASK_WAITING /\ usock \in Takers(pkt.dst)
                => TakersWoken(pkt) = task_wakeup(taskctl, usock)
<1> DEFINE table == IF pkt.dst[1] = "udp" THEN "udp" ELSE "raw"
           count == IF table = "udp" THEN UDP_SOCKET_COUNT ELSE RAW_SOCKET_COUNT
           Step(f) == [i \in 0 .. count |->
                        IF i = 0 THEN taskctl
                        ELSE IF <<table, i - 1>> \in Takers(pkt.dst)
                        THEN task_wakeup(f[i - 1], <<table, i - 1>>)
                        ELSE f[i - 1]]
           Hit(i) == /\ Flag(USER) = TASK_WAITING
                     /\ \E j \in 1 .. i : <<table, j - 1>> = usock /\ usock \in Takers(pkt.dst)
           w == [i \in 0 .. count |-> IF Hit(i) THEN task_wakeup(taskctl, usock) ELSE taskctl]
<1>1. TakersWoken(pkt) = (CHOOSE f : f = Step(f))[count]
  BY DEF TakersWoken
<1>2. count \in Nat
  BY KernelConstants
<1> HIDE DEF count
<1>3. w = Step(w)
  <2> SUFFICES ASSUME NEW i \in 0 .. count PROVE w[i] = Step(w)[i]
    OBVIOUS
  <2>1. CASE i = 0
    BY <2>1, <1>2
  <2>2. CASE i > 0
    <3> DEFINE s == <<table, i - 1>>
    <3>1. i - 1 \in 0 .. count /\ i - 1 # i
      BY <2>2, <1>2
    <3>2. Hit(i) <=> Hit(i - 1) \/ (Flag(USER) = TASK_WAITING /\ s = usock /\ s \in Takers(pkt.dst))
      BY <2>2
    <3>3. Step(w)[i] = IF s \in Takers(pkt.dst) THEN task_wakeup(w[i - 1], s) ELSE w[i - 1]
      BY <2>2
    <3>4. /\ w[i] = IF Hit(i) THEN task_wakeup(taskctl, usock) ELSE taskctl
          /\ w[i - 1] = IF Hit(i - 1) THEN task_wakeup(taskctl, usock) ELSE taskctl
      BY <3>1
    <3> HIDE DEF w, Step, Hit
    <3>5. SchedInv(taskctl)
      BY DEF KernelInv, TaskInv
    <3>6. CASE s \notin Takers(pkt.dst)
      BY <3>2, <3>3, <3>4, <3>6
    <3>7. CASE s \in Takers(pkt.dst)
      <4>1. s \in Sock /\ s \in Causes /\ s # wq_cond
        BY <3>7, KernelConstants DEF Takers
      <4>2. \A t \in Slots : taskctl.tasks[t].flag = TASK_WAITING =>
              \/ t = KERNEL /\ taskctl.tasks[t].waitcause = wq_cond
              \/ t = USER /\ taskctl.tasks[t].waitcause = usock
        BY <3>5, WhoSleeps DEF KernelInv, SleepersInv, Flag
      <4>3. CASE Hit(i - 1)
        <5> DEFINE tc == task_wakeup(taskctl, usock)
        <5>0. usock \in Causes
          BY <4>3, KernelConstants DEF Hit, Takers
        <5>1. /\ SchedInv(tc)
              /\ \A t \in Slots : tc.tasks[t].flag = TASK_WAITING =>
                   /\ taskctl.tasks[t].flag = TASK_WAITING /\ taskctl.tasks[t].waitcause # usock
                   /\ tc.tasks[t].waitcause = taskctl.tasks[t].waitcause
          BY <3>5, <5>0, WakeupIs
        <5> HIDE DEF tc
        <5>2. \A t \in Slots : tc.tasks[t].flag = TASK_WAITING => tc.tasks[t].waitcause # s
          BY <5>1, <4>1, <4>2
        <5>3. task_wakeup(tc, s) = tc
          BY <5>1, <5>2, WakesNobody
        <5> QED
          BY <5>3, <4>3, <3>2, <3>3, <3>4, <3>7 DEF tc
      <4>4. CASE ~Hit(i - 1) /\ Hit(i)
        BY <4>4, <3>2, <3>3, <3>4, <3>7
      <4>5. CASE ~Hit(i)
        <5>1. \A t \in Slots : taskctl.tasks[t].flag = TASK_WAITING => taskctl.tasks[t].waitcause # s
          BY <4>5, <4>1, <4>2, <3>2, <3>7 DEF Flag
        <5>2. task_wakeup(taskctl, s) = taskctl
          BY <5>1, <3>5, WakesNobody
        <5> QED
          BY <5>2, <4>5, <3>2, <3>3, <3>4, <3>7
      <4> QED
        BY <4>3, <4>4, <4>5
    <3> QED
      BY <3>6, <3>7
  <2> QED
    BY <2>1, <2>2
<1>4. ASSUME NEW g, g = Step(g) PROVE g = w
  <2> DEFINE T == {i \in 0 .. count : g[i] # w[i]}
  <2>1. T = {}
    <3> SUFFICES ASSUME T # {} PROVE FALSE
      OBVIOUS
    <3>1. T \in SUBSET Nat
      OBVIOUS
    <3>2. PICK n \in T : \A m \in T : n <= m
      <4> HIDE DEF T
      <4> QED
        BY <3>1, LeastNat
    <3>3. n # 0
      <4>1. Step(g)[0] = taskctl /\ Step(w)[0] = taskctl
        BY <1>2
      <4> HIDE DEF Step, w
      <4> QED
        BY <4>1, <1>3, <1>4
    <3>4. n - 1 \in 0 .. count /\ n - 1 \notin T /\ n \in 0 .. count
      <4>1. n \in 0 .. count
        OBVIOUS
      <4> HIDE DEF T
      <4> QED
        BY <4>1, <1>2, <3>2, <3>3
    <3>5. g[n - 1] = w[n - 1]
      <4> HIDE DEF w
      <4> QED
        BY <3>4
    <3>6. Step(g)[n] = Step(w)[n]
      <4> HIDE DEF w
      <4> QED
        BY <3>3, <3>4, <3>5
    <3> HIDE DEF Step, w
    <3> QED
      BY <3>6, <1>3, <1>4, <3>2
  <2>2. DOMAIN g = 0 .. count /\ DOMAIN w = 0 .. count /\ g = [i \in 0 .. count |-> g[i]]
    <3>1. /\ DOMAIN Step(g) = 0 .. count
          /\ Step(g) = [i \in 0 .. count |-> Step(g)[i]]
      OBVIOUS
    <3> HIDE DEF Step
    <3> QED
      BY <3>1, <1>4
  <2>3. \A i \in 0 .. count : g[i] = w[i]
    <3> HIDE DEF w
    <3> QED
      BY <2>1
  <2> QED
    BY <2>2, <2>3
<1>5. (CHOOSE f : f = Step(f)) = w
  <2> HIDE DEF Step, w
  <2> QED
    BY <1>3, <1>4
<1>6. TakersWoken(pkt) = IF Hit(count) THEN task_wakeup(taskctl, usock) ELSE taskctl
  <2>1. w[count] = IF Hit(count) THEN task_wakeup(taskctl, usock) ELSE taskctl
    BY <1>2
  <2> HIDE DEF w, Step, Hit
  <2> QED
    BY <2>1, <1>1, <1>5
<1>7. Hit(count) => upc = "slept"
  BY DEF KernelInv, SleepersInv
<1>8. Flag(USER) = TASK_WAITING /\ usock \in Takers(pkt.dst) => Hit(count)
  <2> SUFFICES ASSUME Flag(USER) = TASK_WAITING, usock \in Takers(pkt.dst)
               PROVE  Hit(count)
    OBVIOUS
  <2>1. usock \in Sock /\ IsFor(pkt.dst, usock)
    BY DEF Takers
  <2>2. CASE pkt.dst[1] = "udp"
    <3>1. usock = pkt.dst \/ (usock \in RawSock /\ pkt.dst[1] = "icmp")
      BY <2>1 DEF IsFor
    <3>2. usock = pkt.dst
      BY <3>1, <2>2
    <3>3. PICK j \in 0 .. UDP_SOCKET_COUNT - 1 : usock = <<"udp", j>>
      <4>1. usock \notin RawSock
        BY <2>2, <3>2 DEF RawSock
      <4> QED
        BY <4>1, <2>1 DEF Sock, UdpSock
    <3> QED
      BY <3>3, <2>2, KernelConstants DEF count
  <2>3. CASE pkt.dst[1] # "udp"
    <3>1. pkt.dst = <<"icmp", 0>>
      BY <2>3 DEF Dst
    <3>2. usock \in RawSock
      BY <2>1, <3>1 DEF IsFor, Sock, UdpSock
    <3>3. PICK j \in 0 .. RAW_SOCKET_COUNT - 1 : usock = <<"raw", j>>
      BY <3>2 DEF RawSock
    <3> QED
      BY <3>3, <2>3, KernelConstants DEF count
  <2> QED
    BY <2>2, <2>3
<1> HIDE DEF Hit
<1> QED
  BY <1>6, <1>7, <1>8

-----------------------------------------------------------------------------
(* Sequences and the timer list.                                           *)

\* What a list holds after list_pushback.
LEMMA ElementsAppend ==
    ASSUME NEW S, NEW q \in Seq(S), NEW x \in S
    PROVE  /\ Append(q, x) \in Seq(S)
           /\ Elements(Append(q, x)) = Elements(q) \cup {x}
<1>1. /\ Append(q, x) \in Seq(S) /\ Len(Append(q, x)) = Len(q) + 1 /\ Len(q) \in Nat
      /\ \A i \in 1 .. Len(q) : Append(q, x)[i] = q[i]
      /\ Append(q, x)[Len(q) + 1] = x
  BY AppendProperties, LenProperties
<1>2. \A i \in 1 .. Len(q) + 1 : i \in 1 .. Len(q) \/ i = Len(q) + 1
  BY <1>1
<1>3. \A i \in 1 .. Len(q) : i \in 1 .. Len(q) + 1
  BY <1>1
<1>4. Len(q) + 1 \in 1 .. Len(q) + 1
  BY <1>1
<1> QED
  BY <1>1, <1>2, <1>3, <1>4 DEF Elements

\* What one list behind the other holds.
LEMMA ElementsConcat ==
    ASSUME NEW S, NEW q \in Seq(S), NEW r \in Seq(S)
    PROVE  q \o r \in Seq(S) /\ Elements(q \o r) = Elements(q) \cup Elements(r)
<1> DEFINE c == q \o r
<1>1. /\ c \in Seq(S) /\ Len(c) = Len(q) + Len(r) /\ Len(q) \in Nat /\ Len(r) \in Nat
      /\ \A i \in 1 .. Len(q) + Len(r) : c[i] = IF i <= Len(q) THEN q[i] ELSE r[i - Len(q)]
  BY ConcatProperties, LenProperties
<1>2. \A i \in 1 .. Len(q) : i \in 1 .. Len(c) /\ c[i] = q[i]
  BY <1>1
<1>3. \A i \in 1 .. Len(r) : i + Len(q) \in 1 .. Len(c) /\ c[i + Len(q)] = r[i]
  BY <1>1
<1>4. \A i \in 1 .. Len(c) : \/ i \in 1 .. Len(q) /\ c[i] = q[i]
                             \/ i - Len(q) \in 1 .. Len(r) /\ c[i] = r[i - Len(q)]
  BY <1>1
<1> HIDE DEF c
<1>5. Elements(c) = Elements(q) \cup Elements(r)
  <2>1. Elements(q) \subseteq Elements(c)
    BY <1>2 DEF Elements
  <2>2. Elements(r) \subseteq Elements(c)
    BY <1>3 DEF Elements
  <2>3. Elements(c) \subseteq Elements(q) \cup Elements(r)
    BY <1>4 DEF Elements
  <2> QED
    BY <2>1, <2>2, <2>3
<1> QED
  BY <1>1, <1>5 DEF c

\* What a list holds before and after list_popfront.
LEMMA ElementsTail ==
    ASSUME NEW S, NEW q \in Seq(S), q # << >>
    PROVE  /\ Head(q) \in S /\ Tail(q) \in Seq(S)
           /\ Elements(q) = {Head(q)} \cup Elements(Tail(q))
           /\ Len(q) \in Nat /\ Len(Tail(q)) = Len(q) - 1 /\ Head(q) = q[1]
           /\ \A i \in 1 .. Len(Tail(q)) : Tail(q)[i] = q[i + 1] /\ i + 1 \in 1 .. Len(q)
<1>1. /\ Head(q) \in S /\ Head(q) = q[1] /\ Tail(q) \in Seq(S)
      /\ Len(q) \in Nat /\ Len(q) >= 1 /\ Len(Tail(q)) = Len(q) - 1
      /\ \A i \in 1 .. Len(Tail(q)) : Tail(q)[i] = q[i + 1]
  BY HeadTailProperties, LenProperties, EmptySeq
<1>2. \A i \in 1 .. Len(q) : i = 1 \/ (i - 1 \in 1 .. Len(Tail(q)) /\ Tail(q)[i - 1] = q[i])
  BY <1>1
<1>3. \A i \in 1 .. Len(Tail(q)) : i + 1 \in 1 .. Len(q)
  BY <1>1
<1>4. 1 \in 1 .. Len(q)
  BY <1>1
<1>5. Elements(q) = {Head(q)} \cup Elements(Tail(q))
  <2>1. Head(q) \in Elements(q)
    BY <1>1, <1>4 DEF Elements
  <2>2. Elements(Tail(q)) \subseteq Elements(q)
    BY <1>1, <1>3 DEF Elements
  <2>3. Elements(q) \subseteq {Head(q)} \cup Elements(Tail(q))
    <3> SUFFICES ASSUME NEW i \in 1 .. Len(q), q[i] # Head(q)
                 PROVE  q[i] \in Elements(Tail(q))
      BY DEF Elements
    <3>1. i - 1 \in 1 .. Len(Tail(q)) /\ Tail(q)[i - 1] = q[i]
      BY <1>1, <1>2
    <3> QED
      BY <3>1 DEF Elements
  <2> QED
    BY <2>1, <2>2, <2>3
<1> QED
  BY <1>1, <1>3, <1>5

\* The members of a sequence over a set are in the set.
LEMMA ElementsIn ==
    ASSUME NEW S, NEW q \in Seq(S)
    PROVE  Elements(q) \subseteq S
  BY ElementOfSeq DEF Elements

\* The two parts of a list hold what the list holds.
LEMMA ElementsParts ==
    ASSUME NEW S, NEW q \in Seq(S), NEW k \in 0 .. Len(q)
    PROVE  LET A == SubSeq(q, 1, k)
               B == SubSeq(q, k + 1, Len(q))
           IN  /\ A \in Seq(S) /\ B \in Seq(S)
               /\ Len(A) = k /\ \A i \in 1 .. k : A[i] = q[i]
               /\ Elements(q) = Elements(A) \cup Elements(B)
<1> DEFINE A == SubSeq(q, 1, k)
           B == SubSeq(q, k + 1, Len(q))
<1>1. Len(q) \in Nat /\ \A i \in 1 .. Len(q) : q[i] \in S
  BY LenProperties, ElementOfSeq
<1>2. A \in Seq(S) /\ Len(A) = k /\ \A i \in 1 .. k : A[i] = q[i]
  <2>1. \A i \in 1 .. k : q[i] \in S
    BY <1>1
  <2>2. /\ A \in Seq(S) /\ Len(A) = IF 1 <= k THEN k - 1 + 1 ELSE 0
        /\ \A i \in 1 .. k - 1 + 1 : A[i] = q[1 + i - 1]
    BY <1>1, <2>1, SubSeqProperties
  <2> HIDE DEF A
  <2> QED
    BY <1>1, <2>2
<1>3. B \in Seq(S) /\ Len(B) = Len(q) - k /\ \A i \in 1 .. Len(q) - k : B[i] = q[k + i]
  <2>1. \A i \in k + 1 .. Len(q) : q[i] \in S
    BY <1>1
  <2>2. /\ B \in Seq(S) /\ Len(B) = IF k + 1 <= Len(q) THEN Len(q) - (k + 1) + 1 ELSE 0
        /\ \A i \in 1 .. Len(q) - (k + 1) + 1 : B[i] = q[(k + 1) + i - 1]
    BY <1>1, <2>1, SubSeqProperties
  <2> HIDE DEF B
  <2> QED
    BY <1>1, <2>2
<1> HIDE DEF A, B
<1>4. \A i \in 1 .. Len(q) : \/ i \in 1 .. Len(A) /\ q[i] = A[i]
                             \/ i - k \in 1 .. Len(B) /\ q[i] = B[i - k]
  BY <1>1, <1>2, <1>3
<1>5. /\ \A i \in 1 .. Len(A) : i \in 1 .. Len(q)
      /\ \A i \in 1 .. Len(B) : k + i \in 1 .. Len(q)
  BY <1>1, <1>2, <1>3
<1>6. Elements(q) = Elements(A) \cup Elements(B)
  <2>1. Elements(A) \subseteq Elements(q)
    BY <1>2, <1>5 DEF Elements
  <2>2. Elements(B) \subseteq Elements(q)
    BY <1>3, <1>5 DEF Elements
  <2>3. Elements(q) \subseteq Elements(A) \cup Elements(B)
    BY <1>4 DEF Elements
  <2> QED
    BY <2>1, <2>2, <2>3
<1> QED
  BY <1>2, <1>3, <1>6 DEF A, B

\* The deadlines in the timer list are numbers.
LEMMA TimersTyped ==
    ASSUME NEW e \in Timers
    PROVE  e.tick \in Nat
  BY KernelConstants DEF Timers

\* The front run ends before the first later entry, or with the list.
LEMMA FrontRun ==
    ASSUME NEW list \in Seq(Timers), NEW t \in Nat
    PROVE  /\ FrontUpTo(list, t) \in 0 .. Len(list)
           /\ \A i \in 1 .. FrontUpTo(list, t) : list[i].tick <= t
<1> DEFINE P(k) == /\ \A i \in 1 .. k : list[i].tick <= t
                   /\ k < Len(list) => list[k + 1].tick > t
           Stop == {k \in 0 .. Len(list) : k < Len(list) => list[k + 1].tick > t}
<1>1. Len(list) \in Nat /\ \A i \in 1 .. Len(list) : list[i].tick \in Nat
  BY LenProperties, ElementOfSeq, TimersTyped
<1>2. \E k \in 0 .. Len(list) : P(k)
  <2>1. Stop \in SUBSET Nat /\ Len(list) \in Stop
    BY <1>1
  <2>2. PICK k \in Stop : \A m \in Stop : k <= m
    <3> HIDE DEF Stop
    <3> QED
      BY <2>1, LeastNat
  <2>3. \A i \in 1 .. k : list[i].tick <= t
    <3> TAKE i \in 1 .. k
    <3>1. i - 1 \in 0 .. Len(list) /\ i - 1 \notin Stop /\ i \in 1 .. Len(list)
      <4>1. k \in 0 .. Len(list)
        OBVIOUS
      <4> HIDE DEF Stop
      <4> QED
        BY <1>1, <2>2, <4>1
    <3> QED
      BY <1>1, <3>1
  <2> QED
    BY <2>2, <2>3
<1>3. FrontUpTo(list, t) = CHOOSE k \in 0 .. Len(list) : P(k)
  BY DEF FrontUpTo
<1> HIDE DEF P
<1>4. FrontUpTo(list, t) \in 0 .. Len(list) /\ P(FrontUpTo(list, t))
  BY <1>2, <1>3
<1> QED
  BY <1>4 DEF P

\* set_timer adds its entry and nothing else.
LEMMA SetTimerIs ==
    ASSUME NEW list \in Seq(Timers), NEW e \in Timers
    PROVE  /\ set_timer(list, e) \in Seq(Timers)
           /\ Elements(set_timer(list, e)) = Elements(list) \cup {e}
<1> DEFINE k == FrontUpTo(list, e.tick)
           A == SubSeq(list, 1, k)
           B == SubSeq(list, k + 1, Len(list))
           x == <<e>>
<1>1. k \in 0 .. Len(list)
  BY FrontRun, TimersTyped
<1>2. A \in Seq(Timers) /\ B \in Seq(Timers) /\ Elements(list) = Elements(A) \cup Elements(B)
  <2> HIDE DEF k
  <2> QED
    BY <1>1, ElementsParts
<1>3. x \in Seq(Timers) /\ Elements(x) = {e}
  BY DEF Elements
<1>4. set_timer(list, e) = A \o x \o B
  BY DEF set_timer
<1> HIDE DEF A, B, x
<1> DEFINE y == A \o x
<1>5. y \in Seq(Timers) /\ Elements(y) = Elements(A) \cup {e}
  BY <1>2, <1>3, ElementsConcat
<1> HIDE DEF y
<1>6. y \o B \in Seq(Timers) /\ Elements(y \o B) = Elements(y) \cup Elements(B)
  BY <1>2, <1>5, ElementsConcat
<1> QED
  BY <1>2, <1>4, <1>5, <1>6 DEF y

\* What the timers do at the end of int_pit: those that are due, none of them
\* last_timer, leave the list, their works come behind the work queue, and the
\* kernel task is woken if there are any.
LEMMA RunTimersIs ==
    ASSUME KernelTypes, NEW tc, NEW now \in 0 .. MaxTick, RunTimers(tc, now)
    PROVE  /\ timer_list' \in Seq(Timers)
           /\ \E new \in Seq({w \in Works : /\ w.func = "recv_timeout"
                                            /\ w.arg.wait_id + DELAY <= now}) :
                /\ wq' = wq \o new
                /\ \A e \in Elements(timer_list) :
                      e \in Elements(timer_list') \/ e.work \in Elements(new)
                /\ taskctl' = IF new = << >> THEN tc ELSE task_wakeup(tc, wq_cond)
<1> DEFINE k   == FrontUpTo(timer_list, now)
           due == Expired(timer_list, now)
           new == [i \in 1 .. Len(due) |-> due[i].work]
           N   == {w \in Works : w.func = "recv_timeout" /\ w.arg.wait_id + DELAY <= now}
<1>1. /\ timer_list \in Seq(Timers) /\ now \in Nat /\ k \in 0 .. Len(timer_list)
      /\ \A i \in 1 .. k : timer_list[i].tick <= now
      /\ Len(timer_list) \in Nat
  <2>1. timer_list \in Seq(Timers)
    BY DEF KernelTypes
  <2>2. now \in Nat
    BY KernelConstants
  <2>3. Len(timer_list) \in Nat
    BY <2>1, LenProperties
  <2>4. k \in 0 .. Len(timer_list) /\ \A i \in 1 .. k : timer_list[i].tick <= now
    BY <2>1, <2>2, FrontRun
  <2> QED
    BY <2>1, <2>2, <2>3, <2>4
<1>2. due = SubSeq(timer_list, 1, k) /\ timer_list' = SubSeq(timer_list, k + 1, Len(timer_list))
  BY DEF RunTimers, Expired, Unexpired
<1>3. /\ wq' = wq \o new
      /\ taskctl' = IF due = << >> THEN tc ELSE task_wakeup(tc, wq_cond)
  BY DEF RunTimers
<1> HIDE DEF k, due
<1>4. /\ due \in Seq(Timers) /\ timer_list' \in Seq(Timers) /\ Len(due) = k
      /\ \A i \in 1 .. k : due[i] = timer_list[i]
      /\ Elements(timer_list) = Elements(due) \cup Elements(timer_list')
  BY <1>1, <1>2, ElementsParts
<1>5. ASSUME NEW i \in 1 .. Len(due) PROVE due[i].work \in N
  <2>1. due[i] \in Timers /\ due[i].tick <= now
    BY <1>1, <1>4, ElementOfSeq
  <2>2. due[i].tick # TICK_MAX
    BY <2>1, KernelConstants, TimersTyped
  <2>3. PICK s \in Sock, n \in 0 .. MaxTick : due[i] = [tick |-> n + DELAY, work |-> TimeoutWork(s, n)]
    BY <2>1, <2>2 DEF Timers
  <2> QED
    BY <2>1, <2>3 DEF Works, TimeoutWork, Work
<1>6. new \in Seq(N) /\ Len(new) = Len(due) /\ \A i \in 1 .. Len(due) : new[i] = due[i].work
  <2>1. Len(due) \in Nat
    BY <1>1, <1>4
  <2> HIDE DEF N
  <2> QED
    BY <2>1, <1>5
<1>7. new = << >> <=> due = << >>
  BY <1>4, <1>6, EmptySeq
<1>8. \A e \in Elements(due) : e.work \in Elements(new)
  BY <1>6 DEF Elements
<1> HIDE DEF new, N
<1>9. new \in Seq(N) /\ wq' = wq \o new
      /\ (\A e \in Elements(timer_list) : e \in Elements(timer_list') \/ e.work \in Elements(new))
      /\ taskctl' = IF new = << >> THEN tc ELSE task_wakeup(tc, wq_cond)
  BY <1>3, <1>4, <1>6, <1>7, <1>8
<1> QED
  BY <1>4, <1>9 DEF N

-----------------------------------------------------------------------------
(* Every step keeps the types.                                             *)

\* The works that are due are works.
LEMMA DueAreWorks ==
    ASSUME NEW now, NEW new \in Seq({w \in Works : /\ w.func = "recv_timeout"
                                                   /\ w.arg.wait_id + DELAY <= now})
    PROVE  new \in Seq(Works)
<1>1. Len(new) \in Nat /\ new = [i \in 1 .. Len(new) |-> new[i]]
  BY LenProperties
<1>2. \A i \in 1 .. Len(new) : new[i] \in Works
  BY ElementOfSeq
<1>3. [i \in 1 .. Len(new) |-> new[i]] \in Seq(Works)
  BY <1>1, <1>2
<1> QED
  BY <1>1, <1>3

\* A step of the timers keeps the types of what it changes.
LEMMA RunTimersTypes ==
    ASSUME KernelTypes, NEW tc, NEW now \in 0 .. MaxTick, RunTimers(tc, now)
    PROVE  timer_list' \in Seq(Timers) /\ wq' \in Seq(Works)
<1>1. PICK new \in Seq({w \in Works : /\ w.func = "recv_timeout"
                                      /\ w.arg.wait_id + DELAY <= now}) : wq' = wq \o new
  BY RunTimersIs
<1>2. new \in Seq(Works) /\ wq \in Seq(Works)
  BY DueAreWorks DEF KernelTypes
<1>3. wq \o new \in Seq(Works)
  BY <1>2, ElementsConcat
<1> QED
  BY <1>1, <1>3, RunTimersIs

\* The tick of a step is within the bound.
LEMMA NextTickIs ==
    ASSUME KernelTypes
    PROVE  NextTick \in 0 .. MaxTick /\ NextTick >= tick /\ tick \in 0 .. MaxTick
  BY KernelConstants DEF KernelTypes, NextTick

\* What the sockets hold after a delivery.
LEMMA DeliveredTypes ==
    ASSUME KernelTypes, NEW pkt, pkt.id \in 1 .. MaxPkts
    PROVE  /\ Delivered(pkt) \in [Sock -> Socket]
           /\ \A s \in Sock :
                /\ Delivered(pkt)[s].flag = sockets[s].flag
                /\ Delivered(pkt)[s].wait_id = sockets[s].wait_id
                /\ Delivered(pkt)[s].rx = IF s \in Takers(pkt.dst)
                                          THEN Append(sockets[s].rx, pkt.id) ELSE sockets[s].rx
<1>1. ASSUME NEW s \in Sock
      PROVE  /\ Delivered(pkt)[s] \in Socket
             /\ Delivered(pkt)[s].flag = sockets[s].flag
             /\ Delivered(pkt)[s].wait_id = sockets[s].wait_id
             /\ Delivered(pkt)[s].rx = IF s \in Takers(pkt.dst)
                                       THEN Append(sockets[s].rx, pkt.id) ELSE sockets[s].rx
  <2>1. sockets[s] \in Socket
    BY DEF KernelTypes
  <2>2. Append(sockets[s].rx, pkt.id) \in Seq(1 .. MaxPkts)
    BY <2>1, AppendProperties DEF Socket
  <2>3. Delivered(pkt)[s] = IF s \in Takers(pkt.dst)
                            THEN [sockets[s] EXCEPT !.rx = Append(@, pkt.id)] ELSE sockets[s]
    BY DEF Delivered
  <2> QED
    BY <2>1, <2>2, <2>3 DEF Socket
<1>2. Delivered(pkt) = [s \in Sock |-> Delivered(pkt)[s]]
  BY DEF Delivered
<1> QED
  BY <1>1, <1>2

\* What the sockets and the programs hold after list_popfront.
LEMMA PopTypes ==
    ASSUME KernelTypes, NEW s \in Sock, sockets[s].rx # << >>, Pop(s)
    PROVE  /\ sockets' \in [Sock -> Socket]
           /\ got' \in [Sock -> Seq(1 .. MaxPkts)]
           /\ sockets'[s].rx = Tail(sockets[s].rx)
           /\ got'[s] = Append(got[s], Head(sockets[s].rx))
           /\ \A r \in Sock \ {s} : sockets'[r] = sockets[r] /\ got'[r] = got[r]
           /\ \A r \in Sock : sockets'[r].flag = sockets[r].flag /\ sockets'[r].wait_id = sockets[r].wait_id
<1>1. /\ sockets \in [Sock -> Socket] /\ got \in [Sock -> Seq(1 .. MaxPkts)]
      /\ sockets[s] \in Socket /\ sockets[s].rx \in Seq(1 .. MaxPkts)
  BY DEF KernelTypes, Socket
<1>2. Head(sockets[s].rx) \in 1 .. MaxPkts /\ Tail(sockets[s].rx) \in Seq(1 .. MaxPkts)
  BY <1>1, HeadTailProperties
<1>3. Append(got[s], Head(sockets[s].rx)) \in Seq(1 .. MaxPkts)
  BY <1>1, <1>2, AppendProperties
<1>4. /\ sockets' = [sockets EXCEPT ![s] = [sockets[s] EXCEPT !.rx = Tail(sockets[s].rx)]]
      /\ got' = [got EXCEPT ![s] = Append(got[s], Head(sockets[s].rx))]
  BY <1>1 DEF Pop
<1>5. [sockets[s] EXCEPT !.rx = Tail(sockets[s].rx)] \in Socket
  BY <1>1, <1>2 DEF Socket
<1>6. /\ [sockets[s] EXCEPT !.rx = Tail(sockets[s].rx)].rx = Tail(sockets[s].rx)
      /\ [sockets[s] EXCEPT !.rx = Tail(sockets[s].rx)].flag = sockets[s].flag
      /\ [sockets[s] EXCEPT !.rx = Tail(sockets[s].rx)].wait_id = sockets[s].wait_id
  BY <1>1 DEF Socket
<1> DEFINE x == [sockets[s] EXCEPT !.rx = Tail(sockets[s].rx)]
<1> HIDE DEF x
<1>7. sockets' = [sockets EXCEPT ![s] = x]
  BY <1>4 DEF x
<1>8. x \in Socket /\ x.rx = Tail(sockets[s].rx) /\ x.flag = sockets[s].flag /\ x.wait_id = sockets[s].wait_id
  BY <1>5, <1>6 DEF x
<1> QED
  BY <1>1, <1>3, <1>4, <1>7, <1>8

\* What the sockets hold when a receive goes to sleep.
LEMMA WaitTypes ==
    ASSUME KernelTypes, NEW s \in Sock, NEW n \in 0 .. MaxTick,
           sockets' = [sockets EXCEPT ![s].wait_id = n]
    PROVE  /\ sockets' \in [Sock -> Socket]
           /\ sockets'[s].wait_id = n
           /\ \A r \in Sock \ {s} : sockets'[r] = sockets[r]
           /\ \A r \in Sock : sockets'[r].flag = sockets[r].flag /\ sockets'[r].rx = sockets[r].rx
<1>1. sockets \in [Sock -> Socket] /\ sockets[s] \in Socket
  BY DEF KernelTypes
<1> DEFINE x == [sockets[s] EXCEPT !.wait_id = n]
<1>2. sockets' = [sockets EXCEPT ![s] = x]
  BY <1>1
<1>3. x \in Socket /\ x.wait_id = n /\ x.flag = sockets[s].flag /\ x.rx = sockets[s].rx
  BY <1>1 DEF Socket
<1> HIDE DEF x
<1> QED
  BY <1>1, <1>2, <1>3

\* What the sockets hold when one is opened.
LEMMA OpenTypes ==
    ASSUME KernelTypes, NEW s \in Sock
    PROVE  /\ Opened(s) \in [Sock -> Socket]
           /\ Opened(s)[s].wait_id = 0
           /\ \A r \in Sock \ {s} : Opened(s)[r] = sockets[r]
           /\ \A r \in Sock : Opened(s)[r].rx = sockets[r].rx
<1>1. sockets \in [Sock -> Socket] /\ sockets[s] \in Socket
  BY DEF KernelTypes
<1> DEFINE y == [sockets[s] EXCEPT !.flag = "USED"]
           x == [y EXCEPT !.wait_id = 0]
<1>2. Opened(s) = [sockets EXCEPT ![s] = x]
  <2> DEFINE z == [sockets EXCEPT ![s] = y]
  <2>1. Opened(s) = [z EXCEPT ![s].wait_id = 0]
    BY DEF Opened
  <2>2. z[s] = y /\ z = [r \in Sock |-> IF r = s THEN y ELSE sockets[r]]
    BY <1>1
  <2> HIDE DEF y, z
  <2>3. Opened(s) = [r \in Sock |-> IF r = s THEN x ELSE sockets[r]]
    <3>1. [z EXCEPT ![s].wait_id = 0] = [z EXCEPT ![s] = [z[s] EXCEPT !.wait_id = 0]]
      BY <2>2
    <3>2. [z EXCEPT ![s] = x] = [r \in Sock |-> IF r = s THEN x ELSE sockets[r]]
      <4> HIDE DEF x
      <4> QED
        BY <2>2
    <3> QED
      BY <2>1, <2>2, <3>1, <3>2
  <2> HIDE DEF x
  <2> QED
    BY <1>1, <2>3
<1>3. x \in Socket /\ x.wait_id = 0 /\ x.rx = sockets[s].rx
  <2>1. y \in Socket /\ y.rx = sockets[s].rx
    BY <1>1 DEF Socket
  <2>2. 0 \in 0 .. MaxTick
    BY KernelConstants
  <2> HIDE DEF y
  <2> QED
    BY <2>1, <2>2 DEF Socket
<1> HIDE DEF x
<1> QED
  BY <1>1, <1>2, <1>3

\* The bounds keep a deadline from wrapping.
LEMMA DeadlineIs ==
    ASSUME NEW now \in 0 .. MaxTick, now + DELAY <= MaxTick
    PROVE  Deadline(now, DELAY) = now + DELAY
<1>1. now + DELAY \in Nat /\ now + DELAY < TICK_MAX + 1 /\ TICK_MAX + 1 \in Nat \ {0}
  BY KernelConstants
<1>2. \A x, y \in Nat : x < y => x % y = x
  OBVIOUS
<1> QED
  BY <1>1, <1>2 DEF Deadline

\* The entry that a sleeping receive puts into the timer list.
LEMMA TimeoutEntry ==
    ASSUME KernelTypes, NEW s \in Sock, tick + DELAY <= MaxTick
    PROVE  /\ [tick |-> Deadline(tick, DELAY), work |-> TimeoutOf(s)] \in Timers
           /\ TimeoutOf(s) = TimeoutWork(s, tick)
<1>1. Deadline(tick, DELAY) = tick + DELAY /\ tick \in 0 .. MaxTick
  BY DeadlineIs DEF KernelTypes
<1>2. TimeoutOf(s) = TimeoutWork(s, tick)
  BY DEF TimeoutOf, TimeoutWork
<1> QED
  BY <1>1, <1>2 DEF Timers

\* KernelTypes is inductive.
LEMMA TypesKept ==
    ASSUME KernelInv, KernelNext
    PROVE  KernelTypes'
<1> USE DEF netvars, kernvars
<1>0. KernelTypes
  BY DEF KernelInv
<1>1. CASE KBoot
  BY <1>0, <1>1 DEF KBoot, KernelTypes
<1>2. CASE Pit
  <2>1. tick' = NextTick /\ NextTick \in 0 .. MaxTick
    BY <1>0, <1>2, NextTickIs DEF Pit
  <2>2. timer_list' \in Seq(Timers) /\ wq' \in Seq(Works) /\ inpit' \subseteq Slots
    <3> DEFINE old == taskctl.current_task
               tc  == Switched(taskctl, tick')
    <3>1. CASE tc.current_task = old
      <4>1. RunTimers(tc, tick') /\ UNCHANGED inpit
        BY <1>2, <3>1 DEF Pit
      <4> HIDE DEF tc
      <4> QED
        BY <1>0, <2>1, <4>1, RunTimersTypes DEF KernelTypes
    <3>2. CASE tc.current_task # old
      <4>1. old \in Slots
        BY TaskCtlFields DEF KernelInv, TaskInv, SchedInv
      <4> QED
        BY <1>0, <1>2, <3>2, <4>1 DEF Pit, KernelTypes
    <3> QED
      BY <3>1, <3>2
  <2> QED
    BY <1>0, <1>2, <2>1, <2>2 DEF Pit, KernelTypes
<1>3. CASE PitResume
  <2>1. timer_list' \in Seq(Timers) /\ wq' \in Seq(Works)
    BY <1>0, <1>3, RunTimersTypes DEF PitResume, KernelTypes
  <2> QED
    BY <1>0, <1>3, <2>1 DEF PitResume, KernelTypes
<1>4. ASSUME NEW dst \in Dst, NicInt(dst) PROVE KernelTypes'
  <2>1. npkt + 1 \in 1 .. MaxPkts /\ npkt' = npkt + 1
    BY <1>0, <1>4, KernelConstants DEF NicInt, KernelTypes
  <2> DEFINE w == Work("ether_rx", [id |-> npkt + 1, dst |-> dst])
  <2>2. w \in Works /\ wq' = Append(wq, w)
    BY <1>4, <2>1 DEF NicInt, wq_push, Works
  <2>3. dst_of' \in Seq(Dst) /\ Len(dst_of') = npkt'
    BY <1>0, <1>4, <2>1, AppendProperties DEF NicInt, KernelTypes
  <2> HIDE DEF w
  <2>4. wq' \in Seq(Works)
    BY <1>0, <2>2, ElementsAppend DEF KernelTypes
  <2> QED
    BY <1>0, <1>4, <2>1, <2>3, <2>4 DEF NicInt, KernelTypes
<1>5. CASE KLoop \/ KWoken
  BY <1>0, <1>5 DEF KLoop, KWoken, KernelTypes
<1>6. CASE KExec
  <2>1. kwork' \in Works /\ wq' \in Seq(Works)
    BY <1>0, <1>6, ElementsTail DEF KExec, KernelTypes
  <2> QED
    BY <1>0, <1>6, <2>1 DEF KExec, KernelTypes
<1>7. CASE KRx
  <2>1. kwork.arg.id \in 1 .. MaxPkts
    BY <1>0, <1>7 DEF KRx, KernelTypes, Works, Work, NoWork, TimeoutWork
  <2>2. sockets' \in [Sock -> Socket]
    BY <1>0, <1>7, <2>1, DeliveredTypes DEF KRx
  <2> QED
    BY <1>0, <1>7, <2>2 DEF KRx, KernelTypes
<1>8. CASE KTimeoutCheck \/ KTimeoutWake
  BY <1>0, <1>8 DEF KTimeoutCheck, KTimeoutWake, KernelTypes
<1>9. ASSUME NEW table, table = UdpSock \/ table = RawSock, UserOpen(table)
      PROVE  KernelTypes'
  <2>1. sockets' \in [Sock -> Socket] /\ base' \in [Sock -> Nat]
    <3>1. CASE UNCHANGED <<sockets, base>>
      BY <1>0, <3>1 DEF KernelTypes
    <3>2. ASSUME NEW s \in table, sockets' = Opened(s), base' = [base EXCEPT ![s] = npkt]
          PROVE  sockets' \in [Sock -> Socket] /\ base' \in [Sock -> Nat]
      <4>1. s \in Sock /\ npkt \in Nat
        BY <1>0, <1>9, KernelConstants DEF Sock, KernelTypes
      <4> QED
        BY <1>0, <3>2, <4>1, OpenTypes DEF KernelTypes
    <3> QED
      BY <1>9, <3>1, <3>2 DEF UserOpen
  <2> QED
    BY <1>0, <1>9, <2>1 DEF UserOpen, KernelTypes
<1>10. ASSUME NEW s \in Sock, UserRecv(s) PROVE KernelTypes'
  <2>1. CASE sockets[s].rx # << >>
    <3>1. sockets' \in [Sock -> Socket] /\ got' \in [Sock -> Seq(1 .. MaxPkts)]
      BY <1>0, <1>10, <2>1, PopTypes DEF UserRecv
    <3> QED
      BY <1>0, <1>10, <2>1, <3>1 DEF UserRecv, KernelTypes
  <2>2. CASE sockets[s].rx = << >>
    <3>1. sockets' \in [Sock -> Socket]
      BY <1>0, <1>10, <2>2, WaitTypes DEF UserRecv, KernelTypes
    <3>2. timer_list' \in Seq(Timers)
      <4> DEFINE e == [tick |-> Deadline(tick, DELAY), work |-> TimeoutOf(s)]
      <4>1. e \in Timers
        BY <1>0, <1>10, TimeoutEntry DEF UserRecv
      <4>2. timer_list' = set_timer(timer_list, e)
        BY <1>10, <2>2 DEF UserRecv, wq_push_with_delay
      <4> HIDE DEF e
      <4> QED
        BY <1>0, <4>1, <4>2, SetTimerIs DEF KernelTypes
    <3> QED
      BY <1>0, <1>10, <2>2, <3>1, <3>2 DEF UserRecv, KernelTypes
  <2> QED
    BY <2>1, <2>2
<1>11. CASE UserRecvReturn
  <2>1. CASE sockets[usock].rx # << >>
    <3>1. usock \in Sock
      BY <1>0, <1>11 DEF UserRecvReturn, KernelTypes
    <3>2. sockets' \in [Sock -> Socket] /\ got' \in [Sock -> Seq(1 .. MaxPkts)]
      BY <1>0, <1>11, <2>1, <3>1, PopTypes DEF UserRecvReturn
    <3> QED
      BY <1>0, <1>11, <3>2 DEF UserRecvReturn, KernelTypes
  <2>2. CASE sockets[usock].rx = << >>
    BY <1>0, <1>11, <2>2 DEF UserRecvReturn, KernelTypes
  <2> QED
    BY <2>1, <2>2
<1> QED
  BY <1>1, <1>2, <1>3, <1>4, <1>5, <1>6, <1>7, <1>8, <1>9, <1>10, <1>11
     DEF KernelNext, KernelStep, Syscall

-----------------------------------------------------------------------------
(* Every step is a step of the scheduler's specification or none, and      *)
(* nobody sleeps through a wakeup.                                         *)

\* What a step leaves to prove of the sleepers, when it wakes tasks or none.
LEMMA NobodyElseSleeps ==
    ASSUME KernelInv,
           taskctl' = taskctl \/ \E cause \in Causes : taskctl' = task_wakeup(taskctl, cause)
    PROVE  /\ TaskInv'
           /\ Func(taskctl, KERNEL)' = kstart
           /\ Booted(taskctl)' = Booted(taskctl)
           /\ \A t \in Slots :
                 Flag(t)' = TASK_WAITING =>
                    /\ Flag(t) = TASK_WAITING
                    /\ taskctl'.tasks[t].waitcause = taskctl.tasks[t].waitcause
<1>1. SchedInv(taskctl) /\ Func(taskctl, KERNEL) = kstart
  BY DEF KernelInv, TaskInv, SleepersInv
<1>2. CASE taskctl' = taskctl
  BY <1>1, <1>2 DEF TaskInv, Flag
<1>3. ASSUME NEW cause \in Causes, taskctl' = task_wakeup(taskctl, cause)
      PROVE  /\ SchedInv(taskctl')
             /\ Func(taskctl', KERNEL) = kstart
             /\ Booted(taskctl') = Booted(taskctl)
             /\ \A t \in Slots :
                   taskctl'.tasks[t].flag = TASK_WAITING =>
                      /\ taskctl.tasks[t].flag = TASK_WAITING
                      /\ taskctl'.tasks[t].waitcause = taskctl.tasks[t].waitcause
  <2> DEFINE r == task_wakeup(taskctl, cause)
  <2>1. /\ SchedInv(r) /\ r.next_task_id = taskctl.next_task_id
        /\ \A t \in Slots :
             /\ r.tasks[t].func = taskctl.tasks[t].func
             /\ r.tasks[t].waitcause = taskctl.tasks[t].waitcause
             /\ r.tasks[t].flag = TASK_WAITING => taskctl.tasks[t].flag = TASK_WAITING
    BY <1>1, WakeupIs
  <2>2. taskctl' = r
    BY <1>3
  <2> HIDE DEF r
  <2> QED
    BY <1>1, <2>1, <2>2, KernelConstants DEF Func, Booted
<1> QED
  BY <1>2, <1>3 DEF TaskInv, Flag

\* A wakeup of a cause.
LEMMA WokenNoLonger ==
    ASSUME KernelInv, NEW cause \in Causes, taskctl' = task_wakeup(taskctl, cause),
           NEW t \in Slots, taskctl.tasks[t].waitcause = cause
    PROVE  Flag(t)' # TASK_WAITING
<1> DEFINE r == task_wakeup(taskctl, cause)
<1>1. r.tasks[t].flag # TASK_WAITING
  BY WakeupIs DEF KernelInv, TaskInv
<1> QED
  BY <1>1 DEF Flag

\* The end of int_pit seen from the scheduler.
LEMMA RunTimersWakes ==
    ASSUME KernelInv, NEW now \in 0 .. MaxTick, RunTimers(taskctl, now)
    PROVE  /\ taskctl' = taskctl \/ taskctl' = task_wakeup(taskctl, wq_cond)
           /\ wq' = wq \/ taskctl' = task_wakeup(taskctl, wq_cond)
<1>1. KernelTypes
  BY DEF KernelInv
<1>2. PICK new \in Seq({w \in Works : /\ w.func = "recv_timeout"
                                      /\ w.arg.wait_id + DELAY <= now}) :
         /\ wq' = wq \o new
         /\ taskctl' = IF new = << >> THEN taskctl ELSE task_wakeup(taskctl, wq_cond)
  BY <1>1, RunTimersIs
<1>3. wq \o << >> = wq
  BY <1>1, ConcatEmptySeq DEF KernelTypes
<1> QED
  BY <1>2, <1>3

\* A step of the timers keeps what is known of the sleepers.
LEMMA RunTimersSleepers ==
    ASSUME KernelInv, NEW now \in 0 .. MaxTick, RunTimers(taskctl, now),
           Booted(taskctl), UNCHANGED <<kpc, upc, usock, sockets>>
    PROVE  TaskInv' /\ SleepersInv'
<1>1. /\ taskctl' = taskctl \/ taskctl' = task_wakeup(taskctl, wq_cond)
      /\ wq' = wq \/ taskctl' = task_wakeup(taskctl, wq_cond)
      /\ wq_cond \in Causes /\ KERNEL \in Slots /\ USER \in Slots
  BY RunTimersWakes, KernelConstants
<1>2. /\ TaskInv' /\ Func(taskctl, KERNEL)' = kstart /\ Booted(taskctl)'
      /\ \A t \in Slots : Flag(t)' = TASK_WAITING =>
            Flag(t) = TASK_WAITING /\ taskctl'.tasks[t].waitcause = taskctl.tasks[t].waitcause
  BY <1>1, NobodyElseSleeps
<1>3. Flag(KERNEL)' = TASK_WAITING => wq' = wq
  <2>1. Flag(KERNEL) = TASK_WAITING => taskctl.tasks[KERNEL].waitcause = wq_cond
    BY DEF KernelInv, SleepersInv
  <2> QED
    BY <2>1, <1>1, <1>2, WokenNoLonger
<1>4. SleepersInv
  BY DEF KernelInv
<1> QED
  BY <1>1, <1>2, <1>3, <1>4 DEF SleepersInv, Func, Booted

\* A wakeup of the scheduler's specification.
LEMMA IsWakeup ==
    ASSUME NEW cause \in Causes, Booted(taskctl), taskctl' = task_wakeup(taskctl, cause)
    PROVE  TaskNext
  BY DEF TaskNext, TaskWakeup

\* Interrupts and the boot keep the sleepers and step the scheduler.
LEMMA InterruptsSchedule ==
    ASSUME KernelInv, KernelTypes',
           KBoot \/ Pit \/ PitResume \/ \E dst \in Dst : NicInt(dst)
    PROVE  TaskInv' /\ SleepersInv' /\ [TaskNext]_taskctl
<1>1. /\ SchedInv(taskctl) /\ SleepersInv /\ KernelTypes
      /\ wq_cond \in Causes /\ KERNEL \in Slots /\ USER \in Slots
  BY KernelConstants DEF KernelInv, TaskInv
<1>2. CASE KBoot
  <2> DEFINE s == Start[taskctl.next_task_id]
             r == task_start(taskctl, s.func, s.priority)
  <2>1. ~Booted(taskctl) /\ taskctl' = r /\ UNCHANGED <<wq, kpc, inpit, sockets, upc, usock>>
    BY <1>2 DEF KBoot, TaskStart, kernvars
  <2>2. /\ SchedInv(r)
        /\ \A t \in Slots : r.tasks[t].flag = TASK_WAITING => r.tasks[t] = taskctl.tasks[t]
        /\ r.tasks[KERNEL] = taskctl.tasks[KERNEL]
    BY <1>1, <2>1, StartIs
  <2>3. TaskNext
    BY <1>2 DEF KBoot, TaskNext
  <2> HIDE DEF r
  <2> QED
    BY <1>1, <2>1, <2>2, <2>3 DEF TaskInv, SleepersInv, Flag, Func
<1>3. CASE Pit
  <2> DEFINE old == taskctl.current_task
             tc  == Switched(taskctl, tick')
  <2>1. Booted(taskctl) /\ tick' \in 0 .. MaxTick
    BY <1>3 DEF Pit, InterruptsOn, KernelTypes
  <2>2. /\ tc = taskctl \/ tc = schedule(taskctl)
        /\ SchedInv(tc) /\ tc.tasks = taskctl.tasks /\ tc.next_task_id = taskctl.next_task_id
        /\ tc.current_task = old => tc = taskctl
    BY <1>1, ScheduleIs DEF Switched
  <2>3. CASE tc.current_task = old
    <3>1. RunTimers(tc, tick') /\ UNCHANGED <<kpc, upc, usock, sockets>>
      BY <1>3, <2>3 DEF Pit
    <3>2. RunTimers(taskctl, tick')
      BY <2>2, <2>3, <3>1
    <3>3. TaskInv' /\ SleepersInv'
      BY <2>1, <3>1, <3>2, RunTimersSleepers
    <3> QED
      BY <1>1, <2>1, <3>2, <3>3, RunTimersWakes, IsWakeup
  <2>4. CASE tc.current_task # old
    <3>1. taskctl' = tc /\ UNCHANGED <<kpc, upc, usock, sockets, wq>>
      BY <1>3, <2>4 DEF Pit
    <3>2. taskctl' = schedule(taskctl)
      BY <2>2, <2>4, <3>1
    <3>3. TaskNext
      BY <2>1, <3>2 DEF TaskNext, TaskSwitch
    <3> HIDE DEF tc, old
    <3> QED
      BY <1>1, <2>1, <2>2, <3>1, <3>3 DEF TaskInv, SleepersInv, Flag, Func, Booted
  <2> QED
    BY <2>3, <2>4
<1>4. CASE PitResume
  <2>1. /\ RunTimers(taskctl, tick) /\ UNCHANGED <<kpc, upc, usock, sockets>>
        /\ inpit # {} /\ tick \in 0 .. MaxTick
    BY <1>1, <1>4 DEF PitResume, KernelTypes
  <2>2. Booted(taskctl)
    BY <1>1, <2>1 DEF SleepersInv
  <2>3. TaskInv' /\ SleepersInv'
    BY <2>1, <2>2, RunTimersSleepers
  <2> QED
    BY <1>1, <2>1, <2>2, <2>3, RunTimersWakes, IsWakeup
<1>5. ASSUME NEW dst \in Dst, NicInt(dst) PROVE TaskInv' /\ SleepersInv' /\ [TaskNext]_taskctl
  <2>1. /\ Booted(taskctl) /\ UNCHANGED <<kpc, upc, usock, sockets, inpit>>
        /\ taskctl' = task_wakeup(taskctl, wq_cond)
    BY <1>5 DEF NicInt, InterruptsOn, wq_push
  <2>2. /\ TaskInv' /\ Func(taskctl, KERNEL)' = kstart /\ Booted(taskctl)'
        /\ \A t \in Slots : Flag(t)' = TASK_WAITING =>
              Flag(t) = TASK_WAITING /\ taskctl'.tasks[t].waitcause = taskctl.tasks[t].waitcause
    BY <1>1, <2>1, NobodyElseSleeps
  <2>3. Flag(KERNEL)' # TASK_WAITING
    BY <1>1, <2>1, <2>2, WokenNoLonger DEF SleepersInv
  <2> QED
    BY <1>1, <2>1, <2>2, <2>3, IsWakeup DEF SleepersInv, Func, Booted
<1> QED
  BY <1>2, <1>3, <1>4, <1>5

\* The kernel task and the user task may sleep: they are not the idle task.
LEMMA MaySleep ==
    ASSUME KernelInv, Booted(taskctl), NEW cause \in Causes,
           taskctl.current_task = KERNEL \/ taskctl.current_task = USER,
           taskctl' = task_sleep(taskctl, cause)
    PROVE  /\ TaskNext /\ TaskInv'
           /\ Func(taskctl, KERNEL)' = kstart /\ Booted(taskctl)'
           /\ \A t \in Slots \ {taskctl.current_task} : taskctl'.tasks[t] = taskctl.tasks[t]
           /\ taskctl'.tasks[taskctl.current_task].waitcause = cause
<1> DEFINE r   == task_sleep(taskctl, cause)
           cur == taskctl.current_task
<1>1. SchedInv(taskctl) /\ Func(taskctl, KERNEL) = kstart /\ KERNEL \in Slots
  BY KernelConstants DEF KernelInv, TaskInv, SleepersInv
<1>2. Func(taskctl, cur) # task_idle_main
  <2>1. 1 \in 1 .. taskctl.next_task_id - 1
    BY KernelConstants DEF Booted
  <2>2. Func(taskctl, USER) = userland_main
    BY <1>1, <2>1, KernelConstants DEF SchedInv, IdleReady, USER, Func
  <2> QED
    BY <1>1, <2>2 DEF kstart, userland_main, task_idle_main
<1>3. /\ SchedInv(r) /\ r.next_task_id = taskctl.next_task_id
      /\ \A t \in Slots : Func(r, t) = Func(taskctl, t)
      /\ \A t \in Slots \ {cur} : r.tasks[t] = taskctl.tasks[t]
      /\ r.tasks[cur].waitcause = cause
  BY <1>1, <1>2, SleepIs
<1>4. TaskNext
  BY <1>2 DEF TaskNext, TaskSleep
<1> HIDE DEF r, cur
<1>5. taskctl' = r
  BY DEF r
<1> QED
  BY <1>1, <1>3, <1>4, <1>5 DEF TaskInv, Booted, cur, Func

\* The kernel task keeps the sleepers and steps the scheduler.
LEMMA KernelTaskSchedules ==
    ASSUME KernelInv, KernelTypes', KernelStep \/ KWoken
    PROVE  TaskInv' /\ SleepersInv' /\ [TaskNext]_taskctl
<1>1. /\ TaskInv /\ SchedInv(taskctl) /\ SleepersInv /\ KernelTypes
      /\ wq_cond \in Causes /\ KERNEL \in Slots /\ USER \in Slots /\ KERNEL # USER
      /\ Flag(KERNEL) = TASK_WAITING => taskctl.current_task # KERNEL
  BY KernelConstants
     DEF KernelInv, TaskInv, SchedInv, CurrentRuns, Flag, TASK_WAITING, TASK_RUNNING, KERNEL, USER
<1>2. CASE KLoop
  <2>1. /\ Booted(taskctl) /\ taskctl.current_task = KERNEL
        /\ UNCHANGED <<wq, inpit, sockets, upc, usock>>
    BY <1>2 DEF KLoop, Runs, InterruptsOn, netvars
  <2>2. CASE wq = << >>
    <3>1. taskctl' = task_sleep(taskctl, wq_cond) /\ kpc' = "slept"
      BY <1>2, <2>2 DEF KLoop
    <3>2. /\ TaskNext /\ TaskInv' /\ Func(taskctl, KERNEL)' = kstart /\ Booted(taskctl)'
          /\ taskctl'.tasks[USER] = taskctl.tasks[USER]
          /\ taskctl'.tasks[KERNEL].waitcause = wq_cond
      BY <1>1, <2>1, <3>1, MaySleep
    <3> QED
      BY <1>1, <2>1, <2>2, <3>1, <3>2 DEF SleepersInv, Flag, Func, Booted
  <2>3. CASE wq # << >>
    <3>1. UNCHANGED taskctl
      BY <1>2, <2>3 DEF KLoop
    <3> QED
      BY <1>1, <2>1, <2>3, <3>1 DEF TaskInv, SleepersInv, Flag, Func, Booted
  <2> QED
    BY <2>2, <2>3
<1>3. CASE KWoken \/ KExec \/ KTimeoutCheck
  <2>1. /\ taskctl.current_task = KERNEL
        /\ UNCHANGED <<taskctl, inpit, sockets, upc, usock>>
        /\ Booted(taskctl)
    BY <1>1, <1>3
       DEF KWoken, KExec, KTimeoutCheck, Runs, Returns, InterruptsOn, SleepersInv, netvars
  <2> QED
    BY <1>1, <2>1 DEF TaskInv, SleepersInv, Flag, Func, Booted
<1>4. CASE KRx
  <2>1. /\ Booted(taskctl) /\ taskctl.current_task = KERNEL
        /\ kwork.func = "ether_rx" /\ sockets' = Delivered(kwork.arg)
        /\ taskctl' = TakersWoken(kwork.arg)
        /\ UNCHANGED <<wq, inpit, upc, usock>>
    BY <1>4 DEF KRx, Runs, InterruptsOn, netvars
  <2>2. kwork.arg.id \in 1 .. MaxPkts /\ kwork.arg.dst \in Dst
    BY <1>1, <2>1 DEF KernelTypes, Works, Work, NoWork, TimeoutWork
  <2>3. /\ \/ taskctl' = taskctl
           \/ upc = "slept" /\ taskctl' = task_wakeup(taskctl, usock)
        /\ Flag(USER) = TASK_WAITING /\ usock \in Takers(kwork.arg.dst)
             => taskctl' = task_wakeup(taskctl, usock)
    BY <2>1, <2>2, TakersWokenIs
  <2>4. upc = "slept" => usock \in Causes /\ usock \in Sock
    BY <1>1, KernelConstants DEF KernelTypes
  <2>5. /\ TaskInv' /\ Func(taskctl, KERNEL)' = kstart /\ Booted(taskctl)'
        /\ \A t \in Slots : Flag(t)' = TASK_WAITING =>
              Flag(t) = TASK_WAITING /\ taskctl'.tasks[t].waitcause = taskctl.tasks[t].waitcause
    BY <1>1, <2>1, <2>3, <2>4, NobodyElseSleeps
  <2>6. [TaskNext]_taskctl
    BY <2>1, <2>3, <2>4, IsWakeup
  <2>7. Flag(KERNEL)' # TASK_WAITING
    BY <1>1, <2>1, <2>5
  <2>8. Flag(USER)' = TASK_WAITING =>
          /\ upc' = "slept" /\ sockets'[usock'].rx = << >>
          /\ taskctl'.tasks[USER].waitcause = usock'
    <3> SUFFICES ASSUME Flag(USER)' = TASK_WAITING
                 PROVE  /\ upc' = "slept" /\ sockets'[usock'].rx = << >>
                        /\ taskctl'.tasks[USER].waitcause = usock'
      OBVIOUS
    <3>1. /\ upc = "slept" /\ sockets[usock].rx = << >> /\ taskctl.tasks[USER].waitcause = usock
          /\ Flag(USER) = TASK_WAITING /\ taskctl'.tasks[USER].waitcause = usock
      BY <1>1, <2>5 DEF SleepersInv
    <3>2. usock \notin Takers(kwork.arg.dst)
      BY <1>1, <2>3, <2>4, <3>1, WokenNoLonger
    <3>3. sockets'[usock].rx = sockets[usock].rx
      BY <1>1, <2>1, <2>2, <2>4, <3>1, <3>2, DeliveredTypes
    <3> QED
      BY <2>1, <3>1, <3>3
  <2> QED
    BY <2>5, <2>6, <2>7, <2>8 DEF SleepersInv, Func, Booted
<1>5. CASE KTimeoutWake
  <2>1. /\ Booted(taskctl) /\ taskctl.current_task = KERNEL
        /\ taskctl' = task_wakeup(taskctl, kwork.arg.sock)
        /\ UNCHANGED <<wq, inpit, sockets, upc, usock>>
        /\ kwork.func = "recv_timeout"
    BY <1>5 DEF KTimeoutWake, Runs, InterruptsOn, netvars, KernelInv, WorkInHand
  <2>2. kwork.arg.sock \in Causes
    BY <1>1, <2>1, KernelConstants DEF KernelTypes, Works, Work, NoWork, TimeoutWork
  <2>3. /\ TaskInv' /\ Func(taskctl, KERNEL)' = kstart /\ Booted(taskctl)'
        /\ \A t \in Slots : Flag(t)' = TASK_WAITING =>
              Flag(t) = TASK_WAITING /\ taskctl'.tasks[t].waitcause = taskctl.tasks[t].waitcause
    BY <1>1, <2>1, <2>2, NobodyElseSleeps
  <2>4. TaskNext
    BY <2>1, <2>2, IsWakeup
  <2> QED
    BY <1>1, <2>1, <2>3, <2>4 DEF SleepersInv, Func, Booted
<1> QED
  BY <1>2, <1>3, <1>4, <1>5 DEF KernelStep

\* The user task keeps the sleepers and steps the scheduler.
LEMMA UserSchedules ==
    ASSUME KernelInv, KernelTypes', Syscall \/ UserRecvReturn
    PROVE  TaskInv' /\ SleepersInv' /\ [TaskNext]_taskctl
<1>1. /\ TaskInv /\ SchedInv(taskctl) /\ SleepersInv /\ KernelTypes
      /\ KERNEL \in Slots /\ USER \in Slots /\ KERNEL # USER
      /\ Flag(USER) = TASK_WAITING => taskctl.current_task # USER
  BY KernelConstants
     DEF KernelInv, TaskInv, SchedInv, CurrentRuns, Flag, TASK_WAITING, TASK_RUNNING, KERNEL, USER
<1>2. ASSUME taskctl.current_task = USER, Booted(taskctl),
             UNCHANGED <<taskctl, kpc, wq, inpit>>
      PROVE  TaskInv' /\ SleepersInv' /\ [TaskNext]_taskctl
  BY <1>1, <1>2 DEF TaskInv, SleepersInv, Flag, Func, Booted
<1>3. ASSUME NEW table, UserOpen(table)
      PROVE  TaskInv' /\ SleepersInv' /\ [TaskNext]_taskctl
  <2>1. taskctl.current_task = USER /\ Booted(taskctl) /\ UNCHANGED <<taskctl, kpc, wq, inpit>>
    BY <1>3 DEF UserOpen, Runs, InterruptsOn, kernvars
  <2> QED
    BY <1>2, <2>1
<1>4. ASSUME NEW s \in Sock, UserRecv(s)
      PROVE  TaskInv' /\ SleepersInv' /\ [TaskNext]_taskctl
  <2>1. taskctl.current_task = USER /\ Booted(taskctl) /\ UNCHANGED <<kpc, wq, inpit>>
    BY <1>4 DEF UserRecv, Runs, InterruptsOn, kernvars
  <2>2. CASE sockets[s].rx # << >>
    BY <1>2, <1>4, <2>1, <2>2 DEF UserRecv
  <2>3. CASE sockets[s].rx = << >>
    <3>1. /\ taskctl' = task_sleep(taskctl, s) /\ upc' = "slept" /\ usock' = s
          /\ sockets' = [sockets EXCEPT ![s].wait_id = tick]
      BY <1>4, <2>3 DEF UserRecv
    <3>2. s \in Causes
      BY KernelConstants
    <3>3. /\ TaskNext /\ TaskInv' /\ Func(taskctl, KERNEL)' = kstart /\ Booted(taskctl)'
          /\ taskctl'.tasks[KERNEL] = taskctl.tasks[KERNEL]
          /\ taskctl'.tasks[USER].waitcause = s
      BY <1>1, <2>1, <3>1, <3>2, MaySleep
    <3>4. sockets'[s].rx = << >>
      BY <1>1, <2>3, <3>1, WaitTypes DEF KernelTypes
    <3> QED
      BY <1>1, <2>1, <3>1, <3>3, <3>4 DEF SleepersInv, Flag, Func, Booted
  <2> QED
    BY <2>2, <2>3
<1>5. CASE UserRecvReturn
  <2>1. taskctl.current_task = USER /\ UNCHANGED <<taskctl, kpc, wq, inpit>> /\ upc = "slept"
    BY <1>5 DEF UserRecvReturn, Returns, kernvars
  <2>2. Booted(taskctl)
    BY <1>1, <2>1 DEF SleepersInv
  <2> QED
    BY <1>2, <2>1, <2>2
<1> QED
  BY <1>3, <1>4, <1>5 DEF Syscall

-----------------------------------------------------------------------------
(* The works on their way.                                                 *)

\* The packets on their way to the sockets.
PacketsIn(flight) == {w \in Elements(flight) : IsPacket(w)}

\* Packets are in the order of arrival.
InOrderOfArrival(flight) ==
    \A i, j \in 1 .. Len(flight) :
       i < j /\ IsPacket(flight[i]) /\ IsPacket(flight[j]) => flight[i].arg.id < flight[j].arg.id

\* Where the works on their way are.
LEMMA FlightIs ==
    ASSUME NEW S, NEW k \in S, NEW q \in Seq(S)
    PROVE  LET f == <<k>> \o q
           IN  /\ f \in Seq(S) /\ Len(f) = Len(q) + 1 /\ Len(q) \in Nat
               /\ f[1] = k /\ \A i \in 1 .. Len(q) : f[i + 1] = q[i]
               /\ Elements(f) = {k} \cup Elements(q)
<1> DEFINE x == <<k>>
           f == x \o q
<1>1. x \in Seq(S) /\ Len(x) = 1 /\ x[1] = k /\ Elements(x) = {k}
  BY DEF Elements
<1> HIDE DEF x
<1>2. f \in Seq(S) /\ Elements(f) = {k} \cup Elements(q)
  BY <1>1, ElementsConcat
<1>3. /\ Len(f) = 1 + Len(q) /\ Len(q) \in Nat
      /\ \A i \in 1 .. 1 + Len(q) : f[i] = IF i <= 1 THEN x[i] ELSE q[i - 1]
  <2>1. /\ Len(f) = Len(x) + Len(q)
        /\ \A i \in 1 .. Len(x) + Len(q) : f[i] = IF i <= Len(x) THEN x[i] ELSE q[i - Len(x)]
    BY <1>1, ConcatProperties
  <2> HIDE DEF f
  <2> QED
    BY <1>1, <2>1, LenProperties
<1> HIDE DEF f
<1>4. f[1] = k /\ \A i \in 1 .. Len(q) : f[i + 1] = q[i]
  <2>1. 1 \in 1 .. 1 + Len(q) /\ \A i \in 1 .. Len(q) : i + 1 \in 1 .. 1 + Len(q)
    BY <1>3
  <2>2. \A i \in 1 .. Len(q) : ~(i + 1 <= 1) /\ (i + 1) - 1 = i
    BY <1>3
  <2> QED
    BY <1>1, <1>3, <2>1, <2>2
<1> QED
  BY <1>2, <1>3, <1>4 DEF f, x

\* Works that are added behind the others.
LEMMA FlightGrows ==
    ASSUME NEW S, NEW f \in Seq(S), NEW new \in Seq(S), InOrderOfArrival(f),
           \A i \in 1 .. Len(new) : ~IsPacket(new[i])
    PROVE  InOrderOfArrival(f \o new) /\ PacketsIn(f \o new) = PacketsIn(f)
<1> DEFINE c == f \o new
<1>1. /\ Len(c) = Len(f) + Len(new) /\ Len(f) \in Nat /\ Len(new) \in Nat
      /\ \A i \in 1 .. Len(f) + Len(new) : c[i] = IF i <= Len(f) THEN f[i] ELSE new[i - Len(f)]
      /\ Elements(c) = Elements(f) \cup Elements(new)
  BY ElementsConcat, ConcatProperties, LenProperties
<1>2. \A i \in 1 .. Len(c) : \/ i \in 1 .. Len(f) /\ c[i] = f[i]
                             \/ i - Len(f) \in 1 .. Len(new) /\ c[i] = new[i - Len(f)]
  BY <1>1
<1> HIDE DEF c
<1>3. InOrderOfArrival(c)
  BY <1>1, <1>2 DEF InOrderOfArrival
<1>4. PacketsIn(c) = PacketsIn(f)
  BY <1>1 DEF PacketsIn, Elements
<1> QED
  BY <1>3, <1>4 DEF c

\* A packet that comes later than all.
LEMMA FlightGrowsByPacket ==
    ASSUME NEW S, NEW f \in Seq(S), NEW w \in S, InOrderOfArrival(f), IsPacket(w),
           \A v \in PacketsIn(f) : v.arg.id < w.arg.id
    PROVE  InOrderOfArrival(Append(f, w)) /\ PacketsIn(Append(f, w)) = PacketsIn(f) \cup {w}
<1> DEFINE c == Append(f, w)
<1>1. /\ Len(c) = Len(f) + 1 /\ Len(f) \in Nat
      /\ \A i \in 1 .. Len(f) : c[i] = f[i]
      /\ c[Len(f) + 1] = w
      /\ Elements(c) = Elements(f) \cup {w}
  BY ElementsAppend, AppendProperties, LenProperties
<1> HIDE DEF c
<1>2. PacketsIn(c) = PacketsIn(f) \cup {w}
  BY <1>1 DEF PacketsIn
<1>3. InOrderOfArrival(c)
  <2> SUFFICES ASSUME NEW i \in 1 .. Len(c), NEW j \in 1 .. Len(c), i < j,
                      IsPacket(c[i]), IsPacket(c[j])
               PROVE  c[i].arg.id < c[j].arg.id
    BY DEF InOrderOfArrival
  <2>1. i \in 1 .. Len(f)
    BY <1>1
  <2>2. CASE j \in 1 .. Len(f)
    BY <1>1, <2>1, <2>2 DEF InOrderOfArrival
  <2>3. CASE j = Len(f) + 1
    <3>1. c[i] = f[i] /\ c[j] = w /\ f[i] \in PacketsIn(f)
      BY <1>1, <2>1, <2>3 DEF PacketsIn, Elements
    <3> QED
      BY <3>1
  <2> QED
    BY <1>1, <2>2, <2>3
<1> QED
  BY <1>2, <1>3 DEF c

\* The kernel task takes the first work, or drops the one it has.
LEMMA FlightAdvances ==
    ASSUME KernelTypes, InOrderOfArrival(Flight)
    PROVE  /\ LET f == <<NoWork>> \o wq
              IN  /\ InOrderOfArrival(f)
                  /\ PacketsIn(f) = PacketsIn(Flight) \ {kwork}
           /\ kwork = NoWork /\ wq # << >> =>
                LET f == <<Head(wq)>> \o Tail(wq)
                IN  InOrderOfArrival(f) /\ PacketsIn(f) = PacketsIn(Flight)
<1> DEFINE S == Works \cup {NoWork}
<1>1. kwork \in S /\ NoWork \in S /\ wq \in Seq(S) /\ ~IsPacket(NoWork)
  <2>1. wq \in Seq(Works) /\ Len(wq) \in Nat /\ wq = [i \in 1 .. Len(wq) |-> wq[i]]
        /\ \A i \in 1 .. Len(wq) : wq[i] \in S
    BY LenProperties, ElementOfSeq DEF KernelTypes
  <2>2. kwork \in S /\ NoWork \in S /\ ~IsPacket(NoWork)
    BY DEF KernelTypes, IsPacket, NoWork, Work
  <2> HIDE DEF S
  <2>3. [i \in 1 .. Len(wq) |-> wq[i]] \in Seq(S)
    BY <2>1
  <2> QED
    BY <2>1, <2>2, <2>3
<1> HIDE DEF S
<1>2. /\ Len(Flight) = Len(wq) + 1 /\ Len(wq) \in Nat
      /\ Flight[1] = kwork /\ \A i \in 1 .. Len(wq) : Flight[i + 1] = wq[i]
      /\ Elements(Flight) = {kwork} \cup Elements(wq)
  BY <1>1, FlightIs DEF Flight
<1>3. LET f == <<NoWork>> \o wq
      IN  InOrderOfArrival(f) /\ PacketsIn(f) = PacketsIn(Flight) \ {kwork}
  <2> DEFINE f == <<NoWork>> \o wq
  <2>1. /\ Len(f) = Len(wq) + 1 /\ f[1] = NoWork
        /\ \A i \in 1 .. Len(wq) : f[i + 1] = wq[i]
        /\ Elements(f) = {NoWork} \cup Elements(wq)
    BY <1>1, FlightIs
  <2> HIDE DEF f
  <2>2. \A i \in 1 .. Len(f) : f[i] = NoWork \/ f[i] = Flight[i]
    <3> TAKE i \in 1 .. Len(f)
    <3>1. CASE i = 1
      BY <2>1, <3>1
    <3>2. CASE i # 1
      <4>1. i - 1 \in 1 .. Len(wq) /\ (i - 1) + 1 = i
        BY <1>2, <2>1, <3>2
      <4> QED
        BY <1>2, <2>1, <4>1
    <3> QED
      BY <3>1, <3>2
  <2>3. InOrderOfArrival(f)
    BY <1>1, <1>2, <2>1, <2>2 DEF InOrderOfArrival
  <2>4. ASSUME NEW w \in Elements(wq), IsPacket(w), IsPacket(kwork) PROVE w # kwork
    <3>1. PICK i \in 1 .. Len(wq) : w = wq[i]
      BY DEF Elements
    <3>2. i + 1 \in 1 .. Len(Flight) /\ 1 \in 1 .. Len(Flight) /\ 1 < i + 1 /\ Flight[i + 1] = w
      BY <1>2, <3>1
    <3>3. kwork.arg.id < w.arg.id
      BY <1>2, <2>4, <3>2 DEF InOrderOfArrival
    <3>4. kwork.arg.id \in Int
      BY <1>1, <2>4 DEF S, Works, IsPacket, Work, NoWork, TimeoutWork
    <3> QED
      BY <3>3, <3>4
  <2>5. PacketsIn(f) = PacketsIn(Flight) \ {kwork}
    BY <1>1, <1>2, <2>1, <2>4 DEF PacketsIn
  <2> QED
    BY <2>3, <2>5 DEF f
<1>4. ASSUME kwork = NoWork, wq # << >>
      PROVE  LET f == <<Head(wq)>> \o Tail(wq)
             IN  InOrderOfArrival(f) /\ PacketsIn(f) = PacketsIn(Flight)
  <2> DEFINE h == Head(wq)
             q == Tail(wq)
             f == <<h>> \o q
  <2>1. /\ h \in S /\ q \in Seq(S) /\ h = wq[1]
        /\ Elements(wq) = {h} \cup Elements(q)
        /\ Len(q) = Len(wq) - 1
        /\ \A i \in 1 .. Len(q) : q[i] = wq[i + 1] /\ i + 1 \in 1 .. Len(wq)
    BY <1>1, <1>4, ElementsTail
  <2> HIDE DEF h, q
  <2>2. /\ Len(f) = Len(q) + 1 /\ Len(q) \in Nat /\ f[1] = h
        /\ \A i \in 1 .. Len(q) : f[i + 1] = q[i]
        /\ Elements(f) = {h} \cup Elements(q)
    BY <2>1, FlightIs
  <2> HIDE DEF f
  <2>3. \A i \in 1 .. Len(f) : i \in 1 .. Len(wq) /\ f[i] = wq[i]
    <3> TAKE i \in 1 .. Len(f)
    <3>1. CASE i = 1
      BY <1>2, <2>1, <2>2, <3>1
    <3>2. CASE i # 1
      <4>1. i - 1 \in 1 .. Len(q) /\ (i - 1) + 1 = i
        BY <2>2, <3>2
      <4> QED
        BY <2>1, <2>2, <4>1
    <3> QED
      BY <3>1, <3>2
  <2>4. \A i \in 1 .. Len(f) : i + 1 \in 1 .. Len(Flight) /\ f[i] = Flight[i + 1]
    BY <1>2, <2>3
  <2>5. InOrderOfArrival(f)
    <3> SUFFICES ASSUME NEW i \in 1 .. Len(f), NEW j \in 1 .. Len(f), i < j,
                        IsPacket(f[i]), IsPacket(f[j])
                 PROVE  f[i].arg.id < f[j].arg.id
      BY DEF InOrderOfArrival
    <3>1. i + 1 < j + 1
      BY <2>2
    <3> QED
      BY <2>4, <3>1 DEF InOrderOfArrival
  <2>6. PacketsIn(f) = PacketsIn(Flight)
    BY <1>1, <1>2, <1>4, <2>1, <2>2 DEF PacketsIn
  <2> QED
    BY <2>5, <2>6 DEF f, h, q
<1> QED
  BY <1>3, <1>4

-----------------------------------------------------------------------------
(* Timeouts: what is in the queue is due, what is waited for is ahead.     *)

\* The works on their way are works.
LEMMA WorksAhead ==
    ASSUME NEW k \in Works \cup {NoWork}, NEW q \in Seq(Works)
    PROVE  /\ q \in Seq(Works \cup {NoWork})
           /\ <<k>> \o q \in Seq(Works \cup {NoWork})
           /\ Elements(<<k>> \o q) = {k} \cup Elements(q)
<1> DEFINE S == Works \cup {NoWork}
<1>1. q \in Seq(S)
  <2>1. Len(q) \in Nat /\ q = [i \in 1 .. Len(q) |-> q[i]] /\ \A i \in 1 .. Len(q) : q[i] \in S
    BY LenProperties, ElementOfSeq
  <2> HIDE DEF S
  <2>2. [i \in 1 .. Len(q) |-> q[i]] \in Seq(S)
    BY <2>1
  <2> QED
    BY <2>1, <2>2
<1>2. k \in S
  OBVIOUS
<1> HIDE DEF S
<1>3. <<k>> \o q \in Seq(S) /\ Elements(<<k>> \o q) = {k} \cup Elements(q)
  BY <1>1, <1>2, FlightIs
<1> QED
  BY <1>1, <1>3 DEF S

\* The kernel task holds a work exactly while it runs one.
LEMMA HandKept ==
    ASSUME KernelInv, KernelNext
    PROVE  WorkInHand'
<1>1. WorkInHand
  BY DEF KernelInv
<1>2. CASE KBoot \/ Pit \/ PitResume \/ (\E dst \in Dst : NicInt(dst)) \/ Syscall \/ UserRecvReturn
  <2>1. UNCHANGED <<kpc, kwork>>
    BY <1>2 DEF KBoot, Pit, PitResume, NicInt, Syscall, UserOpen, UserRecv, UserRecvReturn, kernvars
  <2> QED
    BY <1>1, <2>1 DEF WorkInHand
<1>3. CASE KernelStep \/ KWoken
  BY <1>1, <1>3
     DEF KernelStep, KLoop, KExec, KRx, KTimeoutCheck, KTimeoutWake, KWoken, WorkInHand
<1> QED
  BY <1>2, <1>3 DEF KernelNext

\* What a step of the timers queues is due.
LEMMA RunTimersDue ==
    ASSUME KernelTypes, NEW tc, NEW now \in 0 .. MaxTick, RunTimers(tc, now)
    PROVE  /\ \A w \in Elements(wq') \ Elements(wq) :
                 w.func = "recv_timeout" /\ w.arg.wait_id + DELAY <= now
           /\ Elements(wq) \subseteq Elements(wq')
           /\ \A e \in Elements(timer_list) :
                 e \in Elements(timer_list') \/ e.work \in Elements(wq')
<1> DEFINE N == {w \in Works : w.func = "recv_timeout" /\ w.arg.wait_id + DELAY <= now}
<1>1. PICK new \in Seq(N) :
         /\ wq' = wq \o new
         /\ \A e \in Elements(timer_list) : e \in Elements(timer_list') \/ e.work \in Elements(new)
  BY RunTimersIs
<1>2. Elements(new) \subseteq N
  <2> HIDE DEF N
  <2> QED
    BY ElementsIn
<1>3. Elements(wq') = Elements(wq) \cup Elements(new)
  <2>1. new \in Seq(Works)
    BY DueAreWorks
  <2>2. wq \in Seq(Works)
    BY DEF KernelTypes
  <2>3. Elements(wq \o new) = Elements(wq) \cup Elements(new)
    BY <2>1, <2>2, ElementsConcat
  <2> QED
    BY <1>1, <2>3
<1> QED
  BY <1>1, <1>2, <1>3

\* The queue holds no timeout that is not due.
LEMMA QueueKept ==
    ASSUME KernelInv, KernelNext, KernelTypes'
    PROVE  QueuedAreDue'
<1>1. /\ KernelTypes /\ tick \in 0 .. MaxTick /\ DELAY \in Nat
      /\ \A w \in {kwork} \cup Elements(wq) :
            w.func = "recv_timeout" => w.arg.wait_id + DELAY <= tick
  BY WorksAhead, KernelConstants DEF KernelInv, KernelTypes, QueuedAreDue, Flight
<1>2. \A w \in {kwork} \cup Elements(wq) : w.func = "recv_timeout" => w.arg.wait_id \in Nat
  <2>1. \A w \in {kwork} \cup Elements(wq) : w \in Works \cup {NoWork}
    BY <1>1, ElementsIn DEF KernelTypes
  <2> QED
    BY <2>1 DEF Works, TimeoutWork, Work, NoWork
<1>3. Elements(Flight)' = {kwork'} \cup Elements(wq')
  BY WorksAhead DEF KernelTypes, Flight, Elements
<1>4. SUFFICES ASSUME NEW w \in {kwork'} \cup Elements(wq'), w.func = "recv_timeout",
                      w \notin {kwork} \cup Elements(wq)
               PROVE  w.arg.wait_id + DELAY <= tick'
  <2>1. tick' \in Nat /\ tick' >= tick
    <3>1. tick' = tick \/ tick' = NextTick
      BY DEF KernelNext, KBoot, Pit, PitResume, NicInt, KernelStep, KLoop, KExec, KRx,
             KTimeoutCheck, KTimeoutWake, KWoken, Syscall, UserOpen, UserRecv, UserRecvReturn
    <3> QED
      BY <1>1, <3>1, NextTickIs
  <2> QED
    BY <1>1, <1>2, <1>3, <2>1 DEF QueuedAreDue
<1>5. CASE Pit \/ PitResume
  <2>1. kwork' = kwork /\ (wq' = wq \/ \E tc : RunTimers(tc, tick'))
    BY <1>5 DEF Pit, PitResume
  <2>2. tick' \in 0 .. MaxTick
    BY DEF KernelTypes
  <2> QED
    BY <1>1, <1>4, <2>1, <2>2, RunTimersDue
<1>6. ASSUME NEW dst \in Dst, NicInt(dst) PROVE FALSE
  <2> DEFINE v == Work("ether_rx", [id |-> npkt + 1, dst |-> dst])
  <2>1. kwork' = kwork /\ wq' = Append(wq, v) /\ npkt + 1 \in 1 .. MaxPkts
    BY <1>1, <1>6, KernelConstants DEF NicInt, wq_push, KernelTypes
  <2>2. v \in Works /\ v.func # "recv_timeout"
    BY <2>1 DEF Works, Work
  <2> HIDE DEF v
  <2>3. Elements(wq') = Elements(wq) \cup {v}
    BY <1>1, <2>1, <2>2, ElementsAppend DEF KernelTypes
  <2> QED
    BY <1>4, <2>1, <2>2, <2>3
<1>7. CASE KExec
  <2>1. Elements(wq) = {kwork'} \cup Elements(wq')
    BY <1>1, <1>7, ElementsTail DEF KExec, KernelTypes
  <2> QED
    BY <1>4, <2>1
<1>8. CASE KBoot \/ KLoop \/ KWoken \/ KRx \/ KTimeoutCheck \/ KTimeoutWake \/ Syscall \/ UserRecvReturn
  <2>1. wq' = wq /\ (kwork' = kwork \/ kwork' = NoWork)
    BY <1>8 DEF KBoot, KLoop, KWoken, KRx, KTimeoutCheck, KTimeoutWake, Syscall,
                UserOpen, UserRecv, UserRecvReturn, kernvars
  <2> QED
    BY <1>4, <2>1 DEF NoWork, Work
<1> QED
  BY <1>5, <1>6, <1>7, <1>8 DEF KernelNext, KernelStep

\* A user task that sleeps after a step slept before it, on the same socket and
\* since the same tick, or goes to sleep in it.
LEMMA WaitedBefore ==
    ASSUME KernelInv, KernelNext, KernelTypes', Flag(USER)' = TASK_WAITING
    PROVE  \/ /\ Flag(USER) = TASK_WAITING /\ upc = "slept" /\ usock \in Sock
              /\ usock' = usock /\ sockets'[usock].wait_id = sockets[usock].wait_id
           \/ \E s \in Sock : UserRecv(s) /\ sockets[s].rx = << >>
<1>1. /\ TaskInv /\ SchedInv(taskctl) /\ SleepersInv /\ KernelTypes
      /\ wq_cond \in Causes /\ KERNEL \in Slots /\ USER \in Slots /\ KERNEL # USER
      /\ Flag(USER) = TASK_WAITING => taskctl.current_task # USER
  BY KernelConstants
     DEF KernelInv, TaskInv, SchedInv, CurrentRuns, Flag, TASK_WAITING, TASK_RUNNING, KERNEL, USER
<1>2. Flag(USER) = TASK_WAITING => upc = "slept" /\ usock \in Sock
  BY <1>1 DEF SleepersInv, KernelTypes
<1>3. ASSUME taskctl' = taskctl \/ \E cause \in Causes : taskctl' = task_wakeup(taskctl, cause)
      PROVE  Flag(USER) = TASK_WAITING
  BY <1>1, <1>3, NobodyElseSleeps
<1>4. CASE KBoot
  <2> DEFINE s == Start[taskctl.next_task_id]
             r == task_start(taskctl, s.func, s.priority)
  <2>1. ~Booted(taskctl) /\ taskctl' = r /\ UNCHANGED <<sockets, usock>>
    BY <1>4 DEF KBoot, TaskStart
  <2>2. \A t \in Slots : r.tasks[t].flag = TASK_WAITING => r.tasks[t] = taskctl.tasks[t]
    BY <1>1, <2>1, StartIs
  <2> HIDE DEF r
  <2> QED
    BY <1>1, <1>2, <2>1, <2>2 DEF Flag
<1>5. CASE Pit
  <2> DEFINE tc == Switched(taskctl, tick')
  <2>1. /\ tc = taskctl \/ tc = schedule(taskctl)
        /\ tc.tasks = taskctl.tasks
        /\ tc.current_task = taskctl.current_task => tc = taskctl
    BY <1>1, ScheduleIs DEF Switched
  <2>2. UNCHANGED <<sockets, usock>> /\ tick' \in 0 .. MaxTick
    BY <1>5 DEF Pit, KernelTypes
  <2>3. \/ RunTimers(taskctl, tick')
        \/ taskctl' = tc
    BY <1>5, <2>1 DEF Pit
  <2> HIDE DEF tc
  <2>4. Flag(USER) = TASK_WAITING
    BY <1>1, <1>3, <2>1, <2>2, <2>3, RunTimersWakes DEF Flag
  <2> QED
    BY <1>2, <2>2, <2>4
<1>6. CASE PitResume
  <2>1. RunTimers(taskctl, tick) /\ UNCHANGED <<sockets, usock>> /\ tick \in 0 .. MaxTick
    BY <1>1, <1>6 DEF PitResume, KernelTypes
  <2> QED
    BY <1>1, <1>2, <1>3, <2>1, RunTimersWakes
<1>7. CASE \E dst \in Dst : NicInt(dst)
  <2>1. taskctl' = task_wakeup(taskctl, wq_cond) /\ UNCHANGED <<sockets, usock>>
    BY <1>7 DEF NicInt, wq_push
  <2> QED
    BY <1>1, <1>2, <1>3, <2>1
<1>8. CASE KLoop
  <2>1. taskctl.current_task = KERNEL /\ Booted(taskctl) /\ UNCHANGED <<sockets, usock>>
    BY <1>8 DEF KLoop, Runs, InterruptsOn
  <2>2. taskctl' = taskctl \/ taskctl' = task_sleep(taskctl, wq_cond)
    BY <1>8 DEF KLoop
  <2>3. taskctl'.tasks[USER] = taskctl.tasks[USER]
    BY <1>1, <2>1, <2>2, MaySleep
  <2> QED
    BY <1>2, <2>1, <2>3 DEF Flag
<1>9. CASE KWoken \/ KExec \/ KTimeoutCheck
  BY <1>2, <1>3, <1>9 DEF KWoken, KExec, KTimeoutCheck
<1>10. CASE KRx
  <2>1. kwork.func = "ether_rx" /\ sockets' = Delivered(kwork.arg)
        /\ taskctl' = TakersWoken(kwork.arg) /\ usock' = usock
    BY <1>10 DEF KRx
  <2> DEFINE pkt == kwork.arg
  <2>2. pkt.id \in 1 .. MaxPkts /\ pkt.dst \in Dst
    <3>1. kwork \in Works
      BY <1>1, <2>1 DEF KernelTypes, Work, NoWork
    <3>2. \A s, n : TimeoutWork(s, n).func # "ether_rx"
      BY DEF TimeoutWork, Work
    <3>3. PICK i \in 1 .. MaxPkts, d \in Dst : kwork = Work("ether_rx", [id |-> i, dst |-> d])
      BY <2>1, <3>1, <3>2 DEF Works
    <3> QED
      BY <3>3 DEF Work
  <2> HIDE DEF pkt
  <2>3. \/ TakersWoken(pkt) = taskctl
        \/ upc = "slept" /\ TakersWoken(pkt) = task_wakeup(taskctl, usock)
    BY <2>2, TakersWokenIs
  <2>4. upc = "slept" => usock \in Causes
    BY <1>1, KernelConstants DEF KernelTypes
  <2>5. Flag(USER) = TASK_WAITING
    BY <1>3, <2>1, <2>3, <2>4 DEF pkt
  <2>6. \A s \in Sock : Delivered(pkt)[s].wait_id = sockets[s].wait_id
    BY <1>1, <2>2, DeliveredTypes
  <2> QED
    BY <1>2, <2>1, <2>5, <2>6 DEF pkt
<1>11. CASE KTimeoutWake
  <2>1. /\ taskctl' = task_wakeup(taskctl, kwork.arg.sock) /\ UNCHANGED <<sockets, usock>>
        /\ kwork.func = "recv_timeout"
    BY <1>11 DEF KTimeoutWake, KernelInv, WorkInHand
  <2>2. kwork.arg.sock \in Causes
    BY <1>1, <2>1, KernelConstants DEF KernelTypes, Works, Work, NoWork, TimeoutWork
  <2> QED
    BY <1>2, <1>3, <2>1, <2>2
<1>12. ASSUME taskctl.current_task = USER, UNCHANGED taskctl PROVE FALSE
  BY <1>1, <1>12 DEF Flag
<1>13. CASE Syscall \/ UserRecvReturn
  BY <1>12, <1>13 DEF Syscall, UserOpen, UserRecv, UserRecvReturn, Runs, Returns
<1> QED
  BY <1>4, <1>5, <1>6, <1>7, <1>8, <1>9, <1>10, <1>11, <1>13 DEF KernelNext, KernelStep

\* The works whose turn is still to come.
Ahead == {e.work : e \in Elements(timer_list)} \cup Elements(wq) \cup {kwork}

\* A number below 2^31 comes through the int unchanged.
LEMMA ThroughIntIs ==
    ASSUME NEW w \in Nat, w < TICK_HALF
    PROVE  ThroughInt(w) = w
<1>1. TICK_HALF \in Nat /\ TICK_HALF > 0
  BY KernelConstants
<1> DEFINE M == 4 * TICK_HALF * TICK_HALF
<1>2. M \in Nat /\ M >= TICK_HALF
  BY <1>1
<1> HIDE DEF M
<1>3. w % M = w
  BY <1>1, <1>2
<1> QED
  BY <1>3 DEF ThroughInt, M

\* The timeout of the receive that waits stays ahead of it.
LEMMA TimeoutKept ==
    ASSUME KernelInv, KernelNext, KernelTypes'
    PROVE  TimeoutArmed'
<1>1. KernelTypes /\ TimeoutArmed /\ SleepersInv /\ WorkInHand
  BY DEF KernelInv
<1> SUFFICES ASSUME upc' = "slept", Flag(USER)' = TASK_WAITING,
                    sockets'[usock'].wait_id < TICK_HALF
             PROVE  TimeoutWork(usock', sockets'[usock'].wait_id) \in Ahead'
  BY DEF TimeoutArmed, Ahead, TimeoutWork
<1>2. ASSUME NEW s \in Sock, UserRecv(s), sockets[s].rx = << >>
      PROVE  TimeoutWork(usock', sockets'[usock'].wait_id) \in Ahead'
  <2> DEFINE e == [tick |-> Deadline(tick, DELAY), work |-> TimeoutOf(s)]
  <2>1. /\ sockets' = [sockets EXCEPT ![s].wait_id = tick] /\ usock' = s
        /\ timer_list' = set_timer(timer_list, e)
    BY <1>2 DEF UserRecv, wq_push_with_delay
  <2>2. e \in Timers /\ e.work = TimeoutWork(s, tick)
    BY <1>1, <1>2, TimeoutEntry DEF UserRecv
  <2>3. sockets'[s].wait_id = tick
    BY <1>1, <2>1, WaitTypes DEF KernelTypes
  <2> HIDE DEF e
  <2>4. e \in Elements(timer_list')
    BY <1>1, <2>1, <2>2, SetTimerIs DEF KernelTypes
  <2> QED
    BY <2>1, <2>2, <2>3, <2>4 DEF Ahead, Elements
<1>3. ASSUME Flag(USER) = TASK_WAITING, upc = "slept", usock \in Sock,
             usock' = usock, sockets'[usock].wait_id = sockets[usock].wait_id
      PROVE  TimeoutWork(usock', sockets'[usock'].wait_id) \in Ahead'
  <2> DEFINE n == sockets[usock].wait_id
             w == TimeoutWork(usock, n)
  <2>1. w \in Ahead /\ n < TICK_HALF /\ n \in Nat
    BY <1>1, <1>3 DEF TimeoutArmed, Ahead, TimeoutWork, KernelTypes, Socket
  <2>2. w.func = "recv_timeout" /\ w.arg.sock = usock /\ w.arg.wait_id = n
    BY DEF TimeoutWork, Work
  <2>3. taskctl.current_task # USER
    BY <1>3 DEF KernelInv, TaskInv, SchedInv, CurrentRuns, Flag, TASK_WAITING, TASK_RUNNING
  <2> SUFFICES w \in Ahead'
    BY <1>3
  <2> HIDE DEF w
  <2>4. CASE Pit \/ PitResume
    <3>1. kwork' = kwork
      BY <2>4 DEF Pit, PitResume
    <3>2. \/ wq' = wq /\ timer_list' = timer_list
          \/ \E tc : RunTimers(tc, tick')
      BY <2>4 DEF Pit, PitResume
    <3>3. tick' \in 0 .. MaxTick
      BY DEF KernelTypes
    <3> QED
      BY <1>1, <2>1, <3>1, <3>2, <3>3, RunTimersDue DEF Ahead, Elements
  <2>5. ASSUME NEW dst \in Dst, NicInt(dst) PROVE w \in Ahead'
    <3> DEFINE v == Work("ether_rx", [id |-> npkt + 1, dst |-> dst])
    <3>1. kwork' = kwork /\ timer_list' = timer_list /\ wq' = Append(wq, v) /\ npkt + 1 \in 1 .. MaxPkts
      BY <1>1, <2>5, KernelConstants DEF NicInt, wq_push, KernelTypes
    <3>2. v \in Works
      BY <3>1 DEF Works, Work
    <3> HIDE DEF v
    <3>3. Elements(wq') = Elements(wq) \cup {v}
      BY <1>1, <3>1, <3>2, ElementsAppend DEF KernelTypes
    <3> QED
      BY <2>1, <3>1, <3>3 DEF Ahead, Elements
  <2>6. CASE KExec
    <3>1. Elements(wq) = {kwork'} \cup Elements(wq') /\ timer_list' = timer_list
      BY <1>1, <2>6, ElementsTail DEF KExec, KernelTypes
    <3>2. kwork # w
      BY <1>1, <2>2, <2>6 DEF KExec, WorkInHand, NoWork, Work
    <3> QED
      BY <2>1, <3>1, <3>2 DEF Ahead, Elements
  <2>7. CASE KBoot \/ KLoop \/ KWoken
    <3>1. UNCHANGED <<timer_list, wq, kwork>>
      BY <2>7 DEF KBoot, KLoop, KWoken, kernvars
    <3> QED
      BY <2>1, <3>1 DEF Ahead, Elements
  <2>8. CASE KRx
    <3>1. UNCHANGED <<timer_list, wq>> /\ kwork.func = "ether_rx"
      BY <2>8 DEF KRx
    <3> QED
      BY <2>1, <2>2, <3>1 DEF Ahead, Elements
  <2>9. CASE KTimeoutCheck
    <3>1. UNCHANGED <<timer_list, wq>>
          /\ kwork' = IF sockets[kwork.arg.sock].wait_id = ThroughInt(kwork.arg.wait_id)
                      THEN kwork ELSE NoWork
      BY <2>9 DEF KTimeoutCheck
    <3>2. kwork = w => kwork' = w
      BY <2>1, <2>2, <3>1, ThroughIntIs
    <3> QED
      BY <2>1, <3>1, <3>2 DEF Ahead, Elements
  <2>10. CASE KTimeoutWake
    <3>1. UNCHANGED <<timer_list, wq>> /\ taskctl' = task_wakeup(taskctl, kwork.arg.sock)
      BY <2>10 DEF KTimeoutWake
    <3>2. kwork # w
      <4> SUFFICES ASSUME kwork = w PROVE FALSE
        OBVIOUS
      <4>1. /\ taskctl' = task_wakeup(taskctl, usock) /\ usock \in Causes /\ USER \in Slots
            /\ taskctl.tasks[USER].waitcause = usock
        BY <1>1, <1>3, <2>2, <3>1, KernelConstants DEF SleepersInv
      <4> QED
        BY <4>1, WokenNoLonger
    <3> QED
      BY <2>1, <3>1, <3>2 DEF Ahead, Elements
  <2>11. ~(Syscall \/ UserRecvReturn)
    BY <2>3 DEF Syscall, UserOpen, UserRecv, UserRecvReturn, Runs, Returns
  <2> QED
    BY <2>4, <2>5, <2>6, <2>7, <2>8, <2>9, <2>10, <2>11 DEF KernelNext, KernelStep
<1> QED
  BY <1>2, <1>3, WaitedBefore

\* A tick that comes back from the int and equals a tick of the clock is not
\* beyond the one that was put in.
LEMMA NotLater ==
    ASSUME NEW w \in 0 .. MaxTick, ThroughInt(w) \in 0 .. MaxTick
    PROVE  ThroughInt(w) <= w
<1>1. TICK_HALF \in Nat /\ TICK_HALF > 0 /\ MaxTick \in Nat
  BY KernelConstants
<1> DEFINE H == TICK_HALF
           M == 4 * TICK_HALF * TICK_HALF
<1>2. M \in Nat /\ M >= 2 * H /\ M > 0
  BY <1>1
<1>3. MaxTick < M - H
  BY KernelAssumption
<1>4. ThroughInt(w) = (IF w < H THEN w ELSE w - 2 * H) % M
  BY DEF ThroughInt
<1> HIDE DEF M, H
<1>5. H \in Nat /\ H > 0
  BY <1>1 DEF H
<1>6. CASE w < H
  <2>1. w % M = w
    BY <1>2, <1>5, <1>6
  <2> QED
    BY <1>4, <1>6, <2>1
<1>7. CASE H <= w /\ w < 2 * H
  <2> DEFINE d == 2 * H - w
  <2>1. d \in Nat /\ 0 < d /\ d <= H /\ d <= M /\ w - 2 * H = -d
    BY <1>2, <1>5, <1>7
  <2>2. (-d) % M = M - d
    <3> HIDE DEF d
    <3> DEFINE q == (-d) \div M
               x == (-d) % M
    <3>1. q \in Int /\ x \in 0 .. M - 1 /\ -d = M * q + x
      BY <1>2, <2>1
    <3> HIDE DEF q, x
    <3>2. ~(q >= 0)
      <4>1. q >= 0 => M * q >= 0
        BY <1>2, <3>1
      <4> QED
        BY <1>2, <2>1, <3>1, <4>1
    <3>3. ~(q <= -2)
      <4>1. q <= -2 => M * q <= -2 * M
        BY <1>2, <3>1
      <4> QED
        BY <1>2, <2>1, <3>1, <4>1
    <3>4. q = -1
      BY <3>1, <3>2, <3>3
    <3>5. M * q = -M
      BY <1>2, <3>4
    <3> QED
      BY <1>2, <2>1, <3>1, <3>5 DEF x
  <2>3. ThroughInt(w) = M - d
    <3>1. ~(w < H)
      BY <1>1, <1>5, <1>7
    <3>2. ThroughInt(w) = (w - 2 * H) % M
      BY <1>4, <3>1
    <3> HIDE DEF d
    <3> QED
      BY <2>1, <2>2, <3>2
  <2> HIDE DEF d
  <2> QED
    BY <1>1, <1>2, <1>3, <1>5, <2>1, <2>3
<1>8. CASE 2 * H <= w
  <2> DEFINE d == w - 2 * H
  <2>1. d \in Nat /\ d <= w /\ ~(w < H)
    BY <1>1, <1>5, <1>8
  <2>2. d % M <= d
    <3> HIDE DEF d
    <3>1. d \in Nat /\ M \in Nat \ {0}
      BY <1>2, <2>1
    <3>2. \A x \in Nat, y \in Nat \ {0} : x % y <= x
      OBVIOUS
    <3> QED
      BY <3>1, <3>2
  <2>3. ThroughInt(w) = d % M
    BY <1>4, <2>1
  <2> HIDE DEF d
  <2>4. d % M \in Nat
    BY <1>2, <2>1
  <2> QED
    BY <2>1, <2>2, <2>3, <2>4
<1> QED
  BY <1>1, <1>5, <1>6, <1>7, <1>8

\* A timeout that the comparison lets through is due.
LEMMA ThroughIsDue ==
    ASSUME KernelInv, KernelNext, kpc = "func", kpc' = "wake"
    PROVE  tick >= sockets[kwork.arg.sock].wait_id + DELAY
<1>1. KernelTypes /\ QueuedAreDue
  BY DEF KernelInv
<1>2. CASE KTimeoutCheck
  <2> DEFINE w == kwork.arg.wait_id
             x == sockets[kwork.arg.sock].wait_id
  <2>1. kwork.func = "recv_timeout" /\ x = ThroughInt(w)
    BY <1>2 DEF KTimeoutCheck
  <2>2. w \in 0 .. MaxTick /\ kwork.arg.sock \in Sock
    BY <1>1, <2>1 DEF KernelTypes, Works, Work, NoWork, TimeoutWork
  <2>3. x \in 0 .. MaxTick
    BY <1>1, <2>2 DEF KernelTypes, Socket
  <2>4. w + DELAY <= tick
    <3>1. kwork \in Elements(Flight)
      BY <1>1, WorksAhead DEF KernelTypes, Flight
    <3> QED
      BY <1>1, <2>1, <3>1 DEF QueuedAreDue
  <2> HIDE DEF w, x
  <2>5. x <= w
    BY <2>1, <2>2, <2>3, NotLater
  <2>6. tick \in Nat /\ DELAY \in Nat /\ x \in Nat /\ w \in Nat
    BY <1>1, <2>2, <2>3, KernelConstants DEF KernelTypes
  <2> QED
    BY <2>4, <2>5, <2>6 DEF x
<1> QED
  BY <1>2 DEF KernelNext, KBoot, Pit, PitResume, NicInt, KernelStep, KLoop, KExec, KRx,
              KTimeoutWake, KWoken, Syscall, UserOpen, UserRecv, UserRecvReturn, kernvars

-----------------------------------------------------------------------------
(* Packets reach the sockets in order.                                     *)

\* The packets on their way are what the log says.
Logged(in, n, log) == \A w \in in : w.arg.id <= n /\ w.arg.dst = log[w.arg.id]

\* What a socket has taken is in order, came before all that is on its way and,
\* since the socket was opened, is with it all that was for the socket.
Served(s, in, taken, used, b, n, log) ==
    /\ \A i, j \in 1 .. Len(taken) : i < j => taken[i] < taken[j]
    /\ \A i \in 1 .. Len(taken), w \in in : taken[i] < w.arg.id
    /\ \A i \in 1 .. Len(taken) : taken[i] <= n
    /\ b <= n
    /\ used => \A p \in b + 1 .. n :
                  IsFor(log[p], s) <=> \/ p \in Elements(taken)
                                       \/ \E w \in in : w.arg.id = p /\ IsFor(w.arg.dst, s)

\* Delivery in order, socket by socket.
Delivery(in, n, log) ==
    /\ Logged(in, n, log)
    /\ \A s \in Sock : Served(s, in, Taken(s), sockets[s].flag = "USED", base[s], n, log)

\* The two parts of the invariant that speak of packets, in this form.
LEMMA DeliveryIs ==
    ASSUME KernelInv
    PROVE  InOrderOfArrival(Flight) /\ Delivery(PacketsIn(Flight), npkt, dst_of)
<1>1. PacketsLogged /\ DeliveredInOrder
  BY DEF KernelInv
<1>2. InOrderOfArrival(Flight)
  BY <1>1 DEF DeliveredInOrder, InOrderOfArrival
<1>3. Logged(PacketsIn(Flight), npkt, dst_of)
  BY <1>1 DEF PacketsLogged, PacketsIn, Logged
<1>4. ASSUME NEW s \in Sock
      PROVE  Served(s, PacketsIn(Flight), Taken(s), sockets[s].flag = "USED", base[s], npkt, dst_of)
  <2>1. /\ \A i, j \in 1 .. Len(Taken(s)) : i < j => Taken(s)[i] < Taken(s)[j]
        /\ \A i \in 1 .. Len(Taken(s)), w \in PacketsIn(Flight) : Taken(s)[i] < w.arg.id
        /\ \A i \in 1 .. Len(Taken(s)) : Taken(s)[i] <= npkt
        /\ base[s] <= npkt
    BY <1>1 DEF DeliveredInOrder, PacketsLogged, PacketsIn
  <2>2. sockets[s].flag = "USED" =>
          \A p \in base[s] + 1 .. npkt :
             IsFor(dst_of[p], s) <=>
               \/ p \in Elements(Taken(s))
               \/ \E w \in PacketsIn(Flight) : w.arg.id = p /\ IsFor(w.arg.dst, s)
    BY <1>1 DEF DeliveredInOrder, PacketsIn
  <2> QED
    BY <2>1, <2>2 DEF Served
<1> QED
  BY <1>2, <1>3, <1>4 DEF Delivery

\* The same of the next state, the other way round.
LEMMA DeliveryGives ==
    ASSUME InOrderOfArrival(Flight)', Delivery(PacketsIn(Flight), npkt, dst_of)'
    PROVE  PacketsLogged' /\ DeliveredInOrder'
<1>1. /\ Logged(PacketsIn(Flight'), npkt', dst_of')
      /\ \A s \in Sock : Served(s, PacketsIn(Flight'), Taken(s)', sockets'[s].flag = "USED",
                                base'[s], npkt', dst_of')
  BY DEF Delivery, Logged, Served, PacketsIn, Elements
<1>2. PacketsLogged'
  BY <1>1 DEF PacketsLogged, Logged, Served, PacketsIn, Elements
<1>3. ASSUME NEW s \in Sock
      PROVE  /\ \A i, j \in 1 .. Len(Taken(s)') : i < j => Taken(s)'[i] < Taken(s)'[j]
             /\ \A i \in 1 .. Len(Taken(s)'), w \in Elements(Flight') :
                   IsPacket(w) => Taken(s)'[i] < w.arg.id
             /\ sockets'[s].flag = "USED" =>
                   \A p \in base'[s] + 1 .. npkt' :
                      IsFor(dst_of'[p], s) <=>
                        \/ p \in Elements(Taken(s)')
                        \/ \E w \in Elements(Flight') :
                              IsPacket(w) /\ w.arg.id = p /\ IsFor(w.arg.dst, s)
  BY <1>1 DEF Served, PacketsIn
<1>4. InOrderOfArrival(Flight')
  BY DEF InOrderOfArrival
<1> QED
  BY <1>2, <1>3, <1>4 DEF DeliveredInOrder, InOrderOfArrival, IsFor, Elements, IsPacket

\* A step that leaves the packets on their way, the sockets' packets and the log.
LEMMA DeliveryUntouched ==
    ASSUME KernelInv, InOrderOfArrival(Flight'), PacketsIn(Flight') = PacketsIn(Flight),
           UNCHANGED <<npkt, dst_of, base>>,
           \A s \in Sock : Taken(s)' = Taken(s) /\ sockets'[s].flag = sockets[s].flag
    PROVE  PacketsLogged' /\ DeliveredInOrder'
<1>1. Delivery(PacketsIn(Flight), npkt, dst_of)
  BY DeliveryIs
<1>2. \A s \in Sock : Served(s, PacketsIn(Flight'), Taken(s)', sockets'[s].flag = "USED",
                             base'[s], npkt', dst_of')
  BY <1>1 DEF Delivery
<1>3. Logged(PacketsIn(Flight'), npkt', dst_of')
  BY <1>1 DEF Delivery
<1> QED
  BY <1>2, <1>3, DeliveryGives DEF Delivery, InOrderOfArrival, Logged, Served, PacketsIn, Elements

\* What has come as far as the list of a socket are numbers of packets.
LEMMA TakenIs ==
    ASSUME KernelTypes, NEW s \in Sock
    PROVE  /\ Taken(s) \in Seq(1 .. MaxPkts)
           /\ got[s] \in Seq(1 .. MaxPkts) /\ sockets[s].rx \in Seq(1 .. MaxPkts)
<1>1. got[s] \in Seq(1 .. MaxPkts) /\ sockets[s].rx \in Seq(1 .. MaxPkts)
  BY DEF KernelTypes, Socket
<1> QED
  BY <1>1, ElementsConcat DEF Taken

\* list_popfront hands over the oldest packet: the row stays the same.
LEMMA PopKeepsTaken ==
    ASSUME KernelTypes, NEW s \in Sock, sockets[s].rx # << >>, Pop(s)
    PROVE  \A r \in Sock : Taken(r)' = Taken(r) /\ sockets'[r].flag = sockets[r].flag
<1> DEFINE S == 1 .. MaxPkts
           g == got[s]
           x == sockets[s].rx
           h == Head(x)
           t == Tail(x)
<1>1. /\ sockets'[s].rx = t /\ got'[s] = Append(g, h)
      /\ \A r \in Sock \ {s} : sockets'[r] = sockets[r] /\ got'[r] = got[r]
      /\ \A r \in Sock : sockets'[r].flag = sockets[r].flag
  BY PopTypes
<1>2. g \in Seq(S) /\ x \in Seq(S) /\ x # << >>
  BY TakenIs
<1>3. h \in S /\ t \in Seq(S) /\ h = x[1] /\ Len(x) \in Nat /\ Len(t) = Len(x) - 1
      /\ \A i \in 1 .. Len(t) : t[i] = x[i + 1] /\ i + 1 \in 1 .. Len(x)
  BY <1>2, ElementsTail
<1> HIDE DEF S, g, x, h, t
<1>4. Append(g, h) \o t = g \o x
  <2>1. Append(g, h) = g \o <<h>> /\ <<h>> \in Seq(S)
    BY <1>2, <1>3, AppendIsConcat
  <2>2. (g \o <<h>>) \o t = g \o (<<h>> \o t)
    BY <1>2, <1>3, <2>1, ConcatAssociative
  <2>3. <<h>> \o t = x
    <3> DEFINE f == <<h>> \o t
    <3>1. /\ f \in Seq(S) /\ Len(f) = Len(t) + 1 /\ f[1] = h
          /\ \A i \in 1 .. Len(t) : f[i + 1] = t[i]
      BY <1>3, FlightIs
    <3> HIDE DEF f
    <3>2. \A i \in 1 .. Len(f) : f[i] = x[i]
      <4> TAKE i \in 1 .. Len(f)
      <4>1. i = 1 \/ (i - 1 \in 1 .. Len(t) /\ (i - 1) + 1 = i)
        BY <1>3, <3>1
      <4> QED
        BY <1>3, <3>1, <4>1
    <3>3. Len(f) = Len(x)
      BY <1>3, <3>1
    <3>4. f = x
      BY <1>2, <3>1, <3>2, <3>3, SeqEqual
    <3> QED
      BY <3>4 DEF f
  <2> QED
    BY <2>1, <2>2, <2>3
<1>5. Taken(s)' = Taken(s)
  BY <1>1, <1>4 DEF Taken, g, x
<1> QED
  BY <1>1, <1>5 DEF Taken

\* A packet arrives.
LEMMA ArrivalServes ==
    ASSUME NEW s \in Sock, NEW in, NEW taken \in Seq(1 .. MaxPkts), NEW used, NEW b \in Nat,
           NEW n \in Nat, NEW log \in Seq(Dst), Len(log) = n, NEW dst \in Dst,
           \A v \in in : v.arg.id \in 1 .. MaxPkts,
           Logged(in, n, log), Served(s, in, taken, used, b, n, log)
    PROVE  LET w == Work("ether_rx", [id |-> n + 1, dst |-> dst])
           IN  /\ Logged(in \cup {w}, n + 1, Append(log, dst))
               /\ Served(s, in \cup {w}, taken, used, b, n + 1, Append(log, dst))
<1> DEFINE w == Work("ether_rx", [id |-> n + 1, dst |-> dst])
           l == Append(log, dst)
<1>1. w.arg.id = n + 1 /\ w.arg.dst = dst
  BY DEF Work
<1>2. (\A i \in 1 .. n : l[i] = log[i]) /\ l[n + 1] = dst
  BY AppendProperties
<1>3. \A i \in 1 .. Len(taken) : taken[i] \in Nat /\ taken[i] <= n
  <2>1. \A i \in 1 .. Len(taken) : taken[i] \in 1 .. MaxPkts
    BY ElementOfSeq
  <2> QED
    BY <2>1 DEF Served
<1> HIDE DEF w, l
<1>4. \A v \in in : v.arg.id \in 1 .. n /\ v.arg.dst = log[v.arg.id]
  BY DEF Logged
<1>5. \A v \in in : v.arg.id <= n + 1 /\ v.arg.dst = l[v.arg.id]
  BY <1>2, <1>4
<1>6. Logged(in \cup {w}, n + 1, l)
  BY <1>1, <1>2, <1>5 DEF Logged
<1>7. /\ \A i \in 1 .. Len(taken), v \in in \cup {w} : taken[i] < v.arg.id
      /\ \A i \in 1 .. Len(taken) : taken[i] <= n + 1
      /\ b <= n + 1
  BY <1>1, <1>3 DEF Served
<1>8. ASSUME used, NEW p \in b + 1 .. n + 1
      PROVE  IsFor(l[p], s) <=> \/ p \in Elements(taken)
                                \/ \E v \in in \cup {w} : v.arg.id = p /\ IsFor(v.arg.dst, s)
  <2>1. CASE p = n + 1
    <3>1. p \notin Elements(taken)
      BY <1>3, <2>1 DEF Elements
    <3>2. \A v \in in : v.arg.id # p
      BY <1>4, <2>1
    <3> QED
      BY <1>1, <1>2, <2>1, <3>1, <3>2
  <2>2. CASE p # n + 1
    <3>1. p \in b + 1 .. n /\ p \in 1 .. n /\ w.arg.id # p
      BY <1>1, <2>2
    <3>2. IsFor(log[p], s) <=> \/ p \in Elements(taken)
                               \/ \E v \in in : v.arg.id = p /\ IsFor(v.arg.dst, s)
      BY <1>8, <3>1 DEF Served
    <3> QED
      BY <1>2, <3>1, <3>2
  <2> QED
    BY <2>1, <2>2
<1>9. Served(s, in \cup {w}, taken, used, b, n + 1, l)
  BY <1>7, <1>8 DEF Served
<1> QED
  BY <1>6, <1>9 DEF w, l

\* udp_rx and raw_recv give the packet in hand to a socket that takes it, and
\* to no other.
LEMMA DeliveryServes ==
    ASSUME NEW s \in Sock, NEW in, NEW taken \in Seq(1 .. MaxPkts), NEW used, NEW b \in Nat,
           NEW n \in Nat, NEW log, NEW k \in in,
           \A v \in in : v.arg.id \in 1 .. MaxPkts,
           \A v \in in \ {k} : k.arg.id < v.arg.id,
           Logged(in, n, log), Served(s, in, taken, used, b, n, log),
           NEW row, row = IF used /\ IsFor(k.arg.dst, s) THEN Append(taken, k.arg.id) ELSE taken
    PROVE  Served(s, in \ {k}, row, used, b, n, log)
<1>1. /\ \A i, j \in 1 .. Len(taken) : i < j => taken[i] < taken[j]
      /\ \A i \in 1 .. Len(taken), w \in in : taken[i] < w.arg.id
      /\ \A i \in 1 .. Len(taken) : taken[i] <= n
      /\ b <= n
  BY DEF Served
<1>2. k.arg.id \in Nat /\ k.arg.id <= n /\ k.arg.dst = log[k.arg.id]
  BY DEF Logged
<1>3. CASE ~(used /\ IsFor(k.arg.dst, s))
  <2>1. row = taken
    BY <1>3
  <2>2. ASSUME used, NEW p \in b + 1 .. n
        PROVE  IsFor(log[p], s) <=> \/ p \in Elements(taken)
                                    \/ \E v \in in \ {k} : v.arg.id = p /\ IsFor(v.arg.dst, s)
    BY <1>3, <2>2 DEF Served
  <2> QED
    BY <1>1, <2>1, <2>2 DEF Served
<1>4. CASE used /\ IsFor(k.arg.dst, s)
  <2>1. row = Append(taken, k.arg.id)
    BY <1>4
  <2>2. /\ Len(row) = Len(taken) + 1 /\ Len(taken) \in Nat
        /\ \A i \in 1 .. Len(taken) : row[i] = taken[i]
        /\ row[Len(taken) + 1] = k.arg.id
        /\ Elements(row) = Elements(taken) \cup {k.arg.id}
    <3> DEFINE S == 1 .. MaxPkts
               x == k.arg.id
    <3>1. taken \in Seq(S) /\ x \in S
      OBVIOUS
    <3> HIDE DEF S, x
    <3> QED
      BY <2>1, <3>1, AppendProperties, ElementsAppend, LenProperties DEF x
  <2>3. ASSUME NEW i \in 1 .. Len(row)
        PROVE  \/ i \in 1 .. Len(taken) /\ row[i] = taken[i]
               \/ i = Len(taken) + 1 /\ row[i] = k.arg.id
    BY <2>2
  <2>4. \A i, j \in 1 .. Len(row) : i < j => row[i] < row[j]
    <3> SUFFICES ASSUME NEW i \in 1 .. Len(row), NEW j \in 1 .. Len(row), i < j
                 PROVE  row[i] < row[j]
      OBVIOUS
    <3>1. i \in 1 .. Len(taken) /\ row[i] = taken[i]
      BY <2>2, <2>3
    <3> QED
      BY <1>1, <2>3, <3>1
  <2>5. \A i \in 1 .. Len(row), w \in in \ {k} : row[i] < w.arg.id
    BY <1>1, <2>3
  <2>6. \A i \in 1 .. Len(row) : row[i] <= n
    BY <1>1, <1>2, <2>3
  <2>7. ASSUME used, NEW p \in b + 1 .. n
        PROVE  IsFor(log[p], s) <=> \/ p \in Elements(row)
                                    \/ \E v \in in \ {k} : v.arg.id = p /\ IsFor(v.arg.dst, s)
    <3>1. IsFor(log[p], s) <=> \/ p \in Elements(taken)
                               \/ \E v \in in : v.arg.id = p /\ IsFor(v.arg.dst, s)
      BY <2>7 DEF Served
    <3> QED
      BY <1>4, <2>2, <3>1
  <2> QED
    BY <1>1, <2>4, <2>5, <2>6, <2>7 DEF Served
<1> QED
  BY <1>3, <1>4

\* Every packet on its way has its number.
LEMMA PacketsNumbered ==
    ASSUME KernelTypes
    PROVE  /\ \A w \in PacketsIn(Flight) : w \in Works /\ w.arg.id \in 1 .. MaxPkts /\ w.arg.dst \in Dst
           /\ Flight \in Seq(Works \cup {NoWork})
           /\ Elements(Flight) = {kwork} \cup Elements(wq)
           /\ Len(Flight) \in Nat
<1>1. /\ Flight \in Seq(Works \cup {NoWork})
      /\ Elements(Flight) = {kwork} \cup Elements(wq)
  BY WorksAhead DEF KernelTypes, Flight
<1>2. Elements(Flight) \subseteq Works \cup {NoWork}
  BY <1>1, ElementsIn
<1>3. \A w \in PacketsIn(Flight) : w \in Works /\ w.func = "ether_rx"
  BY <1>2 DEF PacketsIn, IsPacket, NoWork, Work
<1>4. \A w \in Works : w.func = "ether_rx" => w.arg.id \in 1 .. MaxPkts /\ w.arg.dst \in Dst
  BY DEF Works, TimeoutWork, Work
<1> QED
  BY <1>1, <1>3, <1>4, LenProperties

\* Interrupts keep the delivery in order.
LEMMA InterruptsDeliver ==
    ASSUME KernelInv, KernelTypes', Pit \/ PitResume \/ \E dst \in Dst : NicInt(dst)
    PROVE  PacketsLogged' /\ DeliveredInOrder'
<1>1. /\ KernelTypes /\ InOrderOfArrival(Flight)
      /\ Delivery(PacketsIn(Flight), npkt, dst_of)
  BY DeliveryIs DEF KernelInv
<1> DEFINE S == Works \cup {NoWork}
<1>2. /\ kwork \in S /\ wq \in Seq(S) /\ Flight \in Seq(S) /\ <<kwork>> \in Seq(S)
      /\ \A w \in PacketsIn(Flight) : w.arg.id \in 1 .. MaxPkts
  BY <1>1, WorksAhead, PacketsNumbered DEF KernelTypes
<1> HIDE DEF S
<1>3. CASE Pit \/ PitResume
  <2>1. /\ UNCHANGED <<kwork, npkt, dst_of, base, sockets, got>>
        /\ (wq' = wq \/ \E tc : RunTimers(tc, tick'))
        /\ tick' \in 0 .. MaxTick
    BY <1>3 DEF Pit, PitResume, netvars, KernelTypes
  <2>2. \A s \in Sock : Taken(s)' = Taken(s) /\ sockets'[s].flag = sockets[s].flag
    BY <2>1 DEF Taken
  <2>3. InOrderOfArrival(Flight') /\ PacketsIn(Flight') = PacketsIn(Flight)
    <3>1. CASE wq' = wq
      <4>1. Flight' = Flight
        BY <2>1, <3>1 DEF Flight
      <4> QED
        BY <1>1, <4>1
    <3>2. ASSUME NEW tc, RunTimers(tc, tick')
          PROVE  InOrderOfArrival(Flight') /\ PacketsIn(Flight') = PacketsIn(Flight)
      <4> DEFINE N == {w \in Works : w.func = "recv_timeout" /\ w.arg.wait_id + DELAY <= tick'}
      <4>1. PICK new \in Seq(N) : wq' = wq \o new
        BY <1>1, <2>1, <3>2, RunTimersIs
      <4>2. new \in Seq(Works)
        BY DueAreWorks
      <4>3. \A i \in 1 .. Len(new) : ~IsPacket(new[i])
        <5>1. \A i \in 1 .. Len(new) : new[i] \in N
          <6> HIDE DEF N
          <6> QED
            BY ElementOfSeq
        <5> QED
          BY <5>1 DEF IsPacket
      <4>4. new \in Seq(S)
        BY <4>2, WorksAhead DEF S
      <4>5. Flight' = Flight \o new
        <5>1. (<<kwork>> \o wq) \o new = <<kwork>> \o (wq \o new)
          BY <1>2, <4>4, ConcatAssociative
        <5> QED
          BY <2>1, <4>1, <5>1 DEF Flight
      <4> HIDE DEF N
      <4> QED
        BY <1>1, <1>2, <4>3, <4>4, <4>5, FlightGrows
    <3> QED
      BY <2>1, <3>1, <3>2
  <2> QED
    BY <2>1, <2>2, <2>3, DeliveryUntouched
<1>4. ASSUME NEW dst \in Dst, NicInt(dst) PROVE PacketsLogged' /\ DeliveredInOrder'
  <2> DEFINE w == Work("ether_rx", [id |-> npkt + 1, dst |-> dst])
             in == PacketsIn(Flight)
             l == Append(dst_of, dst)
  <2>1. /\ UNCHANGED <<kwork, sockets, base, got>> /\ wq' = Append(wq, w)
        /\ npkt' = npkt + 1 /\ dst_of' = l /\ npkt + 1 \in 1 .. MaxPkts
        /\ npkt \in Nat /\ dst_of \in Seq(Dst) /\ Len(dst_of) = npkt
    BY <1>1, <1>4, KernelConstants DEF NicInt, wq_push, KernelTypes
  <2>2. w \in Works /\ w \in S /\ IsPacket(w) /\ w.arg.id = npkt + 1 /\ w.arg.dst = dst
    <3>1. w \in Works
      BY <2>1 DEF Works
    <3> QED
      BY <3>1 DEF Work, S, IsPacket
  <2>3. \A v \in in : v.arg.id < w.arg.id
    BY <1>1, <1>2, <2>1, <2>2 DEF Delivery, Logged
  <2>4. ASSUME NEW s \in Sock
        PROVE  /\ Logged(in \cup {w}, npkt + 1, l)
               /\ Served(s, in \cup {w}, Taken(s), sockets[s].flag = "USED", base[s], npkt + 1, l)
    <3>1. Taken(s) \in Seq(1 .. MaxPkts) /\ base[s] \in Nat
      BY <1>1, TakenIs DEF KernelTypes
    <3>2. Logged(in, npkt, dst_of) /\ Served(s, in, Taken(s), sockets[s].flag = "USED", base[s], npkt, dst_of)
      BY <1>1 DEF Delivery
    <3>3. \A v \in in : v.arg.id \in 1 .. MaxPkts
      BY <1>2
    <3> DEFINE used == sockets[s].flag = "USED"
    <3> HIDE DEF in, used
    <3>4. Logged(in, npkt, dst_of) /\ Served(s, in, Taken(s), used, base[s], npkt, dst_of)
      BY <3>2 DEF used
    <3>5. /\ Logged(in \cup {w}, npkt + 1, l)
          /\ Served(s, in \cup {w}, Taken(s), used, base[s], npkt + 1, l)
      BY <2>1, <3>1, <3>3, <3>4, ArrivalServes
    <3> QED
      BY <3>5 DEF used
  <2>5. Logged(in \cup {w}, npkt + 1, l)
    <3>1. \A v \in in : v.arg.id \in 1 .. npkt /\ v.arg.dst = dst_of[v.arg.id]
      BY <1>1, <1>2 DEF Delivery, Logged
    <3>2. (\A i \in 1 .. npkt : l[i] = dst_of[i]) /\ l[npkt + 1] = dst
      BY <2>1, AppendProperties
    <3> HIDE DEF w, l, in
    <3>3. \A v \in in : v.arg.id <= npkt + 1 /\ v.arg.dst = l[v.arg.id]
      BY <2>1, <3>1, <3>2
    <3> QED
      BY <2>1, <2>2, <3>2, <3>3 DEF Logged
  <2> HIDE DEF w, l
  <2>6. Flight' = Append(Flight, w)
    <3>1. Append(wq, w) = wq \o <<w>> /\ Append(Flight, w) = Flight \o <<w>> /\ <<w>> \in Seq(S)
      BY <1>2, <2>2, AppendIsConcat
    <3>2. (<<kwork>> \o wq) \o <<w>> = <<kwork>> \o (wq \o <<w>>)
      BY <1>2, <3>1, ConcatAssociative
    <3> QED
      BY <2>1, <3>1, <3>2 DEF Flight
  <2>7. InOrderOfArrival(Flight') /\ PacketsIn(Flight') = in \cup {w}
    BY <1>1, <1>2, <2>2, <2>3, <2>6, FlightGrowsByPacket
  <2>8. \A s \in Sock : Taken(s)' = Taken(s)
    BY <2>1 DEF Taken
  <2> HIDE DEF in
  <2>9. /\ Logged(PacketsIn(Flight'), npkt', dst_of')
        /\ \A s \in Sock : Served(s, PacketsIn(Flight'), Taken(s)', sockets'[s].flag = "USED",
                                  base'[s], npkt', dst_of')
    BY <2>1, <2>4, <2>5, <2>7, <2>8
  <2> QED
    BY <2>7, <2>9, DeliveryGives DEF Delivery, InOrderOfArrival, Logged, Served, PacketsIn, Elements
<1> QED
  BY <1>3, <1>4

\* The kernel task and the boot keep the delivery in order.
LEMMA KernelTaskDelivers ==
    ASSUME KernelInv, KernelTypes', KBoot \/ KernelStep \/ KWoken
    PROVE  PacketsLogged' /\ DeliveredInOrder'
<1>1. /\ KernelTypes /\ WorkInHand /\ InOrderOfArrival(Flight)
      /\ Delivery(PacketsIn(Flight), npkt, dst_of)
  BY DeliveryIs DEF KernelInv
<1>2. ASSUME UNCHANGED <<sockets, got, npkt, dst_of, base>>,
             InOrderOfArrival(Flight'), PacketsIn(Flight') = PacketsIn(Flight)
      PROVE  PacketsLogged' /\ DeliveredInOrder'
  <2>1. \A s \in Sock : Taken(s)' = Taken(s) /\ sockets'[s].flag = sockets[s].flag
    BY <1>2 DEF Taken
  <2> QED
    BY <1>2, <2>1, DeliveryUntouched
<1>3. CASE UNCHANGED <<kwork, wq, sockets, got, npkt, dst_of, base>>
  <2>1. Flight' = Flight
    BY <1>3 DEF Flight
  <2> QED
    BY <1>1, <1>2, <1>3, <2>1
<1>4. CASE KExec
  <2>1. kwork = NoWork /\ wq # << >> /\ Flight' = <<Head(wq)>> \o Tail(wq)
    BY <1>1, <1>4 DEF KExec, WorkInHand, Flight
  <2>2. InOrderOfArrival(Flight') /\ PacketsIn(Flight') = PacketsIn(Flight)
    BY <1>1, <2>1, FlightAdvances
  <2> QED
    BY <1>2, <1>4, <2>2 DEF KExec, netvars
<1>5. ASSUME kwork.func = "recv_timeout", kwork' = NoWork,
             UNCHANGED <<wq, sockets, got, npkt, dst_of, base>>
      PROVE  PacketsLogged' /\ DeliveredInOrder'
  <2>1. Flight' = <<NoWork>> \o wq
    BY <1>5 DEF Flight
  <2>2. InOrderOfArrival(Flight') /\ PacketsIn(Flight') = PacketsIn(Flight) \ {kwork}
    BY <1>1, <2>1, FlightAdvances
  <2>3. kwork \notin PacketsIn(Flight)
    BY <1>5 DEF PacketsIn, IsPacket
  <2> QED
    BY <1>2, <1>5, <2>2, <2>3
<1>6. CASE KRx
  <2> DEFINE in == PacketsIn(Flight)
             pkt == kwork.arg
  <2>1. /\ kwork.func = "ether_rx" /\ sockets' = Delivered(pkt) /\ kwork' = NoWork
        /\ UNCHANGED <<wq, got, npkt, dst_of, base>>
    BY <1>6 DEF KRx, netvars
  <2>2. Flight' = <<NoWork>> \o wq
    BY <2>1 DEF Flight
  <2>3. InOrderOfArrival(Flight') /\ PacketsIn(Flight') = in \ {kwork}
    BY <1>1, <2>2, FlightAdvances
  <2>4. /\ kwork \in in
        /\ \A v \in in : v.arg.id \in 1 .. MaxPkts /\ v.arg.dst \in Dst
        /\ Elements(Flight) = {kwork} \cup Elements(wq)
    BY <1>1, <2>1, PacketsNumbered DEF PacketsIn, IsPacket
  <2>5. \A v \in in \ {kwork} : kwork.arg.id < v.arg.id
    <3> TAKE v \in in \ {kwork}
    <3>1. v \in Elements(wq) /\ IsPacket(v)
      BY <2>4 DEF PacketsIn
    <3>2. PICK i \in 1 .. Len(wq) : v = wq[i]
      BY <3>1 DEF Elements
    <3>3. /\ Len(Flight) = Len(wq) + 1 /\ Len(wq) \in Nat
          /\ Flight[1] = kwork /\ Flight[i + 1] = v
      BY <1>1, <3>2, WorksAhead, FlightIs DEF Flight, KernelTypes
    <3>4. 1 \in 1 .. Len(Flight) /\ i + 1 \in 1 .. Len(Flight) /\ 1 < i + 1
      BY <3>3
    <3> QED
      BY <1>1, <2>1, <3>1, <3>3, <3>4 DEF InOrderOfArrival, IsPacket
  <2> HIDE DEF in
  <2>6. ASSUME NEW s \in Sock
        PROVE  Served(s, in \ {kwork}, Taken(s)', sockets'[s].flag = "USED", base'[s], npkt', dst_of')
    <3> DEFINE used == sockets[s].flag = "USED"
               row == IF used /\ IsFor(pkt.dst, s) THEN Append(Taken(s), pkt.id) ELSE Taken(s)
    <3>1. /\ Taken(s) \in Seq(1 .. MaxPkts) /\ got[s] \in Seq(1 .. MaxPkts)
          /\ sockets[s].rx \in Seq(1 .. MaxPkts) /\ base[s] \in Nat /\ npkt \in Nat
      BY <1>1, TakenIs, KernelConstants DEF KernelTypes
    <3>2. Logged(in, npkt, dst_of) /\ Served(s, in, Taken(s), used, base[s], npkt, dst_of)
      BY <1>1 DEF Delivery, in
    <3>3. Served(s, in \ {kwork}, row, used, base[s], npkt, dst_of)
      <4> HIDE DEF used
      <4> QED
        BY <2>4, <2>5, <3>1, <3>2, DeliveryServes
    <3>4. Taken(s)' = row /\ sockets'[s].flag = sockets[s].flag
      <4> HIDE DEF pkt
      <4>1. pkt.id \in 1 .. MaxPkts
        BY <2>4 DEF pkt
      <4>2. /\ sockets'[s].flag = sockets[s].flag
            /\ sockets'[s].rx = IF s \in Takers(pkt.dst) THEN Append(sockets[s].rx, pkt.id)
                                ELSE sockets[s].rx
        BY <1>1, <2>1, <4>1, DeliveredTypes
      <4>3. s \in Takers(pkt.dst) <=> used /\ IsFor(pkt.dst, s)
        BY DEF Takers
      <4>4. got[s] \o Append(sockets[s].rx, pkt.id) = Append(Taken(s), pkt.id)
        <5> DEFINE S == 1 .. MaxPkts
                   g == got[s]
                   x == sockets[s].rx
                   h == pkt.id
        <5>1. g \in Seq(S) /\ x \in Seq(S) /\ h \in S /\ Taken(s) = g \o x /\ Taken(s) \in Seq(S)
          BY <3>1, <4>1 DEF Taken
        <5> HIDE DEF S, g, x, h
        <5>2. /\ Append(x, h) = x \o <<h>> /\ Append(Taken(s), h) = Taken(s) \o <<h>>
              /\ <<h>> \in Seq(S)
          BY <5>1, AppendIsConcat
        <5>3. (g \o x) \o <<h>> = g \o (x \o <<h>>)
          BY <5>1, <5>2, ConcatAssociative
        <5> QED
          BY <5>1, <5>2, <5>3 DEF g, x, h
      <4> HIDE DEF used
      <4> QED
        BY <2>1, <4>2, <4>3, <4>4 DEF Taken
    <3> QED
      BY <2>1, <3>3, <3>4
  <2>7. Logged(in \ {kwork}, npkt', dst_of')
    BY <1>1, <2>1 DEF Delivery, Logged, in
  <2>8. /\ Logged(PacketsIn(Flight'), npkt', dst_of')
        /\ \A s \in Sock : Served(s, PacketsIn(Flight'), Taken(s)', sockets'[s].flag = "USED",
                                  base'[s], npkt', dst_of')
    BY <2>3, <2>6, <2>7
  <2> QED
    BY <2>3, <2>8, DeliveryGives DEF Delivery, InOrderOfArrival, Logged, Served, PacketsIn, Elements
<1>7. CASE KBoot \/ KLoop \/ KWoken
  BY <1>3, <1>7 DEF KBoot, KLoop, KWoken, kernvars, netvars
<1>8. CASE KTimeoutCheck
  BY <1>3, <1>5, <1>8 DEF KTimeoutCheck, netvars
<1>9. CASE KTimeoutWake
  BY <1>1, <1>5, <1>9 DEF KTimeoutWake, WorkInHand, netvars
<1> QED
  BY <1>4, <1>6, <1>7, <1>8, <1>9 DEF KernelStep

\* The user task keeps the delivery in order.
LEMMA UserDelivers ==
    ASSUME KernelInv, KernelTypes', Syscall \/ UserRecvReturn
    PROVE  PacketsLogged' /\ DeliveredInOrder'
<1>1. /\ KernelTypes /\ InOrderOfArrival(Flight)
      /\ Delivery(PacketsIn(Flight), npkt, dst_of)
  BY DeliveryIs DEF KernelInv
<1>2. UNCHANGED <<kwork, wq, npkt, dst_of>> /\ Flight' = Flight
  BY DEF Syscall, UserOpen, UserRecv, UserRecvReturn, kernvars, Flight
<1>3. ASSUME base' = base,
             \A s \in Sock : Taken(s)' = Taken(s) /\ sockets'[s].flag = sockets[s].flag
      PROVE  PacketsLogged' /\ DeliveredInOrder'
  BY <1>1, <1>2, <1>3, DeliveryUntouched
<1>4. CASE UNCHANGED <<base, sockets, got>>
  BY <1>3, <1>4 DEF Taken
<1>5. ASSUME NEW table, table = UdpSock \/ table = RawSock, UserOpen(table)
      PROVE  PacketsLogged' /\ DeliveredInOrder'
  <2>1. got' = got
    BY <1>5 DEF UserOpen
  <2>2. ASSUME NEW s \in table, sockets' = Opened(s), base' = [base EXCEPT ![s] = npkt]
        PROVE  PacketsLogged' /\ DeliveredInOrder'
    <3>1. s \in Sock /\ npkt \in Nat /\ base \in [Sock -> Nat]
      BY <1>1, <1>5, KernelConstants DEF Sock, KernelTypes
    <3>2. /\ \A r \in Sock \ {s} : sockets'[r] = sockets[r]
          /\ \A r \in Sock : sockets'[r].rx = sockets[r].rx
      BY <1>1, <2>2, <3>1, OpenTypes
    <3>3. \A r \in Sock : Taken(r)' = Taken(r)
      BY <2>1, <3>2 DEF Taken
    <3>4. ASSUME NEW r \in Sock
          PROVE  Served(r, PacketsIn(Flight'), Taken(r)', sockets'[r].flag = "USED", base'[r], npkt', dst_of')
      <4>1. Served(r, PacketsIn(Flight), Taken(r), sockets[r].flag = "USED", base[r], npkt, dst_of)
        BY <1>1 DEF Delivery
      <4>2. CASE r # s
        BY <1>2, <2>2, <3>1, <3>2, <3>3, <4>1, <4>2
      <4>3. CASE r = s
        <5>1. base'[r] = npkt /\ \A p \in npkt + 1 .. npkt : FALSE
          BY <2>2, <3>1, <4>3
        <5>2. Served(r, PacketsIn(Flight), Taken(r), sockets'[r].flag = "USED", npkt, npkt, dst_of)
          BY <3>1, <4>1, <5>1 DEF Served
        <5> QED
          BY <1>2, <3>3, <5>1, <5>2
      <4> QED
        BY <4>2, <4>3
    <3>5. Logged(PacketsIn(Flight'), npkt', dst_of')
      BY <1>1, <1>2 DEF Delivery
    <3> QED
      BY <1>1, <1>2, <3>4, <3>5, DeliveryGives
         DEF Delivery, InOrderOfArrival, Logged, Served, PacketsIn, Elements
  <2>3. \/ UNCHANGED <<sockets, base>>
        \/ \E s \in table : sockets' = Opened(s) /\ base' = [base EXCEPT ![s] = npkt]
    BY <1>5 DEF UserOpen
  <2> QED
    BY <1>4, <2>1, <2>2, <2>3
<1>6. ASSUME NEW s \in Sock, UserRecv(s) PROVE PacketsLogged' /\ DeliveredInOrder'
  <2>1. CASE sockets[s].rx # << >>
    <3>1. Pop(s) /\ base' = base
      BY <1>6, <2>1 DEF UserRecv
    <3> QED
      BY <1>1, <1>3, <2>1, <3>1, PopKeepsTaken
  <2>2. CASE sockets[s].rx = << >>
    <3>1. sockets' = [sockets EXCEPT ![s].wait_id = tick] /\ base' = base /\ got' = got /\ tick \in 0 .. MaxTick
      BY <1>1, <1>6, <2>2 DEF UserRecv, KernelTypes
    <3>2. \A r \in Sock : sockets'[r].flag = sockets[r].flag /\ sockets'[r].rx = sockets[r].rx
      BY <1>1, <3>1, WaitTypes
    <3> QED
      BY <1>3, <3>1, <3>2 DEF Taken
  <2> QED
    BY <2>1, <2>2
<1>7. CASE UserRecvReturn
  <2>1. base' = base /\ usock \in Sock
    BY <1>1, <1>7 DEF UserRecvReturn, KernelTypes
  <2>2. CASE sockets[usock].rx # << >>
    <3>1. Pop(usock)
      BY <1>7, <2>2 DEF UserRecvReturn
    <3> QED
      BY <1>1, <1>3, <2>1, <2>2, <3>1, PopKeepsTaken
  <2>3. CASE sockets[usock].rx = << >>
    BY <1>4, <1>7, <2>1, <2>3 DEF UserRecvReturn
  <2> QED
    BY <2>2, <2>3
<1> QED
  BY <1>5, <1>6, <1>7 DEF Syscall

-----------------------------------------------------------------------------
(* Theorems.                                                               *)

\* The first state satisfies the invariant.
LEMMA KernelInitHolds == KernelInit => KernelInv
<1> SUFFICES ASSUME KernelInit PROVE KernelInv
  OBVIOUS
<1>1. /\ taskctl = task_init /\ SchedInv(taskctl) /\ KERNEL \in Slots /\ USER \in Slots
      /\ tick = 0 /\ timer_list = <<[tick |-> TICK_MAX, work |-> NoWork]>>
      /\ wq = << >> /\ kpc = "loop" /\ kwork = NoWork /\ inpit = {}
      /\ sockets = [s \in Sock |-> [flag |-> "FREE", wait_id |-> 0, rx |-> << >>]]
      /\ upc = "user" /\ npkt = 0 /\ dst_of = << >>
      /\ base = [s \in Sock |-> 0] /\ got = [s \in Sock |-> << >>]
  BY InitHolds, KernelConstants DEF KernelInit, TaskInit
<1>2. KernelTypes
  <2>1. 0 \in 0 .. MaxTick /\ 0 \in 0 .. MaxPkts /\ 0 \in Nat
    BY KernelConstants
  <2>2. timer_list \in Seq(Timers)
    <3>1. [tick |-> TICK_MAX, work |-> NoWork] \in Timers
      BY DEF Timers
    <3> QED
      BY <1>1, <3>1
  <2>3. sockets \in [Sock -> Socket]
    BY <1>1, <2>1 DEF Socket
  <2> QED
    BY <1>1, <2>1, <2>2, <2>3 DEF KernelTypes
<1>3. SleepersInv
  <2>1. /\ taskctl.tasks[KERNEL].func = kstart
        /\ \A t \in Slots : taskctl.tasks[t].flag # TASK_WAITING
    BY <1>1 DEF task_init, EmptySlot, KERNEL, TASK_RUNNING, TASK_WAITING, Unused
  <2> QED
    BY <1>1, <2>1 DEF SleepersInv, Flag, Func
<1>4. Flight \in Seq(Works \cup {NoWork}) /\ Elements(Flight) = {NoWork} /\ Len(Flight) = 1
  <2>1. << >> \in Seq(Works) /\ Elements(<< >>) = {} /\ Flight = <<NoWork>> \o << >>
    BY <1>1 DEF Elements, Flight
  <2>2. NoWork \in Works \cup {NoWork}
    OBVIOUS
  <2> DEFINE S == Works \cup {NoWork}
             e == << >>
  <2>3. e \in Seq(S) /\ Len(e) = 0 /\ Elements(e) = {} /\ Flight = <<NoWork>> \o e
    BY <2>1
  <2> HIDE DEF e, S
  <2>4. NoWork \in S
    BY DEF S
  <2>5. /\ <<NoWork>> \o e \in Seq(S) /\ Len(<<NoWork>> \o e) = Len(e) + 1
        /\ Elements(<<NoWork>> \o e) = {NoWork} \cup Elements(e)
    <3>1. e \in Seq(S)
      BY <2>3
    <3> QED
      BY <2>4, <3>1, FlightIs
  <2> QED
    BY <2>3, <2>5 DEF S
<1>5. ASSUME NEW s \in Sock PROVE sockets[s].flag = "FREE" /\ base[s] = 0 /\ Len(Taken(s)) = 0
  <2>1. got[s] = << >> /\ sockets[s].rx = << >> /\ << >> \o << >> = << >>
    BY <1>1
  <2> QED
    BY <1>1, <2>1 DEF Taken
<1>6. WorkInHand /\ TimeoutArmed
  BY <1>1 DEF WorkInHand, TimeoutArmed
<1>7. QueuedAreDue
  BY <1>4 DEF QueuedAreDue, NoWork, Work
<1>8. PacketsLogged
  BY <1>1, <1>4, <1>5 DEF PacketsLogged, IsPacket, NoWork, Work
<1>9. DeliveredInOrder
  BY <1>4, <1>5 DEF DeliveredInOrder
<1> QED
  BY <1>1, <1>2, <1>3, <1>6, <1>7, <1>8, <1>9 DEF KernelInv, TaskInv

\* Every step keeps the invariant and is a step of the scheduler or none.
LEMMA KernelStepKeeps == KernelInv /\ [KernelNext]_vars => KernelInv' /\ [TaskNext]_taskctl
<1> SUFFICES ASSUME KernelInv, [KernelNext]_vars PROVE KernelInv' /\ [TaskNext]_taskctl
  OBVIOUS
<1>1. CASE KernelNext
  <2>1. KernelTypes'
    BY <1>1, TypesKept
  <2>2. TaskInv' /\ SleepersInv' /\ [TaskNext]_taskctl
    BY <1>1, <2>1, InterruptsSchedule, KernelTaskSchedules, UserSchedules DEF KernelNext
  <2>3. WorkInHand' /\ QueuedAreDue' /\ TimeoutArmed'
    BY <1>1, <2>1, HandKept, QueueKept, TimeoutKept
  <2>4. PacketsLogged' /\ DeliveredInOrder'
    BY <1>1, <2>1, InterruptsDeliver, KernelTaskDelivers, UserDelivers DEF KernelNext
  <2> QED
    BY <2>1, <2>2, <2>3, <2>4 DEF KernelInv
<1>2. CASE UNCHANGED vars
  <2> USE <1>2 DEF vars, KernelInv
  <2>1. KernelTypes' /\ TaskInv'
    BY DEF KernelTypes, TaskInv
  <2>2. SleepersInv' /\ WorkInHand'
    BY DEF SleepersInv, WorkInHand, Flag, Func, Booted
  <2>3. TimeoutArmed'
    BY DEF TimeoutArmed, Flag, Elements
  <2>4. QueuedAreDue'
    BY DEF QueuedAreDue, Flight, Elements
  <2>5. PacketsLogged' /\ DeliveredInOrder'
    <3>1. InOrderOfArrival(Flight) /\ Flight' = Flight
      BY DeliveryIs DEF Flight
    <3>2. \A s \in Sock : Taken(s)' = Taken(s)
      BY DEF Taken
    <3> QED
      BY <3>1, <3>2, DeliveryUntouched
  <2> QED
    BY <2>1, <2>2, <2>3, <2>4, <2>5
<1> QED
  BY <1>1, <1>2

\* Every reachable state of the kernel task, the interrupts, the timers and the
\* datagram sockets satisfies the inductive invariant (kernel.c, workqueue.c,
\* timer.c, udp.c, raw.c).
THEOREM KernelInvariant == KernelSpec => []KernelInv
<1>1. KernelInit => KernelInv
  BY KernelInitHolds
<1>2. KernelInv /\ [KernelNext]_vars => KernelInv'
  BY KernelStepKeeps
<1> QED
  BY <1>1, <1>2, PTL DEF KernelSpec

\* The kernel uses the scheduler as its specification says: what interrupts,
\* the kernel task and the system calls do to the tasks in their atomic steps
\* is a start, a sleep, a wakeup or a switch of TaskSpec, allowed when it is
\* done; so all that is proved of TaskSpec holds of the kernel at work.
THEOREM KernelUsesScheduler == KernelSpec => TaskSpec
<1>1. KernelInit => TaskInit
  BY DEF KernelInit
<1>2. KernelInv /\ [KernelNext]_vars => [TaskNext]_taskctl
  BY KernelStepKeeps
<1> QED
  BY <1>1, <1>2, KernelInvariant, PTL DEF KernelSpec, TaskSpec

\* The variables keep their types: the clock, the sockets and the deadlines on the
\* timer list stay in their ranges.
THEOREM KernelTypeCorrect == KernelSpec => []KernelTypeOK
<1>1. KernelInv => KernelTypeOK
  <2> SUFFICES ASSUME KernelInv PROVE KernelTypeOK
    OBVIOUS
  <2>1. KernelTypes /\ TaskTypeOK
    BY DEF KernelInv, TaskInv, SchedInv, TaskTypeOK
  <2>2. \A e \in Elements(timer_list) : e.tick \in 0 .. TICK_MAX
    <3>1. Elements(timer_list) \subseteq Timers
      BY <2>1, ElementsIn DEF KernelTypes
    <3>2. \A e \in Timers : e.tick \in 0 .. TICK_MAX
      BY KernelConstants DEF Timers
    <3> QED
      BY <3>1, <3>2
  <2> QED
    BY <2>1, <2>2 DEF KernelTypes, KernelTypeOK, Socket
<1> QED
  BY <1>1, KernelInvariant, PTL

\* Nobody sleeps through a wakeup: kstart, udp_socket_recv and raw_socket_recv
\* test their list and sleep before any handler can fill it.
THEOREM NoLostWakeupCorrect == KernelSpec => []NoLostWakeup
<1>1. KernelInv => NoLostWakeup
  BY DEF KernelInv, SleepersInv, NoLostWakeup
<1> QED
  BY <1>1, KernelInvariant, PTL

\* A sleeping receiver always has its timeout ahead of it: armed by the call, on
\* the timer list, in the work queue or in the hands of the kernel task.
THEOREM TimeoutArmedCorrect == KernelSpec => []TimeoutArmed
<1>1. KernelInv => TimeoutArmed
  BY DEF KernelInv
<1> QED
  BY <1>1, KernelInvariant, PTL

\* Packets go through the work queue and the lists of the sockets (udp_rx,
\* raw_recv) to the programs in the order of arrival, none twice, none lost.
THEOREM DeliveryCorrect == KernelSpec => []DeliveredInOrder
<1>1. KernelInv => DeliveredInOrder
  BY DEF KernelInv
<1> QED
  BY <1>1, KernelInvariant, PTL

\* The comparison of udp.c:143 and raw.c:113 lets a timeout through only when the
\* time of the last receive on the socket is over.  Whether that receive still
\* waits at the task_wakeup that follows is not said: it may end with a packet in
\* between, and a later one be woken early.
THEOREM TimeoutDueCorrect == KernelSpec => TimeoutDue
<1>1. KernelInv /\ [KernelNext]_vars
        => [(kpc = "func" /\ kpc' = "wake")
              => tick >= sockets[kwork.arg.sock].wait_id + DELAY]_vars
  BY ThroughIsDue
<1> QED
  BY <1>1, KernelInvariant, PTL DEF KernelSpec, TimeoutDue

=============================================================================
