-------------------------------- MODULE Task --------------------------------
(***************************************************************************)
(* The scheduler of mosmos (kernel/core/task.c): the task table, the two   *)
(* ready lists and the four operations on them.                            *)
(*                                                                         *)
(* Every operation runs with interrupts disabled (task_sleep and           *)
(* task_wakeup do io_cli themselves, schedule is called from task_switch   *)
(* inside an interrupt gate or from task_sleep), so each of them is one    *)
(* atomic transformation of the structure taskctl.  They are written as    *)
(* operators from a taskctl to a taskctl: the kernel's composition         *)
(* (Kernel.tla) applies the same operators inside larger atomic steps.     *)
(***************************************************************************)
EXTENDS Integers, Sequences, FiniteSets

CONSTANTS
    MAX_TASK,   \* size of the task table
    Start,      \* the task_start calls of kstart, in order: [func, priority]
    Causes,     \* addresses tasks sleep on (&wq, &key_cond, sockets)
    NULL        \* waitcause of a task that never slept (.bss)

VARIABLE taskctl

-----------------------------------------------------------------------------
TASK_PRIORITY_LOW  == 0
TASK_PRIORITY_HIGH == 1
Priorities == {TASK_PRIORITY_LOW, TASK_PRIORITY_HIGH}

TASK_RUNNING == "RUNNING"
TASK_WAITING == "WAITING"
Unused       == "UNUSED"        \* a slot of the zeroed table

Slots == 0 .. MAX_TASK - 1

\* The functions tasks are started with.
kstart         == "kstart"
task_idle_main == "task_idle_main"
userland_main  == "userland_main"
Funcs == {kstart, task_idle_main, userland_main}

(***************************************************************************)
(* kstart starts a bounded number of tasks, one of which is the idle task  *)
(* at low priority.                                                        *)
(***************************************************************************)
ASSUME StartAssumption ==
    /\ MAX_TASK \in Nat
    /\ Start \in Seq([func : Funcs \ {kstart}, priority : Priorities])
    /\ Len(Start) < MAX_TASK
    /\ \E i \in 1 .. Len(Start) :
          Start[i] = [func |-> task_idle_main, priority |-> TASK_PRIORITY_LOW]

ASSUME NullAssumption == NULL \notin Causes

Task == [flag : {Unused, TASK_RUNNING, TASK_WAITING},
         priority : Priorities,
         waitcause : Causes \cup {NULL},
         func : Funcs \cup {Unused}]

TaskCtl == [current_task : Slots,
            next_task_id : 0 .. MAX_TASK,
            lists : [Priorities -> Seq(Slots)],
            tasks : [Slots -> Task]]

-----------------------------------------------------------------------------
(* The operations.                                                         *)

EmptySlot == [flag |-> Unused, priority |-> TASK_PRIORITY_LOW,
              waitcause |-> NULL, func |-> Unused]

\* The boot code becomes task 0 and is running.
task_init ==
    [current_task |-> 0,
     next_task_id |-> 1,
     lists |-> [p \in Priorities |-> << >>],
     tasks |-> [t \in Slots |->
                  IF t = 0
                  THEN [EmptySlot EXCEPT !.flag = TASK_RUNNING,
                                         !.priority = TASK_PRIORITY_HIGH,
                                         !.func = kstart]
                  ELSE EmptySlot]]

\* The new task takes the next slot and joins the ready list of its priority.
\* waitcause is left alone.
task_start(tc, func, priority) ==
    LET id   == tc.next_task_id
        task == [tc.tasks[id] EXCEPT !.flag = TASK_RUNNING,
                                     !.priority = priority,
                                     !.func = func]
    IN  [tc EXCEPT !.tasks[id] = task,
                   !.next_task_id = id + 1,
                   !.lists[priority] = Append(@, id)]

\* The members of a finite set of slots in increasing order: the order in
\* which the loop of task_wakeup meets them.
IsInOrder(s, W) ==
    /\ \A w \in W : \E i \in DOMAIN s : s[i] = w
    /\ \A i, j \in DOMAIN s : i < j => s[i] < s[j]

InOrder(W) == CHOOSE s \in [1 .. Cardinality(W) -> W] : IsInOrder(s, W)

\* Mutant of Sleepers: the flag is not looked at.
SleepersAnyFlag(tc, cause) ==
    {t \in 0 .. tc.next_task_id - 1 : tc.tasks[t].waitcause = cause}

\* The tasks that a wakeup on cause finds asleep.
Sleepers(tc, cause) ==
    {t \in 0 .. tc.next_task_id - 1 :
        tc.tasks[t].waitcause = cause /\ tc.tasks[t].flag # TASK_RUNNING}

task_wakeup(tc, cause) ==
    LET W == Sleepers(tc, cause)
    IN  [tc EXCEPT
           !.tasks = [t \in Slots |-> IF t \in W
                                      THEN [@[t] EXCEPT !.flag = TASK_RUNNING]
                                      ELSE @[t]],
           !.lists = [p \in Priorities |->
                        @[p] \o InOrder({t \in W : tc.tasks[t].priority = p})]]

\* Mutant of SwitchTo: the old task goes to the front of its list.
SwitchToFront(tc, p) ==
    LET old    == tc.current_task
        popped == [tc.lists EXCEPT ![p] = Tail(@)]
    IN  [tc EXCEPT
           !.current_task = Head(tc.lists[p]),
           !.lists = IF tc.tasks[old].flag = TASK_WAITING THEN popped
                     ELSE [popped EXCEPT ![tc.tasks[old].priority] = <<old>> \o @]]

\* Take the head of list p and run it; the task that had the processor goes
\* to the back of its list unless it went to sleep.
SwitchTo(tc, p) ==
    LET old    == tc.current_task
        popped == [tc.lists EXCEPT ![p] = Tail(@)]
    IN  [tc EXCEPT
           !.current_task = Head(tc.lists[p]),
           !.lists = IF tc.tasks[old].flag = TASK_WAITING THEN popped
                     ELSE [popped EXCEPT ![tc.tasks[old].priority] = Append(@, old)]]

\* Mutant of schedule: a task of high priority never yields to the low list.
scheduleKeepsHigh(tc) ==
    IF tc.lists[TASK_PRIORITY_HIGH] # << >>
    THEN SwitchTo(tc, TASK_PRIORITY_HIGH)
    ELSE IF /\ tc.tasks[tc.current_task].priority = TASK_PRIORITY_LOW
            /\ tc.lists[TASK_PRIORITY_LOW] # << >>
    THEN SwitchTo(tc, TASK_PRIORITY_LOW)
    ELSE tc

\* Mutant of schedule: current_task is set although no next task was found.
scheduleNobody(tc) ==
    IF tc.lists[TASK_PRIORITY_HIGH] # << >>
    THEN SwitchTo(tc, TASK_PRIORITY_HIGH)
    ELSE IF /\ tc.tasks[tc.current_task].flag = TASK_WAITING
            /\ tc.lists[TASK_PRIORITY_LOW] # << >>
    THEN SwitchTo(tc, TASK_PRIORITY_LOW)
    ELSE [tc EXCEPT !.current_task = -1]

\* The low list is looked at only when no task of high priority is ready and
\* the current task goes to sleep or is itself of low priority; without a
\* next task the current one keeps the processor.
schedule(tc) ==
    LET cur == tc.tasks[tc.current_task]
    IN  IF tc.lists[TASK_PRIORITY_HIGH] # << >>
        THEN SwitchTo(tc, TASK_PRIORITY_HIGH)
        ELSE IF /\ \/ cur.flag = TASK_WAITING
                   \/ cur.priority = TASK_PRIORITY_LOW
                /\ tc.lists[TASK_PRIORITY_LOW] # << >>
        THEN SwitchTo(tc, TASK_PRIORITY_LOW)
        ELSE tc

\* The current task marks itself asleep on cause and gives the processor away.
MarkWaiting(tc, cause) ==
    [tc EXCEPT !.tasks[tc.current_task].flag = TASK_WAITING,
               !.tasks[tc.current_task].waitcause = cause]

task_sleep(tc, cause) == schedule(MarkWaiting(tc, cause))

-----------------------------------------------------------------------------
(***************************************************************************)
(* The component on its own: after boot the environment (tasks, interrupt  *)
(* handlers) sleeps, wakes and preempts in any order.  The one thing       *)
(* assumed about tasks is what kernel.c's task_idle_main does: halt in a   *)
(* loop, never sleep.                                                      *)
(***************************************************************************)
Booted(tc) == tc.next_task_id = Len(Start) + 1

Func(tc, t) == tc.tasks[t].func

TaskInit == taskctl = task_init

\* kstart starts its tasks with interrupts still disabled.
TaskStart ==
    /\ ~Booted(taskctl)
    /\ LET s == Start[taskctl.next_task_id]
       IN  taskctl' = task_start(taskctl, s.func, s.priority)

TaskSleep(cause) ==
    /\ Booted(taskctl)
    /\ Func(taskctl, taskctl.current_task) # task_idle_main
    /\ taskctl' = task_sleep(taskctl, cause)

TaskWakeup(cause) ==
    /\ Booted(taskctl)
    /\ taskctl' = task_wakeup(taskctl, cause)

\* int_pit preempts the current task every tenth tick.
TaskSwitch ==
    /\ Booted(taskctl)
    /\ taskctl' = schedule(taskctl)

TaskNext ==
    \/ TaskStart
    \/ \E cause \in Causes : TaskSleep(cause) \/ TaskWakeup(cause)
    \/ TaskSwitch

TaskSpec == TaskInit /\ [][TaskNext]_taskctl

\* The PIT keeps interrupting: its line is unmasked at boot and every task
\* runs with interrupts enabled most of the time.
TaskFairSpec == TaskSpec /\ WF_taskctl(TaskStart) /\ WF_taskctl(TaskSwitch)

-----------------------------------------------------------------------------
(* Properties.                                                             *)

\* The structure taskctl has its type.
TaskTypeOK == taskctl \in TaskCtl

\* The tasks a list holds.
Members(list) == {list[i] : i \in 1 .. Len(list)}

\* A ready list holds nobody twice.
NoTwice(list) ==
    \A i, j \in 1 .. Len(list) : list[i] = list[j] => i = j

\* Tasks have been given slots below next_task_id and no others.
SlotsInUse(tc) ==
    \A t \in Slots : tc.tasks[t].flag # Unused <=> t < tc.next_task_id

\* A task is on the ready list of its priority, once, exactly when it is
\* runnable and does not have the processor.
QueueExact(tc) ==
    \A p \in Priorities :
        /\ NoTwice(tc.lists[p])
        /\ Members(tc.lists[p]) =
              {t \in Slots : /\ tc.tasks[t].flag = TASK_RUNNING
                             /\ tc.tasks[t].priority = p
                             /\ t # tc.current_task}

\* The processor never belongs to a task that is asleep: task_sleep always
\* finds somebody to switch to.
CurrentRuns(tc) == tc.tasks[tc.current_task].flag = TASK_RUNNING

\* The idle task is there once kstart has started everything, and is never
\* asleep: this is what task_sleep depends on.
IdleReady(tc) ==
    /\ \A i \in 1 .. tc.next_task_id - 1 :
          /\ tc.tasks[i].func = Start[i].func
          /\ tc.tasks[i].priority = Start[i].priority
    /\ \A t \in Slots : tc.tasks[t].func = task_idle_main
                            => tc.tasks[t].flag = TASK_RUNNING

\* Invariant: no runnable task is lost or queued twice, whatever the order of
\* sleeps, wakeups and preemptions (the intrusive link of a TASK can be on
\* one list only, a second list_pushback would corrupt both).
ReadyListsExact == QueueExact(taskctl) /\ SlotsInUse(taskctl)

\* Invariant: the task that has the processor is runnable, so a task that
\* called task_sleep runs again only after a wakeup.
SleepYieldsCpu == CurrentRuns(taskctl) /\ IdleReady(taskctl)

\* The inductive invariant behind the first three properties, which every
\* operation above preserves.
SchedInv(tc) ==
    /\ tc \in TaskCtl
    /\ tc.next_task_id \in 1 .. Len(Start) + 1
    /\ SlotsInUse(tc)
    /\ QueueExact(tc)
    /\ CurrentRuns(tc)
    /\ IdleReady(tc)

TaskInv == SchedInv(taskctl)

\* Liveness: a ready task of high priority is eventually given the processor
\* (the lists are served first come first served, so preemption every tenth
\* tick starves nobody at high priority).
HighNotStarved ==
    \A t \in Slots :
        (\E i \in 1 .. Len(taskctl.lists[TASK_PRIORITY_HIGH]) :
             taskctl.lists[TASK_PRIORITY_HIGH][i] = t)
          ~> taskctl.current_task = t

=============================================================================
