-------------------------------- MODULE Timer --------------------------------
(***************************************************************************)
(* Timers of kernel/core/timer.c: set_timer called by system calls (with   *)
(* interrupts disabled) and by work functions of the kernel task (with     *)
(* interrupts enabled), and the handler int_pit of the 1 kHz clock.        *)
(*                                                                         *)
(* Two things make the order of events hard to test.  set_timer computes   *)
(* the deadline before it disables interrupts, so a work function can be   *)
(* preempted between the two.  And every QUANTUM ticks int_pit calls       *)
(* task_switch before it looks at the list: the rest of the handler runs   *)
(* when the interrupted task is scheduled again, with the clock as it is   *)
(* then.                                                                   *)
(***************************************************************************)
EXTENDS TimerList, FiniteSets

CONSTANTS
    QUANTUM,        \* ticks between two calls of task_switch (10)
    Delays,         \* values of time_msec
    MaxTimers,      \* bound: calls of set_timer
    MaxSuspended    \* bound: tasks suspended inside int_pit

ASSUME TimerAssumption ==
    /\ QUANTUM \in Nat \ {0}
    /\ Delays \subseteq Nat
    /\ MaxTimers \in Nat /\ MaxSuspended \in Nat

VARIABLES
    tick,           \* uint32_t tick
    timer_list,
    preempted,      \* set_timer calls of the kernel task between line 26 and io_cli
    suspended,      \* int_pit activations switched away from at line 60
    nset,           \* number of timers set
    fired,          \* log: the entries called, with the tick of the call
    crashed         \* int_pit has called last_timer's NULL function

vars == <<tick, timer_list, preempted, suspended, nset, fired, crashed>>

\* last_timer, and the entries of set_timer.  set and delay record when and
\* for how long the timer was set; id numbers the calls.
last_timer == [tick |-> TICK_MAX, id |-> 0, set |-> 0, delay |-> TICK_MAX]

Entry(id, delay) ==
    [tick |-> Deadline(tick, delay), id |-> id, set |-> tick, delay |-> delay]

TimerInit ==
    /\ tick = 0
    /\ timer_list = <<last_timer>>
    /\ preempted = {}
    /\ suspended = 0
    /\ nset = 0
    /\ fired = {}
    /\ crashed = FALSE

-----------------------------------------------------------------------------
(* set_timer.                                                              *)

\* From a system call: nothing can happen between the two halves.
SetTimer(delay) ==
    /\ ~crashed /\ nset < MaxTimers
    /\ nset' = nset + 1
    /\ timer_list' = set_timer(timer_list, Entry(nset + 1, delay))
    /\ UNCHANGED <<tick, preempted, suspended, fired, crashed>>

\* From a work function: the deadline is computed ...
SetTimerRead(delay) ==
    /\ ~crashed /\ nset < MaxTimers /\ preempted = {}
    /\ nset' = nset + 1
    /\ preempted' = {Entry(nset + 1, delay)}
    /\ UNCHANGED <<tick, timer_list, suspended, fired, crashed>>

\* ... and inserted, possibly much later.
SetTimerInsert ==
    /\ ~crashed
    /\ \E e \in preempted : timer_list' = set_timer(timer_list, e)
    /\ preempted' = {}
    /\ UNCHANGED <<tick, suspended, nset, fired, crashed>>

-----------------------------------------------------------------------------
(* int_pit.                                                                *)

\* The log of calling the entries of due.
Fired(due, now) ==
    {[id |-> due[i].id, tick |-> due[i].tick, set |-> due[i].set,
      delay |-> due[i].delay, at |-> now] :
     i \in {j \in 1 .. Len(due) : due[j].id # 0}}

\* Mutant of RunExpired: the comparison is one tick off.
RunExpiredEarly(now) ==
    LET due == Expired(timer_list, now + 1)
    IN  /\ timer_list' = Unexpired(timer_list, now + 1)
        /\ fired' = fired \cup Fired(due, now)
        /\ crashed' = (\E i \in 1 .. Len(due) : due[i].id = 0)

\* Mutant of RunExpired: at most one entry is popped.
RunExpiredOne(now) ==
    LET all == Expired(timer_list, now)
        due == IF all = << >> THEN all ELSE <<Head(all)>>
    IN  /\ timer_list' = IF all = << >> THEN timer_list ELSE Tail(timer_list)
        /\ fired' = fired \cup Fired(due, now)
        /\ crashed' = (\E i \in 1 .. Len(due) : due[i].id = 0)

\* The loop at the end of the handler, with the clock at now.  Reaching
\* last_timer calls NULL.
RunExpired(now) ==
    LET due == Expired(timer_list, now)
    IN  /\ timer_list' = Unexpired(timer_list, now)
        /\ fired' = fired \cup Fired(due, now)
        /\ crashed' = (\E i \in 1 .. Len(due) : due[i].id = 0)

\* A tick whose handler reaches the loop: no task_switch, or one that found no
\* other task.
Tick ==
    /\ ~crashed /\ tick < TICK_MAX
    /\ tick' = tick + 1
    /\ RunExpired(tick')
    /\ UNCHANGED <<preempted, suspended, nset>>

\* A tick whose task_switch leaves for another task.
TickSwitch ==
    /\ ~crashed /\ tick < TICK_MAX
    /\ tick' = tick + 1
    /\ tick' % QUANTUM = 0
    /\ suspended < MaxSuspended
    /\ suspended' = suspended + 1
    /\ UNCHANGED <<timer_list, preempted, nset, fired, crashed>>

\* The suspended task is scheduled again and its handler finishes.
TickResume ==
    /\ ~crashed /\ suspended > 0
    /\ suspended' = suspended - 1
    /\ RunExpired(tick)
    /\ UNCHANGED <<tick, preempted, nset>>

TimerNext ==
    \/ \E d \in Delays : SetTimer(d) \/ SetTimerRead(d)
    \/ SetTimerInsert
    \/ Tick \/ TickSwitch \/ TickResume

\* The clock does not stop, and a preempted task runs again.
TimerSpec ==
    /\ TimerInit /\ [][TimerNext]_vars
    /\ WF_vars(Tick \/ TickSwitch) /\ WF_vars(SetTimerInsert) /\ WF_vars(TickResume)

-----------------------------------------------------------------------------
(* Properties.                                                             *)

Entries == {timer_list[i] : i \in 1 .. Len(timer_list)}

\* Types, and the clock within uint32_t.
TimerTypeOK ==
    /\ tick \in 0 .. TICK_MAX
    /\ \A e \in Entries \cup preempted : e.tick \in 0 .. TICK_MAX
    /\ suspended \in 0 .. MaxSuspended
    /\ nset \in 0 .. MaxTimers
    /\ crashed \in BOOLEAN

\* The list int_pit pops from the front is always sorted by deadline.
TimerListSorted == IsSorted(timer_list)

\* No timer is lost or called twice: every set_timer call so far is in
\* exactly one of the list, the preempted call and the log, once.
TimersConserved ==
    /\ \A id \in 1 .. nset :
          Cardinality({i \in 1 .. Len(timer_list) : timer_list[i].id = id})
          + Cardinality({e \in preempted : e.id = id})
          + Cardinality({f \in fired : f.id = id}) = 1
    /\ ~crashed => \E i \in 1 .. Len(timer_list) : timer_list[i] = last_timer

\* No function is called before its time, unless its deadline did not fit in
\* a uint32_t; and the NULL function of last_timer only when the clock is at its
\* last value (timer.c:63-68, 99-104).
NeverEarly ==
    /\ \A f \in fired : f.set + f.delay <= TICK_MAX => f.at >= f.set + f.delay
    /\ crashed => tick = TICK_MAX

\* A tick whose handler is not switched away from leaves no overdue timer, so
\* a deadline is missed by the length of one postponed handler only.
NoOverdueAfterTick ==
    [][tick' # tick /\ tick' % QUANTUM # 0
          => \A e \in Entries' : e.tick > tick']_vars

\* Every timer in the list whose deadline comes before the end of the clock is
\* called, also one that was overdue when it was inserted and one whose tick
\* was left to a postponed handler; the NULL function that ends the clock does
\* not come first (timer.c:26-52, 57-76).
EveryTimerFires ==
    \A id \in 1 .. MaxTimers :
        (\E e \in Entries : e.id = id /\ e.tick < TICK_MAX) ~> \E f \in fired : f.id = id

=============================================================================
