----------------------------- MODULE TaskProofs -----------------------------
(***************************************************************************)
(* Proofs about the scheduler (Task.tla), for every task table size, every *)
(* sequence of task_start calls that includes the idle task and every set  *)
(* of wait causes.                                                         *)
(***************************************************************************)
EXTENDS Task, TLAPS, SequenceTheorems, FiniteSetTheorems, WellFoundedInduction

-----------------------------------------------------------------------------
(* Lists.                                                                  *)

\* list_pushback of a task that is not on the list keeps the list without
\* repetition and adds exactly that task.
LEMMA PushBack ==
    ASSUME NEW S, NEW s \in Seq(S), NEW x \in S,
           NoTwice(s), x \notin Members(s)
    PROVE  /\ Append(s, x) \in Seq(S)
           /\ NoTwice(Append(s, x))
           /\ Members(Append(s, x)) = Members(s) \cup {x}
  <1> DEFINE a == Append(s, x)
  <1>1. /\ a \in Seq(S)
        /\ Len(a) = Len(s) + 1
        /\ \A i \in 1 .. Len(s) : a[i] = s[i]
        /\ a[Len(s) + 1] = x
        /\ Len(s) \in Nat
    BY AppendProperties, LenProperties
  <1>2. NoTwice(a)
    <2> SUFFICES ASSUME NEW i \in 1 .. Len(a), NEW j \in 1 .. Len(a), a[i] = a[j]
                 PROVE  i = j
      BY DEF NoTwice
    <2>1. CASE i \in 1 .. Len(s) /\ j \in 1 .. Len(s)
      BY <2>1, <1>1 DEF NoTwice
    <2>2. CASE i = Len(s) + 1 /\ j \in 1 .. Len(s)
      BY <2>2, <1>1 DEF Members
    <2>3. CASE j = Len(s) + 1 /\ i \in 1 .. Len(s)
      BY <2>3, <1>1 DEF Members
    <2> QED  BY <2>1, <2>2, <2>3, <1>1
  <1>3. Members(a) = Members(s) \cup {x}
    <2>1. ASSUME NEW y \in Members(a) PROVE y \in Members(s) \cup {x}
      BY <2>1, <1>1 DEF Members
    <2>2. ASSUME NEW y \in Members(s) PROVE y \in Members(a)
      BY <2>2, <1>1 DEF Members
    <2>3. x \in Members(a)
      BY <1>1 DEF Members
    <2> QED  BY <2>1, <2>2, <2>3
  <1> QED  BY <1>1, <1>2, <1>3

\* list_popfront removes exactly the head.
LEMMA PopFront ==
    ASSUME NEW S, NEW s \in Seq(S), s # << >>, NoTwice(s)
    PROVE  /\ Head(s) \in S
           /\ Head(s) \in Members(s)
           /\ Tail(s) \in Seq(S)
           /\ NoTwice(Tail(s))
           /\ Members(Tail(s)) = Members(s) \ {Head(s)}
  <1>1. /\ Head(s) \in S
        /\ Tail(s) \in Seq(S)
        /\ Len(Tail(s)) = Len(s) - 1
        /\ \A i \in 1 .. Len(Tail(s)) : Tail(s)[i] = s[i + 1]
        /\ Head(s) = s[1]
        /\ Len(s) \in Nat /\ Len(s) >= 1
    BY HeadTailProperties, LenProperties, EmptySeq
  <1>2. NoTwice(Tail(s))
    <2> SUFFICES ASSUME NEW i \in 1 .. Len(Tail(s)), NEW j \in 1 .. Len(Tail(s)),
                        Tail(s)[i] = Tail(s)[j]
                 PROVE  i = j
      BY DEF NoTwice
    <2>1. i + 1 \in 1 .. Len(s) /\ j + 1 \in 1 .. Len(s) /\ s[i + 1] = s[j + 1]
      BY <1>1
    <2> QED  BY <2>1, <1>1 DEF NoTwice
  <1>3. Head(s) \in Members(s)
    BY <1>1 DEF Members
  <1>4. ASSUME NEW y \in Members(Tail(s)) PROVE y \in Members(s) \ {Head(s)}
    <2>1. PICK i \in 1 .. Len(Tail(s)) : y = Tail(s)[i]
      BY <1>4 DEF Members
    <2>2. i + 1 \in 1 .. Len(s) /\ y = s[i + 1] /\ 1 \in 1 .. Len(s) /\ i + 1 # 1
      BY <2>1, <1>1
    <2> QED  BY <2>2, <1>1 DEF Members, NoTwice
  <1>5. ASSUME NEW y \in Members(s), y # Head(s) PROVE y \in Members(Tail(s))
    <2>1. PICK i \in 1 .. Len(s) : y = s[i]
      BY <1>5 DEF Members
    <2>2. i - 1 \in 1 .. Len(Tail(s)) /\ Tail(s)[i - 1] = y
      BY <2>1, <1>1, <1>5
    <2> QED  BY <2>2 DEF Members
  <1> QED  BY <1>1, <1>2, <1>3, <1>4, <1>5

\* Appending one list without repetition to another, disjoint one.
LEMMA PushAll ==
    ASSUME NEW S, NEW s \in Seq(S), NEW w \in Seq(S),
           NoTwice(s), NoTwice(w), Members(s) \cap Members(w) = {}
    PROVE  /\ s \o w \in Seq(S)
           /\ NoTwice(s \o w)
           /\ Members(s \o w) = Members(s) \cup Members(w)
  <1> DEFINE c == s \o w
  <1>1. /\ c \in Seq(S)
        /\ Len(c) = Len(s) + Len(w)
        /\ \A i \in 1 .. Len(s) + Len(w) :
              c[i] = IF i <= Len(s) THEN s[i] ELSE w[i - Len(s)]
        /\ Len(s) \in Nat /\ Len(w) \in Nat
    BY ConcatProperties, LenProperties
  <1>2. \A i \in 1 .. Len(s) : i \in 1 .. Len(c) /\ c[i] = s[i]
    BY <1>1
  <1>3. \A i \in 1 .. Len(w) : i + Len(s) \in 1 .. Len(c) /\ c[i + Len(s)] = w[i]
    BY <1>1
  <1>4. \A k \in 1 .. Len(c) :
          \/ k \in 1 .. Len(s) /\ c[k] = s[k]
          \/ k - Len(s) \in 1 .. Len(w) /\ c[k] = w[k - Len(s)]
    BY <1>1
  <1>5. NoTwice(c)
    <2> SUFFICES ASSUME NEW i \in 1 .. Len(c), NEW j \in 1 .. Len(c), c[i] = c[j]
                 PROVE  i = j
      BY DEF NoTwice
    <2>1. CASE i \in 1 .. Len(s) /\ j \in 1 .. Len(s) /\ c[i] = s[i] /\ c[j] = s[j]
      BY <2>1 DEF NoTwice
    <2>2. CASE /\ i - Len(s) \in 1 .. Len(w) /\ c[i] = w[i - Len(s)]
               /\ j - Len(s) \in 1 .. Len(w) /\ c[j] = w[j - Len(s)]
      <3>1. i - Len(s) = j - Len(s)
        BY <2>2 DEF NoTwice
      <3> QED  BY <3>1, <1>1
    <2>3. CASE /\ i \in 1 .. Len(s) /\ c[i] = s[i]
               /\ j - Len(s) \in 1 .. Len(w) /\ c[j] = w[j - Len(s)]
      BY <2>3 DEF Members
    <2>4. CASE /\ j \in 1 .. Len(s) /\ c[j] = s[j]
               /\ i - Len(s) \in 1 .. Len(w) /\ c[i] = w[i - Len(s)]
      BY <2>4 DEF Members
    <2> QED  BY <2>1, <2>2, <2>3, <2>4, <1>4
  <1>6. ASSUME NEW y \in Members(c) PROVE y \in Members(s) \cup Members(w)
    <2>1. PICK k \in 1 .. Len(c) : y = c[k]
      BY <1>6 DEF Members
    <2> QED  BY <2>1, <1>4 DEF Members
  <1>7. ASSUME NEW y \in Members(s) PROVE y \in Members(c)
    BY <1>7, <1>2 DEF Members
  <1>8. ASSUME NEW y \in Members(w) PROVE y \in Members(c)
    BY <1>8, <1>3 DEF Members
  <1> QED  BY <1>1, <1>5, <1>6, <1>7, <1>8

-----------------------------------------------------------------------------
(* The order in which task_wakeup meets the sleepers.                      *)

\* The least-number principle, the induction the proofs below use.
LEMMA LeastNat ==
    ASSUME NEW T \in SUBSET Nat, T # {}
    PROVE  \E n \in T : \A m \in T : n <= m
  <1>1. PICK n \in T : \A m \in T : ~(<<m, n>> \in OpToRel(<, Nat))
    BY NatLessThanWellFounded, WFMin
  <1>2. \A m \in T : ~(m < n)
    BY <1>1 DEF OpToRel
  <1> QED  BY <1>2

\* Every set of slots has an increasing enumeration.
LEMMA InOrderExists ==
    ASSUME NEW n \in Nat, NEW W \in SUBSET (0 .. n - 1)
    PROVE  /\ IsFiniteSet(W)
           /\ \E s \in [1 .. Cardinality(W) -> W] : IsInOrder(s, W)
  <1> DEFINE Enumerable(V) ==
               IsFiniteSet(V) /\ \E s \in [1 .. Cardinality(V) -> V] : IsInOrder(s, V)
             T == {k \in Nat : \E V \in SUBSET (0 .. k - 1) : ~Enumerable(V)}
  <1> SUFFICES ASSUME T # {} PROVE FALSE
    OBVIOUS
  <1>1. PICK k \in T : \A m \in T : k <= m
    <2> HIDE DEF Enumerable
    <2> QED  BY LeastNat
  <1>2. PICK V \in SUBSET (0 .. k - 1) : ~Enumerable(V)
    BY <1>1
  <1>3. CASE k = 0
    <2>1. V = {}
      BY <1>3, <1>2
    <2>2. IsFiniteSet(V) /\ Cardinality(V) = 0
      BY <2>1, FS_EmptySet
    <2>3. [i \in 1 .. 0 |-> 0] \in [1 .. 0 -> V] /\ IsInOrder([i \in 1 .. 0 |-> 0], V)
      BY <2>1 DEF IsInOrder
    <2> QED  BY <2>2, <2>3, <1>2
  <1>4. CASE k > 0
    <2> DEFINE U == V \ {k - 1}
    <2>1. k - 1 \in Nat /\ k - 1 \notin T
      <3>1. k \in Nat
        OBVIOUS
      <3> HIDE DEF T
      <3> QED  BY <3>1, <1>4, <1>1
    <2>2. U \in SUBSET (0 .. (k - 1) - 1)
      BY <1>4, <1>2, <1>1
    <2>3. Enumerable(U)
      <3> HIDE DEF Enumerable, U
      <3> QED  BY <2>1, <2>2
    <2>4. CASE k - 1 \notin V
      BY <2>3, <2>4, <1>2
    <2>5. CASE k - 1 \in V
      <3>1. V = U \cup {k - 1} /\ k - 1 \notin U
        BY <2>5
      <3> DEFINE c == Cardinality(U)
      <3>2. IsFiniteSet(V) /\ Cardinality(V) = c + 1 /\ c \in Nat
        <4> HIDE DEF U
        <4> QED  BY <3>1, <2>3, FS_AddElement, FS_CardinalityType
      <3>3. PICK s \in [1 .. c -> U] : IsInOrder(s, U)
        BY <2>3
      <3> DEFINE r == [i \in 1 .. c + 1 |-> IF i <= c THEN s[i] ELSE k - 1]
      <3> HIDE DEF U, c
      <3>4. r \in [1 .. c + 1 -> V]
        BY <3>1, <3>2, <3>3
      <3>5. \A w \in V : \E i \in DOMAIN r : r[i] = w
        <4> TAKE w \in V
        <4>1. CASE w = k - 1
          <5>1. c + 1 \in DOMAIN r /\ r[c + 1] = w
            BY <4>1, <3>2
          <5> QED  BY <5>1
        <4>2. CASE w \in U
          <5>1. PICK i \in DOMAIN s : s[i] = w
            BY <4>2, <3>3 DEF IsInOrder
          <5>2. i \in DOMAIN r /\ r[i] = w
            BY <5>1, <3>2, <3>3
          <5> QED  BY <5>2
        <4> QED  BY <4>1, <4>2, <3>1
      <3>6. \A i, j \in DOMAIN r : i < j => r[i] < r[j]
        <4> TAKE i, j \in DOMAIN r
        <4> HAVE i < j
        <4>1. i \in 1 .. c /\ r[i] = s[i] /\ s[i] \in U
          BY <3>2, <3>3
        <4>2. CASE j \in 1 .. c
          BY <4>1, <4>2, <3>2, <3>3 DEF IsInOrder
        <4>3. CASE j = c + 1
          <5>1. r[j] = k - 1
            BY <4>3, <3>2
          <5>2. s[i] \in 0 .. (k - 1) - 1
            BY <4>1, <2>2
          <5> QED  BY <5>1, <5>2, <4>1, <1>1
        <4> QED  BY <4>2, <4>3, <3>2
      <3> QED  BY <3>2, <3>4, <3>5, <3>6, <1>2 DEF IsInOrder
    <2> QED  BY <2>4, <2>5
  <1> QED  BY <1>3, <1>4, <1>1

\* InOrder lists every member of the set, once.
LEMMA InOrderLists ==
    ASSUME NEW n \in Nat, NEW W \in SUBSET (0 .. n - 1)
    PROVE  /\ InOrder(W) \in Seq(W)
           /\ NoTwice(InOrder(W))
           /\ Members(InOrder(W)) = W
  <1> DEFINE s == InOrder(W)
             c == Cardinality(W)
  <1>1. /\ s \in [1 .. c -> W]
        /\ IsInOrder(s, W)
    BY InOrderExists DEF InOrder
  <1>2. c \in Nat
    BY InOrderExists, FS_CardinalityType
  <1>3. s \in Seq(W) /\ Len(s) = c /\ DOMAIN s = 1 .. c
    <2> HIDE DEF s, c
    <2> QED  BY <1>1, <1>2
  <1> HIDE DEF s, c
  <1>4. NoTwice(s)
    <2> SUFFICES ASSUME NEW i \in 1 .. c, NEW j \in 1 .. c, i < j
                 PROVE  s[i] # s[j]
      BY <1>2, <1>3 DEF NoTwice
    <2>1. s[i] < s[j]
      BY <1>1, <1>3 DEF IsInOrder
    <2>2. s[i] \in W /\ s[j] \in W /\ W \subseteq Int
      BY <1>1
    <2>3. s[i] \in Int /\ s[j] \in Int
      BY <2>2
    <2> QED  BY <2>1, <2>3
  <1>5. Members(s) = W
    BY <1>1, <1>3 DEF Members, IsInOrder
  <1> QED  BY <1>3, <1>4, <1>5 DEF s

-----------------------------------------------------------------------------
(* Each operation keeps the scheduler's invariant.                         *)

\* What holds when schedule is called: the current task may have been marked
\* asleep by task_sleep.
BeforeSwitch(tc) ==
    /\ tc \in TaskCtl
    /\ tc.next_task_id \in 1 .. Len(Start) + 1
    /\ SlotsInUse(tc)
    /\ QueueExact(tc)
    /\ tc.tasks[tc.current_task].flag # Unused
    /\ IdleReady(tc)

\* What each field of task_ctl holds.
LEMMA TaskCtlFields ==
    ASSUME NEW tc \in TaskCtl
    PROVE  /\ tc.current_task \in Slots
           /\ tc.next_task_id \in 0 .. MAX_TASK
           /\ \A p \in Priorities : tc.lists[p] \in Seq(Slots)
           /\ tc.lists \in [Priorities -> Seq(Slots)]
           /\ \A t \in Slots : tc.tasks[t] \in Task
           /\ tc.tasks \in [Slots -> Task]
  BY DEF TaskCtl

\* Switching to the head of a ready list gives the processor to a runnable
\* task and leaves every other runnable task on its list.
LEMMA SwitchKeeps ==
    ASSUME NEW tc, BeforeSwitch(tc), NEW p \in Priorities, tc.lists[p] # << >>
    PROVE  /\ SchedInv(SwitchTo(tc, p))
           /\ SwitchTo(tc, p).current_task # tc.current_task
  <1> DEFINE old    == tc.current_task
             new    == Head(tc.lists[p])
             popped == [tc.lists EXCEPT ![p] = Tail(@)]
             back   == [popped EXCEPT ![tc.tasks[old].priority] = Append(@, old)]
             lists  == IF tc.tasks[old].flag = TASK_WAITING THEN popped ELSE back
             nc     == [tc EXCEPT !.current_task = new, !.lists = lists]
             Ready(q, c) == {t \in Slots : /\ tc.tasks[t].flag = TASK_RUNNING
                                           /\ tc.tasks[t].priority = q
                                           /\ t # c}
  <1>1. tc \in TaskCtl
    BY DEF BeforeSwitch
  <1>2. /\ old \in Slots /\ tc.tasks[old] \in Task
        /\ tc.lists \in [Priorities -> Seq(Slots)]
        /\ \A q \in Priorities : tc.lists[q] \in Seq(Slots)
        /\ \A q \in Priorities : NoTwice(tc.lists[q])
        /\ \A q \in Priorities : Members(tc.lists[q]) = Ready(q, old)
    BY <1>1, TaskCtlFields DEF BeforeSwitch, QueueExact
  <1>3. /\ new \in Ready(p, old)
        /\ Tail(tc.lists[p]) \in Seq(Slots)
        /\ NoTwice(Tail(tc.lists[p]))
        /\ Members(Tail(tc.lists[p])) = Ready(p, old) \ {new}
    <2> HIDE DEF Ready
    <2> QED  BY <1>2, PopFront
  <1>4. /\ popped \in [Priorities -> Seq(Slots)]
        /\ \A q \in Priorities : NoTwice(popped[q])
        /\ \A q \in Priorities : Members(popped[q]) = Ready(q, old) \ {new}
    <2>1. popped[p] = Tail(tc.lists[p])
      BY <1>2
    <2>2. \A q \in Priorities \ {p} :
             /\ popped[q] = tc.lists[q]
             /\ new \notin Ready(q, old)
      BY <1>2, <1>3
    <2>3. popped \in [Priorities -> Seq(Slots)]
      BY <1>2, <1>3
    <2> HIDE DEF Ready, popped, new
    <2> QED  BY <1>2, <1>3, <2>1, <2>2, <2>3
  <1>5. /\ lists \in [Priorities -> Seq(Slots)]
        /\ \A q \in Priorities : NoTwice(lists[q])
        /\ \A q \in Priorities : Members(lists[q]) = Ready(q, new)
    <2>1. CASE tc.tasks[old].flag = TASK_WAITING
      <3>1. \A q \in Priorities : Ready(q, old) \ {new} = Ready(q, new)
        BY <2>1 DEF TASK_WAITING, TASK_RUNNING
      <3> HIDE DEF Ready, popped, new, old
      <3> QED  BY <2>1, <3>1, <1>4
    <2>2. CASE tc.tasks[old].flag # TASK_WAITING
      <3> DEFINE r == tc.tasks[old].priority
      <3>1. tc.tasks[old].flag = TASK_RUNNING /\ r \in Priorities
        BY <2>2, <1>2 DEF BeforeSwitch, Task
      <3>2. old \notin Members(popped[r]) /\ old # new
        BY <1>4, <1>3, <3>1
      <3>3. /\ Append(popped[r], old) \in Seq(Slots)
            /\ NoTwice(Append(popped[r], old))
            /\ Members(Append(popped[r], old)) = Members(popped[r]) \cup {old}
        <4> HIDE DEF Ready, popped, new, old, r
        <4> QED  BY <3>1, <3>2, <1>2, <1>4, PushBack
      <3>4. \A q \in Priorities \ {r} : Ready(q, old) \ {new} = Ready(q, new)
        BY <3>1
      <3>5. (Ready(r, old) \ {new}) \cup {old} = Ready(r, new)
        BY <3>1, <3>2, <1>2
      <3>6. /\ back \in [Priorities -> Seq(Slots)]
            /\ back[r] = Append(popped[r], old)
            /\ \A q \in Priorities \ {r} : back[q] = popped[q]
        <4> HIDE DEF Ready, popped, new, old
        <4> QED  BY <3>1, <3>3, <1>4
      <3>7. lists = back
        BY <2>2
      <3> HIDE DEF Ready, popped, new, old, r, back, lists
      <3> QED  BY <3>3, <3>4, <3>5, <3>6, <3>7, <1>4
    <2> QED  BY <2>1, <2>2
  <1>6. SwitchTo(tc, p) = nc
    BY DEF SwitchTo
  <1>7. /\ nc.current_task = new /\ nc.lists = lists
        /\ nc.tasks = tc.tasks /\ nc.next_task_id = tc.next_task_id
        /\ nc \in TaskCtl
    <2>1. new \in Slots
      BY <1>3
    <2> HIDE DEF lists, new
    <2> QED  BY <1>1, <1>5, <2>1 DEF TaskCtl
  <1>8. QueueExact(nc)
    <2> HIDE DEF nc, lists, new
    <2> QED  BY <1>5, <1>7 DEF QueueExact
  <1>9. CurrentRuns(nc) /\ new # old
    <2> HIDE DEF nc, new
    <2> QED  BY <1>3, <1>7 DEF CurrentRuns
  <1>10. SlotsInUse(nc) /\ IdleReady(nc)
    <2> HIDE DEF nc
    <2> QED  BY <1>7 DEF BeforeSwitch, SlotsInUse, IdleReady
  <1> HIDE DEF nc, new
  <1> QED  BY <1>6, <1>7, <1>8, <1>9, <1>10 DEF SchedInv, BeforeSwitch

\* schedule keeps the invariant, and when the current task has gone to sleep
\* it always finds another one: at worst the idle task, which never sleeps.
LEMMA ScheduleKeeps ==
    ASSUME NEW tc, BeforeSwitch(tc),
           \/ CurrentRuns(tc)
           \/ tc.lists[TASK_PRIORITY_LOW] # << >>
    PROVE  SchedInv(schedule(tc))
  <1>1. CASE tc.lists[TASK_PRIORITY_HIGH] # << >>
    BY <1>1, SwitchKeeps DEF schedule, Priorities
  <1>2. CASE /\ tc.lists[TASK_PRIORITY_HIGH] = << >>
             /\ \/ tc.tasks[tc.current_task].flag = TASK_WAITING
                \/ tc.tasks[tc.current_task].priority = TASK_PRIORITY_LOW
             /\ tc.lists[TASK_PRIORITY_LOW] # << >>
    BY <1>2, SwitchKeeps DEF schedule, Priorities
  <1>3. CASE /\ tc.lists[TASK_PRIORITY_HIGH] = << >>
             /\ ~ /\ \/ tc.tasks[tc.current_task].flag = TASK_WAITING
                     \/ tc.tasks[tc.current_task].priority = TASK_PRIORITY_LOW
                  /\ tc.lists[TASK_PRIORITY_LOW] # << >>
    <2>1. schedule(tc) = tc
      BY <1>3 DEF schedule
    <2>2. CurrentRuns(tc)
      <3>1. CASE tc.lists[TASK_PRIORITY_LOW] # << >>
        <4>1. tc.tasks[tc.current_task] \in Task
          BY TaskCtlFields DEF BeforeSwitch
        <4> QED  BY <3>1, <1>3, <4>1 DEF BeforeSwitch, CurrentRuns, Task
      <3> QED  BY <3>1
    <2> QED  BY <2>1, <2>2 DEF BeforeSwitch, SchedInv
  <1> QED  BY <1>1, <1>2, <1>3

\* task_sleep keeps the invariant for every task but the idle task.
LEMMA SleepKeeps ==
    ASSUME NEW tc, SchedInv(tc), Booted(tc), NEW cause \in Causes,
           Func(tc, tc.current_task) # task_idle_main
    PROVE  SchedInv(task_sleep(tc, cause))
  <1> DEFINE cur   == tc.current_task
             tasks == [tc.tasks EXCEPT ![cur] =
                         [@ EXCEPT !.flag = TASK_WAITING, !.waitcause = cause]]
             mc    == MarkWaiting(tc, cause)
  <1>1. /\ tc \in TaskCtl /\ cur \in Slots
        /\ tc.tasks \in [Slots -> Task] /\ tc.tasks[cur] \in Task
        /\ tc.tasks[cur].flag = TASK_RUNNING
    BY TaskCtlFields DEF SchedInv, CurrentRuns
  <1>2. task_sleep(tc, cause) = schedule(mc)
    BY DEF task_sleep
  <1>3. /\ mc.tasks = tasks /\ mc.lists = tc.lists
        /\ mc.current_task = cur /\ mc.next_task_id = tc.next_task_id
    BY <1>1 DEF TaskCtl, MarkWaiting
  <1>4. /\ tasks \in [Slots -> Task]
        /\ tasks[cur].flag = TASK_WAITING
        /\ \A t \in Slots : /\ tasks[t].priority = tc.tasks[t].priority
                             /\ tasks[t].func = tc.tasks[t].func
        /\ \A t \in Slots \ {cur} : tasks[t] = tc.tasks[t]
    BY <1>1 DEF Task
  <1>5. mc \in TaskCtl
    <2>1. mc = [tc EXCEPT !.tasks = tasks]
      BY <1>1 DEF MarkWaiting, TaskCtl
    <2> HIDE DEF tasks, mc
    <2> QED  BY <2>1, <1>1, <1>4 DEF TaskCtl
  <1> HIDE DEF tasks, mc, cur
  <1>6. QueueExact(mc)
    <2>1. ASSUME NEW q \in Priorities
          PROVE  {t \in Slots : /\ tc.tasks[t].flag = TASK_RUNNING
                                /\ tc.tasks[t].priority = q
                                /\ t # cur} =
                 {t \in Slots : /\ tasks[t].flag = TASK_RUNNING
                                /\ tasks[t].priority = q
                                /\ t # cur}
      BY <1>4
    <2> QED  BY <2>1, <1>3 DEF QueueExact, SchedInv, cur
  <1>7. SlotsInUse(mc)
    <2>1. \A t \in Slots : tasks[t].flag # Unused <=> tc.tasks[t].flag # Unused
      BY <1>1, <1>4 DEF TASK_WAITING, TASK_RUNNING, Unused
    <2> QED  BY <2>1, <1>3 DEF SlotsInUse, SchedInv
  <1>8. IdleReady(mc)
    <2>1. ASSUME NEW i \in 1 .. mc.next_task_id - 1
          PROVE  mc.tasks[i].func = Start[i].func /\ mc.tasks[i].priority = Start[i].priority
      <3>1. i \in Slots
        BY <1>1, <1>3, TaskCtlFields, StartAssumption DEF Slots
      <3> QED  BY <3>1, <1>3, <1>4 DEF SchedInv, IdleReady
    <2>2. ASSUME NEW t \in Slots, mc.tasks[t].func = task_idle_main
          PROVE  mc.tasks[t].flag = TASK_RUNNING
      <3>1. t # cur
        BY <2>2, <1>3, <1>4, <1>1 DEF Func, cur
      <3> QED  BY <3>1, <2>2, <1>3, <1>4 DEF SchedInv, IdleReady
    <2> QED  BY <2>1, <2>2 DEF IdleReady
  <1>9. BeforeSwitch(mc)
    BY <1>3, <1>4, <1>5, <1>6, <1>7, <1>8
       DEF BeforeSwitch, SchedInv, TASK_WAITING, Unused
  <1>10. mc.lists[TASK_PRIORITY_LOW] # << >>
    <2>1. PICK i \in 1 .. Len(Start) :
             Start[i] = [func |-> task_idle_main, priority |-> TASK_PRIORITY_LOW]
      BY StartAssumption
    <2>2. i \in 1 .. tc.next_task_id - 1 /\ i \in Slots
      BY StartAssumption, LenProperties DEF Booted, Slots
    <2>3. tc.tasks[i].func = task_idle_main /\ tc.tasks[i].priority = TASK_PRIORITY_LOW
      BY <2>1, <2>2 DEF SchedInv, IdleReady
    <2>4. tc.tasks[i].flag = TASK_RUNNING /\ i # cur
      BY <2>2, <2>3 DEF SchedInv, IdleReady, Func, cur
    <2>5. i \in Members(tc.lists[TASK_PRIORITY_LOW])
      BY <2>2, <2>3, <2>4 DEF SchedInv, QueueExact, Priorities, cur
    <2>6. Members(<< >>) = {}
      BY DEF Members
    <2> QED  BY <2>5, <2>6, <1>3
  <1> QED  BY <1>2, <1>9, <1>10, ScheduleKeeps

\* task_wakeup keeps the invariant: the tasks it queues were on no list.
LEMMA WakeupKeeps ==
    ASSUME NEW tc, SchedInv(tc), NEW cause \in Causes
    PROVE  SchedInv(task_wakeup(tc, cause))
  <1> DEFINE W     == Sleepers(tc, cause)
             P(p)  == {t \in W : tc.tasks[t].priority = p}
             tasks == [t \in Slots |-> IF t \in W
                                       THEN [tc.tasks[t] EXCEPT !.flag = TASK_RUNNING]
                                       ELSE tc.tasks[t]]
             lists == [p \in Priorities |-> tc.lists[p] \o InOrder(P(p))]
             nc    == [tc EXCEPT !.tasks = tasks, !.lists = lists]
  <1>1. /\ tc \in TaskCtl
        /\ \A t \in Slots : tc.tasks[t] \in Task
        /\ tc.next_task_id \in 0 .. MAX_TASK
        /\ tc.current_task \in Slots
        /\ \A p \in Priorities : tc.lists[p] \in Seq(Slots)
    BY TaskCtlFields DEF SchedInv
  <1>2. task_wakeup(tc, cause) = nc
    BY <1>1 DEF task_wakeup, TaskCtl
  <1>3. W \subseteq 0 .. tc.next_task_id - 1 /\ W \subseteq Slots
    BY <1>1, StartAssumption DEF Sleepers, Slots
  <1>4. \A t \in W : tc.tasks[t].flag = TASK_WAITING
    <2>1. \A t \in W : tc.tasks[t].flag # Unused
      BY <1>1, <1>3 DEF SchedInv, SlotsInUse, Slots
    <2> QED  BY <2>1, <1>1, <1>3 DEF Sleepers, Task
  <1>5. /\ \A t \in Slots : /\ tasks[t] \in Task
                            /\ tasks[t].priority = tc.tasks[t].priority
                            /\ tasks[t].func = tc.tasks[t].func
        /\ \A t \in W : tasks[t].flag = TASK_RUNNING
        /\ \A t \in Slots \ W : tasks[t] = tc.tasks[t]
        /\ tasks \in [Slots -> Task]
    <2> HIDE DEF W
    <2> QED  BY <1>1, <1>3 DEF Task
  <1>6. ASSUME NEW p \in Priorities
        PROVE  /\ lists[p] \in Seq(Slots)
               /\ NoTwice(lists[p])
               /\ Members(lists[p]) =
                    {t \in Slots : /\ tasks[t].flag = TASK_RUNNING
                                   /\ tasks[t].priority = p
                                   /\ t # tc.current_task}
    <2> HIDE DEF W, tasks
    <2>1. P(p) \in SUBSET (0 .. tc.next_task_id - 1) /\ P(p) \subseteq Slots
      BY <1>3
    <2>2. /\ InOrder(P(p)) \in Seq(P(p))
          /\ NoTwice(InOrder(P(p)))
          /\ Members(InOrder(P(p))) = P(p)
      <3>1. ASSUME NEW Q \in SUBSET (0 .. tc.next_task_id - 1)
            PROVE  InOrder(Q) \in Seq(Q) /\ NoTwice(InOrder(Q)) /\ Members(InOrder(Q)) = Q
        <4>1. tc.next_task_id \in Nat
          BY <1>1
        <4> QED  BY <4>1, InOrderLists
      <3> HIDE DEF P
      <3> QED  BY <2>1, <3>1
    <2>3. InOrder(P(p)) \in Seq(Slots)
      <3> HIDE DEF P
      <3> QED  BY <2>1, <2>2
    <2> DEFINE R == {t \in Slots : /\ tc.tasks[t].flag = TASK_RUNNING
                                   /\ tc.tasks[t].priority = p
                                   /\ t # tc.current_task}
    <2>4. NoTwice(tc.lists[p]) /\ Members(tc.lists[p]) = R
      BY DEF SchedInv, QueueExact
    <2>5. R \cap P(p) = {}
      BY <1>4 DEF TASK_RUNNING, TASK_WAITING
    <2>6. R \cup P(p) = {t \in Slots : /\ tasks[t].flag = TASK_RUNNING
                                       /\ tasks[t].priority = p
                                       /\ t # tc.current_task}
      <3>1. tc.current_task \notin W
        BY <1>4 DEF SchedInv, CurrentRuns, TASK_RUNNING, TASK_WAITING
      <3> QED  BY <1>3, <1>5, <3>1
    <2>7. lists[p] = tc.lists[p] \o InOrder(P(p))
      OBVIOUS
    <2> HIDE DEF P, R, lists
    <2> QED  BY <2>2, <2>3, <2>4, <2>5, <2>6, <2>7, <1>1, PushAll
  <1>7. /\ nc \in TaskCtl
        /\ nc.tasks = tasks /\ nc.lists = lists
        /\ nc.current_task = tc.current_task /\ nc.next_task_id = tc.next_task_id
    <2>1. lists \in [Priorities -> Seq(Slots)]
      BY <1>6
    <2> HIDE DEF lists, tasks
    <2> QED  BY <2>1, <1>1, <1>5 DEF TaskCtl
  <1> HIDE DEF W, tasks, lists, nc
  <1>8. QueueExact(nc)
    BY <1>6, <1>7 DEF QueueExact
  <1>9. SlotsInUse(nc)
    <2>1. \A t \in Slots : tasks[t].flag # Unused <=> tc.tasks[t].flag # Unused
      BY <1>4, <1>5 DEF TASK_RUNNING, TASK_WAITING, Unused
    <2> QED  BY <2>1, <1>7 DEF SlotsInUse, SchedInv
  <1>10. CurrentRuns(nc)
    BY <1>1, <1>5, <1>7 DEF SchedInv, CurrentRuns
  <1>11. IdleReady(nc)
    <2>1. 1 .. nc.next_task_id - 1 \subseteq Slots
      BY <1>1, <1>7, StartAssumption DEF Slots
    <2> QED  BY <2>1, <1>5, <1>7 DEF SchedInv, IdleReady
  <1> QED  BY <1>2, <1>7, <1>8, <1>9, <1>10, <1>11 DEF SchedInv

\* task_start keeps the invariant while kstart has tasks left to start.
LEMMA StartKeeps ==
    ASSUME NEW tc, SchedInv(tc), ~Booted(tc)
    PROVE  SchedInv(task_start(tc, Start[tc.next_task_id].func,
                                   Start[tc.next_task_id].priority))
  <1> DEFINE id    == tc.next_task_id
             f     == Start[id].func
             q     == Start[id].priority
             tasks == [tc.tasks EXCEPT ![id] = [@ EXCEPT !.flag = TASK_RUNNING,
                                                         !.priority = q,
                                                         !.func = f]]
             lists == [tc.lists EXCEPT ![q] = Append(@, id)]
             nc    == task_start(tc, f, q)
  <1>1. /\ tc \in TaskCtl
        /\ tc.tasks \in [Slots -> Task]
        /\ tc.lists \in [Priorities -> Seq(Slots)]
        /\ tc.current_task \in Slots
    BY TaskCtlFields DEF SchedInv
  <1>2. /\ id \in 1 .. Len(Start) /\ id \in Slots /\ id + 1 \in 1 .. Len(Start) + 1
        /\ id + 1 \in 0 .. MAX_TASK /\ id \in Nat
    BY StartAssumption, LenProperties DEF SchedInv, Booted, Slots
  <1>3. f \in Funcs /\ q \in Priorities
    <2>1. Start[id] \in [func : Funcs \ {kstart}, priority : Priorities]
      BY <1>2, StartAssumption, ElementOfSeq
    <2> QED  BY <2>1
  <1>4. /\ nc.tasks = tasks /\ nc.lists = lists
        /\ nc.next_task_id = id + 1 /\ nc.current_task = tc.current_task
        /\ nc = [current_task |-> nc.current_task, next_task_id |-> nc.next_task_id,
                 lists |-> nc.lists, tasks |-> nc.tasks]
    <2> HIDE DEF f, q
    <2>1. nc.tasks = tasks
      BY <1>1, <1>2, <1>3 DEF task_start, TaskCtl, Task
    <2>2. nc.lists = lists
      BY <1>1 DEF task_start, TaskCtl
    <2>3. nc.next_task_id = id + 1 /\ nc.current_task = tc.current_task
      BY <1>1 DEF task_start, TaskCtl
    <2>4. nc = [current_task |-> nc.current_task, next_task_id |-> nc.next_task_id,
                lists |-> nc.lists, tasks |-> nc.tasks]
      <3> DEFINE task == [tc.tasks[id] EXCEPT !.flag = TASK_RUNNING, !.priority = q, !.func = f]
      <3>1. nc = [tc EXCEPT !.tasks[id] = task, !.next_task_id = id + 1,
                            !.lists[q] = Append(@, id)]
        BY DEF task_start
      <3> HIDE DEF task, id, nc
      <3> QED  BY <3>1, <1>1 DEF TaskCtl
    <2> QED  BY <2>1, <2>2, <2>3, <2>4
  <1>5. tc.tasks[id].flag = Unused /\ id # tc.current_task
    BY <1>2 DEF SchedInv, SlotsInUse, CurrentRuns, TASK_RUNNING, Unused
  <1>6. /\ tasks \in [Slots -> Task]
        /\ tasks[id].flag = TASK_RUNNING /\ tasks[id].priority = q /\ tasks[id].func = f
        /\ \A t \in Slots \ {id} : tasks[t] = tc.tasks[t]
    <2> HIDE DEF f, q, id
    <2> QED  BY <1>1, <1>2, <1>3 DEF Task
  <1> HIDE DEF nc, f, q, tasks
  <1>7. ASSUME NEW p \in Priorities
        PROVE  /\ lists[p] \in Seq(Slots)
               /\ NoTwice(lists[p])
               /\ Members(lists[p]) =
                    {t \in Slots : /\ tasks[t].flag = TASK_RUNNING
                                   /\ tasks[t].priority = p
                                   /\ t # tc.current_task}
    <2> DEFINE R == {t \in Slots : /\ tc.tasks[t].flag = TASK_RUNNING
                                   /\ tc.tasks[t].priority = p
                                   /\ t # tc.current_task}
               N == {t \in Slots : /\ tasks[t].flag = TASK_RUNNING
                                   /\ tasks[t].priority = p
                                   /\ t # tc.current_task}
    <2>1. tc.lists[p] \in Seq(Slots) /\ NoTwice(tc.lists[p]) /\ Members(tc.lists[p]) = R
      BY <1>1 DEF SchedInv, QueueExact
    <2>2. id \notin R
      BY <1>5 DEF TASK_RUNNING, Unused
    <2>3. CASE p = q
      <3>1. lists[p] = Append(tc.lists[p], id)
        BY <2>3, <1>1, <1>3
      <3>2. N = R \cup {id}
        BY <2>3, <1>2, <1>5, <1>6
      <3> HIDE DEF R, N, lists
      <3> QED  BY <2>1, <2>2, <3>1, <3>2, <1>2, PushBack DEF N
    <2>4. CASE p # q
      <3>1. lists[p] = tc.lists[p]
        BY <2>4, <1>1
      <3>2. N = R
        BY <2>4, <1>2, <1>6, <2>2
      <3> HIDE DEF R, N, lists
      <3> QED  BY <2>1, <3>1, <3>2 DEF N
    <2> QED  BY <2>3, <2>4
  <1>8. nc \in TaskCtl
    <2>1. lists \in [Priorities -> Seq(Slots)]
      BY <1>1, <1>3, <1>7
    <2> HIDE DEF lists
    <2> QED  BY <2>1, <1>1, <1>2, <1>4, <1>6 DEF TaskCtl
  <1> HIDE DEF lists, id
  <1>9. QueueExact(nc)
    BY <1>4, <1>7 DEF QueueExact
  <1>10. SlotsInUse(nc)
    <2> SUFFICES ASSUME NEW t \in Slots
                 PROVE  tasks[t].flag # Unused <=> t < id + 1
      BY <1>4 DEF SlotsInUse
    <2>1. CASE t = id
      BY <2>1, <1>2, <1>6 DEF TASK_RUNNING, Unused
    <2>2. CASE t # id
      <3>1. tc.tasks[t].flag # Unused <=> t < id
        BY DEF SchedInv, SlotsInUse, id
      <3> QED  BY <3>1, <2>2, <1>2, <1>6 DEF Slots
    <2> QED  BY <2>1, <2>2
  <1>11. CurrentRuns(nc)
    BY <1>1, <1>4, <1>5, <1>6 DEF SchedInv, CurrentRuns
  <1>12. IdleReady(nc)
    <2>1. ASSUME NEW i \in 1 .. nc.next_task_id - 1
          PROVE  nc.tasks[i].func = Start[i].func /\ nc.tasks[i].priority = Start[i].priority
      <3>1. CASE i = id
        BY <3>1, <1>4, <1>6 DEF f, q
      <3>2. CASE i # id
        <4>1. i \in 1 .. tc.next_task_id - 1 /\ i \in Slots \ {id}
          BY <3>2, <1>2, <1>4, StartAssumption DEF id, Slots
        <4> QED  BY <4>1, <1>4, <1>6 DEF SchedInv, IdleReady
      <3> QED  BY <3>1, <3>2
    <2>2. ASSUME NEW t \in Slots, nc.tasks[t].func = task_idle_main
          PROVE  nc.tasks[t].flag = TASK_RUNNING
      BY <2>2, <1>4, <1>6 DEF SchedInv, IdleReady
    <2> QED  BY <2>1, <2>2 DEF IdleReady
  <1>13. SchedInv(nc)
    BY <1>2, <1>4, <1>8, <1>9, <1>10, <1>11, <1>12 DEF SchedInv
  <1> QED  BY <1>13 DEF nc, f, q, id

\* task_init establishes the invariant.
LEMMA InitHolds == SchedInv(task_init)
  <1> DEFINE tc == task_init
  <1>1. MAX_TASK \in Nat /\ MAX_TASK > 0 /\ 0 \in Slots /\ Len(Start) \in Nat
    BY StartAssumption, LenProperties DEF Slots
  <1>2. /\ tc.current_task = 0 /\ tc.next_task_id = 1
        /\ tc.lists = [p \in Priorities |-> << >>]
        /\ tc.tasks[0].flag = TASK_RUNNING /\ tc.tasks[0].func = kstart
        /\ \A t \in Slots \ {0} : tc.tasks[t] = EmptySlot
    BY <1>1 DEF task_init, EmptySlot
  <1>3. tc \in TaskCtl
    <2>1. EmptySlot \in Task
      BY DEF EmptySlot, Task, Priorities
    <2>2. [EmptySlot EXCEPT !.flag = TASK_RUNNING, !.priority = TASK_PRIORITY_HIGH,
                            !.func = kstart] \in Task
      BY DEF EmptySlot, Task, Priorities, Funcs
    <2>3. [p \in Priorities |-> << >>] \in [Priorities -> Seq(Slots)]
      OBVIOUS
    <2> QED  BY <1>1, <2>1, <2>2, <2>3 DEF task_init, TaskCtl
  <1> HIDE DEF tc
  <1>4. QueueExact(tc)
    <2> SUFFICES ASSUME NEW p \in Priorities
                 PROVE  /\ NoTwice(<< >>)
                        /\ Members(<< >>) =
                             {t \in Slots : /\ tc.tasks[t].flag = TASK_RUNNING
                                            /\ tc.tasks[t].priority = p
                                            /\ t # tc.current_task}
      BY <1>2 DEF QueueExact
    <2>1. NoTwice(<< >>) /\ Members(<< >>) = {}
      BY DEF NoTwice, Members
    <2>2. \A t \in Slots : t # tc.current_task => tc.tasks[t].flag # TASK_RUNNING
      BY <1>2 DEF EmptySlot, TASK_RUNNING, Unused
    <2> QED  BY <2>1, <2>2
  <1>5. SlotsInUse(tc)
    BY <1>2 DEF SlotsInUse, Slots, EmptySlot, TASK_RUNNING, Unused
  <1>6. CurrentRuns(tc) /\ IdleReady(tc)
    BY <1>2 DEF CurrentRuns, IdleReady, EmptySlot, Unused, kstart, task_idle_main
  <1> QED  BY <1>1, <1>2, <1>3, <1>4, <1>5, <1>6 DEF SchedInv, tc

-----------------------------------------------------------------------------
(* Theorems.                                                               *)

\* Every reachable state of the scheduler satisfies the inductive invariant.
THEOREM SchedInvariant == TaskSpec => []TaskInv
  <1>1. TaskInit => TaskInv
    BY InitHolds DEF TaskInit, TaskInv
  <1>2. TaskInv /\ [TaskNext]_taskctl => TaskInv'
    <2> SUFFICES ASSUME SchedInv(taskctl), [TaskNext]_taskctl
                 PROVE  SchedInv(taskctl')
      BY DEF TaskInv
    <2>1. CASE TaskStart
      BY <2>1, StartKeeps DEF TaskStart
    <2>2. ASSUME NEW cause \in Causes, TaskSleep(cause)
          PROVE  SchedInv(taskctl')
      BY <2>2, SleepKeeps DEF TaskSleep
    <2>3. ASSUME NEW cause \in Causes, TaskWakeup(cause)
          PROVE  SchedInv(taskctl')
      BY <2>3, WakeupKeeps DEF TaskWakeup
    <2>4. CASE TaskSwitch
      <3>1. BeforeSwitch(taskctl) /\ CurrentRuns(taskctl)
        BY DEF SchedInv, BeforeSwitch, CurrentRuns, TASK_RUNNING, Unused
      <3> QED  BY <2>4, <3>1, ScheduleKeeps DEF TaskSwitch
    <2>5. CASE UNCHANGED taskctl
      BY <2>5
    <2> QED  BY <2>1, <2>2, <2>3, <2>4, <2>5 DEF TaskNext
  <1> QED  BY <1>1, <1>2, PTL DEF TaskSpec

\* taskctl keeps its type: no operation leaves the task table or loses a list.
THEOREM TaskTypeCorrect == TaskSpec => []TaskTypeOK
  <1>1. TaskInv => TaskTypeOK
    BY DEF TaskInv, SchedInv, TaskTypeOK
  <1> QED  BY <1>1, SchedInvariant, PTL

\* In every order of sleeps, wakeups and preemptions the ready lists hold
\* exactly the runnable tasks that do not have the processor, each once.
THEOREM ReadyListsCorrect == TaskSpec => []ReadyListsExact
  <1>1. TaskInv => ReadyListsExact
    BY DEF TaskInv, SchedInv, ReadyListsExact
  <1> QED  BY <1>1, SchedInvariant, PTL

\* The processor is always held by a runnable task: task_sleep never returns
\* to its caller before a wakeup.
THEOREM SleepCorrect == TaskSpec => []SleepYieldsCpu
  <1>1. TaskInv => SleepYieldsCpu
    BY DEF TaskInv, SchedInv, SleepYieldsCpu
  <1> QED  BY <1>1, SchedInvariant, PTL

=============================================================================
