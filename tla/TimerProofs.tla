----------------------------- MODULE TimerProofs -----------------------------
(***************************************************************************)
(* The timer list, for every clock width, quantum and set of delays: the   *)
(* list stays sorted, no timer is lost or called twice, none is called     *)
(* before its time, and a handler that reaches its loop leaves none        *)
(* overdue.                                                                *)
(***************************************************************************)
EXTENDS Timer, FiniteSetTheorems, SequenceTheorems, WellFoundedInduction, TLAPS

Ticks == 0 .. TICK_MAX

TimerEntry == [tick : Ticks, id : Nat, set : Nat, delay : Nat]

TypeInv ==
    /\ tick \in Ticks
    /\ timer_list \in Seq(TimerEntry)
    /\ preempted \subseteq TimerEntry
    /\ nset \in Nat
    /\ fired \subseteq [id : Nat, tick : Ticks, set : Nat, delay : Nat, at : Ticks]

\* The deadline of an entry is the time it was set plus its delay, if that fits
\* in a uint32_t; and last_timer is the only entry that never comes.
RightDeadline(e) ==
    /\ e.set + e.delay <= TICK_MAX => e.tick = e.set + e.delay
    /\ e.id = 0 => e.tick = TICK_MAX

DeadlineInv ==
    /\ \A i \in 1 .. Len(timer_list) : RightDeadline(timer_list[i])
    /\ \A e \in preempted : RightDeadline(e)

\* No number is in two places, and one call at a time is between its halves ...
OnePlace ==
    /\ \A i, j \in 1 .. Len(timer_list) : timer_list[i].id = timer_list[j].id => i = j
    /\ \A e, f \in preempted : e = f
    /\ \A e, f \in fired : e.id = f.id => e = f
    /\ \A i \in 1 .. Len(timer_list) : \A e \in preempted \cup fired : timer_list[i].id # e.id
    /\ \A e \in preempted : \A f \in fired : e.id # f.id

\* ... and the numbers given out so far are all somewhere.
SomePlace ==
    /\ \A i \in 1 .. Len(timer_list) : timer_list[i].id \in 0 .. nset
    /\ \A e \in preempted \cup fired : e.id \in 1 .. nset
    /\ \A id \in 1 .. nset :
         \/ \E i \in 1 .. Len(timer_list) : timer_list[i].id = id
         \/ \E e \in preempted \cup fired : e.id = id
    /\ ~crashed => \E i \in 1 .. Len(timer_list) : timer_list[i] = last_timer

TimerInv ==
    /\ TypeInv /\ TimerListSorted /\ DeadlineInv
    /\ OnePlace /\ SomePlace /\ NeverEarly

-----------------------------------------------------------------------------
(* The list operations.                                                    *)

\* A set of naturals that is not empty has a least member.
LEMMA LeastNatural ==
    ASSUME NEW T, T \subseteq Nat, T # {}
    PROVE  \E n \in T : \A m \in T : n <= m
<1>1. PICK n \in T : \A m \in T : ~(<<m, n>> \in OpToRel(<, Nat))
  BY NatLessThanWellFounded, WFMin
<1>2. \A m \in T : ~(m < n)
  BY <1>1 DEF OpToRel
<1> QED
  BY <1>2

\* The front run of any list is well defined: it ends before the first later
\* entry, or with the list.
LEMMA FrontUpToDefined ==
    ASSUME NEW list \in Seq(TimerEntry), NEW t \in Nat
    PROVE  /\ FrontUpTo(list, t) \in 0 .. Len(list)
           /\ \A i \in 1 .. FrontUpTo(list, t) : list[i].tick <= t
           /\ FrontUpTo(list, t) < Len(list) => list[FrontUpTo(list, t) + 1].tick > t
<1> DEFINE P(k) == /\ \A i \in 1 .. k : list[i].tick <= t
                   /\ k < Len(list) => list[k + 1].tick > t
           Later == {i \in 1 .. Len(list) : ~(list[i].tick <= t)}
<1>1. Len(list) \in Nat /\ \A i \in 1 .. Len(list) : list[i].tick \in Nat
  <2>1. Len(list) \in Nat /\ \A i \in 1 .. Len(list) : list[i] \in TimerEntry
    BY LenProperties, ElementOfSeq
  <2>2. \A e \in TimerEntry : e.tick \in Nat
    BY TickAssumption DEF TimerEntry, Ticks
  <2> QED
    BY <2>1, <2>2
<1>2. \E k \in 0 .. Len(list) : P(k)
  <2>1. CASE Later = {}
    <3>1. P(Len(list)) /\ Len(list) \in 0 .. Len(list)
      BY <1>1, <2>1
    <3> QED
      BY <3>1
  <2>2. CASE Later # {}
    <3> Later \subseteq Nat
      BY <1>1
    <3>1. PICK n \in Later : \A m \in Later : n <= m
      BY <2>2, LeastNatural
    <3>2. n \in 1 .. Len(list) /\ n - 1 \in 0 .. Len(list) /\ (n - 1) + 1 = n
      BY <1>1, <3>1
    <3>3. list[n].tick > t
      BY <1>1, <3>1
    <3>4. \A i \in 1 .. n - 1 : list[i].tick <= t
      BY <1>1, <3>1, <3>2
    <3> QED
      BY <3>2, <3>3, <3>4
  <2> QED
    BY <2>1, <2>2
<1>3. FrontUpTo(list, t) = CHOOSE k \in 0 .. Len(list) : P(k)
  BY DEF FrontUpTo
<1> HIDE DEF P
<1>4. FrontUpTo(list, t) \in 0 .. Len(list) /\ P(FrontUpTo(list, t))
  BY <1>2, <1>3
<1> QED
  BY <1>4 DEF P

\* The first k entries of a list, and the others.
LEMMA ListParts ==
    ASSUME NEW list \in Seq(TimerEntry), NEW k \in 0 .. Len(list)
    PROVE  LET A == SubSeq(list, 1, k)
               B == SubSeq(list, k + 1, Len(list))
           IN  /\ A \in Seq(TimerEntry) /\ Len(A) = k /\ \A i \in 1 .. k : A[i] = list[i]
               /\ B \in Seq(TimerEntry) /\ Len(B) = Len(list) - k
               /\ \A i \in 1 .. Len(list) - k : B[i] = list[k + i]
<1> DEFINE A == SubSeq(list, 1, k)
           B == SubSeq(list, k + 1, Len(list))
<1>1. Len(list) \in Nat /\ \A i \in 1 .. Len(list) : list[i] \in TimerEntry
  BY LenProperties, ElementOfSeq
<1>2. A \in Seq(TimerEntry) /\ Len(A) = k /\ \A i \in 1 .. k : A[i] = list[i]
  <2>1. \A i \in 1 .. k : list[i] \in TimerEntry
    BY <1>1
  <2>2. /\ A \in Seq(TimerEntry) /\ Len(A) = IF 1 <= k THEN k - 1 + 1 ELSE 0
        /\ \A i \in 1 .. k - 1 + 1 : A[i] = list[1 + i - 1]
    BY <1>1, <2>1, SubSeqProperties
  <2> HIDE DEF A
  <2> QED
    BY <1>1, <2>2
<1>3. /\ B \in Seq(TimerEntry) /\ Len(B) = Len(list) - k
      /\ \A i \in 1 .. Len(list) - k : B[i] = list[k + i]
  <2>1. \A i \in k + 1 .. Len(list) : list[i] \in TimerEntry
    BY <1>1
  <2>2. /\ B \in Seq(TimerEntry)
        /\ Len(B) = IF k + 1 <= Len(list) THEN Len(list) - (k + 1) + 1 ELSE 0
        /\ \A i \in 1 .. Len(list) - (k + 1) + 1 : B[i] = list[(k + 1) + i - 1]
    BY <1>1, <2>1, SubSeqProperties
  <2> HIDE DEF B
  <2>3. Len(B) = Len(list) - k /\ Len(list) - (k + 1) + 1 = Len(list) - k
    BY <1>1, <2>2
  <2>4. \A i \in 1 .. Len(list) - k : (k + 1) + i - 1 = k + i
    BY <1>1
  <2> QED
    BY <2>2, <2>3, <2>4
<1> QED
  BY <1>2, <1>3

\* R is list with e behind its first k entries, which are not later, and before
\* the others, which are.
Inserted(list, e, R, k) ==
    /\ R \in Seq(TimerEntry) /\ Len(R) = Len(list) + 1
    /\ R[k + 1] = e
    /\ \A i \in 1 .. k : R[i] = list[i] /\ list[i].tick <= e.tick
    /\ \A i \in k + 2 .. Len(list) + 1 : R[i] = list[i - 1]
    /\ k < Len(list) => list[k + 1].tick > e.tick

\* What set_timer does.
LEMMA SetTimerInserts ==
    ASSUME NEW list \in Seq(TimerEntry), NEW e \in TimerEntry
    PROVE  \E k \in 0 .. Len(list) : Inserted(list, e, set_timer(list, e), k)
<1> DEFINE k == FrontUpTo(list, e.tick)
           A == SubSeq(list, 1, k)
           B == SubSeq(list, k + 1, Len(list))
<1>1. e.tick \in Nat
  BY TickAssumption DEF TimerEntry, Ticks
<1>2. /\ k \in 0 .. Len(list)
      /\ \A i \in 1 .. k : list[i].tick <= e.tick
      /\ k < Len(list) => list[k + 1].tick > e.tick
  BY <1>1, FrontUpToDefined
<1>3. set_timer(list, e) = (A \o <<e>>) \o B
  BY DEF set_timer
<1> HIDE DEF k
<1>4. Len(list) \in Nat /\ \A i \in 1 .. Len(list) : list[i] \in TimerEntry
  BY LenProperties, ElementOfSeq
<1>5. A \in Seq(TimerEntry) /\ Len(A) = k /\ \A i \in 1 .. k : A[i] = list[i]
  BY <1>2, ListParts
<1>6. /\ B \in Seq(TimerEntry) /\ Len(B) = Len(list) - k
      /\ \A i \in 1 .. Len(list) - k : B[i] = list[k + i]
  BY <1>2, ListParts
<1> HIDE DEF A, B
<1>7. /\ <<e>> \in Seq(TimerEntry) /\ Len(<<e>>) = 1 /\ <<e>>[1] = e
  OBVIOUS
<1> DEFINE C == A \o <<e>>
<1>8. /\ C \in Seq(TimerEntry) /\ Len(C) = k + 1 /\ C[k + 1] = e
      /\ \A i \in 1 .. k : C[i] = list[i]
  <2>1. /\ C \in Seq(TimerEntry) /\ Len(C) = Len(A) + 1
        /\ \A i \in 1 .. Len(A) + 1 : C[i] = IF i <= Len(A) THEN A[i] ELSE <<e>>[i - Len(A)]
    BY <1>5, <1>7, ConcatProperties
  <2>2. C[k + 1] = <<e>>[(k + 1) - k]
    BY <1>2, <1>4, <1>5, <2>1
  <2>3. (k + 1) - k = 1
    BY <1>2, <1>4
  <2> QED
    BY <1>2, <1>4, <1>5, <1>7, <2>1, <2>2, <2>3
<1> HIDE DEF C
<1> DEFINE R == C \o B
<1>9. /\ R \in Seq(TimerEntry) /\ Len(R) = Len(C) + Len(B)
      /\ \A i \in 1 .. Len(C) + Len(B) : R[i] = IF i <= Len(C) THEN C[i] ELSE B[i - Len(C)]
  BY <1>6, <1>8, ConcatProperties
<1>10. R = set_timer(list, e)
  BY <1>3 DEF C
<1> HIDE DEF R
<1>11. Len(R) = Len(list) + 1 /\ R[k + 1] = e /\ \A i \in 1 .. k : R[i] = list[i]
  <2>1. Len(C) + Len(B) = Len(list) + 1
    BY <1>2, <1>4, <1>6, <1>8
  <2>2. \A i \in 1 .. k + 1 : i \in 1 .. Len(list) + 1 /\ i <= Len(C)
    BY <1>2, <1>4, <1>8
  <2>3. \A i \in 1 .. k + 1 : R[i] = C[i]
    BY <1>9, <2>1, <2>2
  <2>4. k + 1 \in 1 .. k + 1 /\ \A i \in 1 .. k : i \in 1 .. k + 1
    BY <1>2, <1>4
  <2> QED
    BY <1>8, <1>9, <2>1, <2>3, <2>4
<1>12. ASSUME NEW i \in k + 2 .. Len(list) + 1 PROVE R[i] = list[i - 1]
  <2>1. R[i] = B[i - (k + 1)] /\ i - (k + 1) \in 1 .. Len(list) - k /\ k + (i - (k + 1)) = i - 1
    BY <1>2, <1>4, <1>6, <1>8, <1>9, <1>12
  <2> QED
    BY <1>6, <2>1
<1> QED
  BY <1>2, <1>9, <1>10, <1>11, <1>12 DEF Inserted

\* E is the first k entries of list, which are not later than now, and U the
\* others, the first of which is.
Popped(list, now, E, U, k) ==
    /\ Len(E) = k /\ \A i \in 1 .. k : E[i] = list[i] /\ list[i].tick <= now
    /\ U \in Seq(TimerEntry) /\ Len(U) = Len(list) - k
    /\ \A i \in 1 .. Len(list) - k : U[i] = list[k + i]
    /\ k < Len(list) => list[k + 1].tick > now

\* What the loop of int_pit does.
LEMMA LoopPops ==
    ASSUME NEW list \in Seq(TimerEntry), NEW now \in Nat
    PROVE  \E k \in 0 .. Len(list) : Popped(list, now, Expired(list, now), Unexpired(list, now), k)
<1> DEFINE k == FrontUpTo(list, now)
           E == SubSeq(list, 1, k)
           U == SubSeq(list, k + 1, Len(list))
<1>1. /\ k \in 0 .. Len(list)
      /\ \A i \in 1 .. k : list[i].tick <= now
      /\ k < Len(list) => list[k + 1].tick > now
  BY FrontUpToDefined
<1>2. E = Expired(list, now) /\ U = Unexpired(list, now)
  BY DEF Expired, Unexpired
<1> HIDE DEF k
<1>3. Len(E) = k /\ \A i \in 1 .. k : E[i] = list[i]
  BY <1>1, ListParts
<1>4. /\ U \in Seq(TimerEntry) /\ Len(U) = Len(list) - k
      /\ \A i \in 1 .. Len(list) - k : U[i] = list[k + i]
  BY <1>1, ListParts
<1> HIDE DEF E, U
<1> QED
  BY <1>1, <1>2, <1>3, <1>4 DEF Popped

-----------------------------------------------------------------------------
(* Insertion, from a state in which everything holds.                      *)

\* A new entry: a number that is neither in the list nor called.
InsertOf(e) ==
    /\ timer_list' = set_timer(timer_list, e)
    /\ e \in TimerEntry /\ RightDeadline(e)
    /\ \A i \in 1 .. Len(timer_list) : timer_list[i].id # e.id
    /\ \A f \in fired : f.id # e.id

\* The list after an insertion: sorted, and its entries are the old ones and e,
\* all with different numbers.
LEMMA InsertKeeps ==
    ASSUME TimerInv, NEW e, InsertOf(e)
    PROVE  /\ timer_list' \in Seq(TimerEntry)
           /\ TimerListSorted'
           /\ \A i \in 1 .. Len(timer_list') :
                timer_list'[i] = e \/ \E j \in 1 .. Len(timer_list) : timer_list'[i] = timer_list[j]
           /\ \E i \in 1 .. Len(timer_list') : timer_list'[i] = e
           /\ \A j \in 1 .. Len(timer_list) : \E i \in 1 .. Len(timer_list') : timer_list'[i] = timer_list[j]
           /\ \A i, j \in 1 .. Len(timer_list') : timer_list'[i].id = timer_list'[j].id => i = j
<1> DEFINE list == timer_list
           R == timer_list'
           n == Len(timer_list)
<1>1. list \in Seq(TimerEntry) /\ e \in TimerEntry /\ R = set_timer(list, e)
  BY DEF TimerInv, TypeInv, InsertOf
<1>2. n = Len(list)
  OBVIOUS
<1> HIDE DEF list, R, n
<1>3. PICK k \in 0 .. n : Inserted(list, e, R, k)
  BY <1>1, <1>2, SetTimerInserts
<1>4. /\ R \in Seq(TimerEntry) /\ Len(R) = n + 1
      /\ R[k + 1] = e
      /\ \A i \in 1 .. k : R[i] = list[i] /\ list[i].tick <= e.tick
      /\ \A i \in k + 2 .. n + 1 : R[i] = list[i - 1]
      /\ k < n => list[k + 1].tick > e.tick
  BY <1>2, <1>3 DEF Inserted
<1>5. n \in Nat /\ e.tick \in Nat /\ \A i \in 1 .. n : list[i].tick \in Nat
  <2>1. n \in Nat /\ \A i \in 1 .. n : list[i] \in TimerEntry
    BY <1>1, <1>2, LenProperties, ElementOfSeq
  <2> QED
    BY <1>1, <2>1, TickAssumption DEF TimerEntry, Ticks
<1>6. \A i, j \in 1 .. n : i < j => list[i].tick <= list[j].tick
  BY DEF TimerInv, TimerListSorted, IsSorted, list, n
<1>7. \A i, j \in 1 .. n : list[i].id = list[j].id => i = j
  BY DEF TimerInv, OnePlace, list, n
<1>8. \A i \in 1 .. n : list[i].id # e.id
  BY DEF InsertOf, list, n
<1>9. \A i \in 1 .. n + 1 : \/ i \in 1 .. k /\ i \in 1 .. n /\ R[i] = list[i]
                            \/ i = k + 1 /\ R[i] = e
                            \/ i \in k + 2 .. n + 1 /\ i - 1 \in 1 .. n /\ R[i] = list[i - 1]
  BY <1>4, <1>5
<1>10. ASSUME NEW i \in 1 .. n + 1, NEW j \in 1 .. n + 1, i < j
      PROVE  R[i].tick <= R[j].tick
  <2>1. CASE j \in 1 .. k
    <3>1. i \in 1 .. k /\ i \in 1 .. n /\ j \in 1 .. n
      BY <1>4, <1>5, <1>10, <2>1
    <3> QED
      BY <1>4, <1>6, <1>10, <2>1, <3>1
  <2>2. CASE j = k + 1
    <3>1. i \in 1 .. k
      BY <1>4, <1>5, <1>10, <2>2
    <3> QED
      BY <1>4, <2>2, <3>1
  <2>3. CASE j \in k + 2 .. n + 1 /\ i \in 1 .. k
    <3>1. i \in 1 .. n /\ j - 1 \in 1 .. n /\ i < j - 1
      BY <1>4, <1>5, <1>10, <2>3
    <3> QED
      BY <1>4, <1>6, <2>3, <3>1
  <2>4. CASE j \in k + 2 .. n + 1 /\ i = k + 1
    <3>1. k + 1 \in 1 .. n /\ j - 1 \in 1 .. n /\ k < n /\ (k + 1 < j - 1 \/ k + 1 = j - 1)
      BY <1>4, <1>5, <1>10, <2>4
    <3>2. list[k + 1].tick <= list[j - 1].tick
      BY <1>5, <1>6, <3>1
    <3>3. e.tick <= list[j - 1].tick
      BY <1>4, <1>5, <3>1, <3>2
    <3> QED
      BY <1>4, <2>4, <3>3
  <2>5. CASE j \in k + 2 .. n + 1 /\ i \in k + 2 .. n + 1
    <3>1. i - 1 \in 1 .. n /\ j - 1 \in 1 .. n /\ i - 1 < j - 1
      BY <1>4, <1>5, <1>10, <2>5
    <3> QED
      BY <1>4, <1>6, <2>5, <3>1
  <2> QED
    BY <1>9, <1>10, <1>4, <1>5, <2>1, <2>2, <2>3, <2>4, <2>5
<1>11. TimerListSorted'
  <2>1. \A i, j \in 1 .. Len(R) : i < j => R[i].tick <= R[j].tick
    BY <1>4, <1>10
  <2> QED
    BY <2>1 DEF TimerListSorted, IsSorted, R
<1>12. ASSUME NEW j \in 1 .. n PROVE \E i \in 1 .. n + 1 : R[i] = list[j]
  <2>1. CASE j \in 1 .. k
    BY <1>4, <1>5, <2>1
  <2>2. CASE ~(j \in 1 .. k)
    <3>1. j + 1 \in k + 2 .. n + 1 /\ (j + 1) - 1 = j /\ j + 1 \in 1 .. n + 1
      BY <1>4, <1>5, <1>12, <2>2
    <3> QED
      BY <1>4, <3>1
  <2> QED
    BY <2>1, <2>2
<1>13. ASSUME NEW i \in 1 .. n + 1, NEW j \in 1 .. n + 1, R[i].id = R[j].id
       PROVE  i = j
  <2>1. CASE i = k + 1
    BY <1>4, <1>8, <1>9, <1>13, <2>1
  <2>2. CASE j = k + 1
    BY <1>4, <1>8, <1>9, <1>13, <2>2
  <2>3. CASE i # k + 1 /\ j # k + 1
    <3>1. CASE i \in 1 .. k /\ j \in 1 .. k
      BY <1>7, <1>9, <1>13, <2>3, <3>1
    <3>2. CASE i \in 1 .. k /\ j \in k + 2 .. n + 1
      <4>1. R[i] = list[i] /\ R[j] = list[j - 1] /\ i \in 1 .. n /\ j - 1 \in 1 .. n /\ i # j - 1
        BY <1>4, <1>5, <3>2
      <4> QED
        BY <1>7, <1>13, <4>1
    <3>3. CASE i \in k + 2 .. n + 1 /\ j \in 1 .. k
      <4>1. R[j] = list[j] /\ R[i] = list[i - 1] /\ j \in 1 .. n /\ i - 1 \in 1 .. n /\ j # i - 1
        BY <1>4, <1>5, <3>3
      <4> QED
        BY <1>7, <1>13, <4>1
    <3>4. CASE i \in k + 2 .. n + 1 /\ j \in k + 2 .. n + 1
      <4>1. R[i] = list[i - 1] /\ R[j] = list[j - 1] /\ i - 1 \in 1 .. n /\ j - 1 \in 1 .. n
        BY <1>4, <1>5, <3>4
      <4>2. i - 1 = j - 1
        BY <1>7, <1>13, <4>1
      <4> QED
        BY <1>13, <1>5, <4>2
    <3> QED
      BY <1>9, <1>13, <2>3, <3>1, <3>2, <3>3, <3>4
  <2> QED
    BY <2>1, <2>2, <2>3
<1>14. \E i \in 1 .. n + 1 : R[i] = e
  BY <1>4, <1>5
<1> QED
  BY <1>4, <1>9, <1>11, <1>12, <1>13, <1>14 DEF list, R, n

\* The parts of the invariant that speak of the list follow, when the entry
\* carries a number given out and the rest is as it was.
LEMMA InsertStep ==
    ASSUME TimerInv, NEW e, InsertOf(e),
           tick' = tick, fired' = fired, crashed' = crashed, ~crashed,
           nset' \in Nat, e.id \in 1 .. nset', nset <= nset',
           preempted' \subseteq preempted,
           \A f \in preempted' : f.id # e.id,
           \A f \in preempted : f \in preempted' \/ f = e,
           \A id \in 1 .. nset' : id \in 1 .. nset \/ id = e.id
    PROVE  TimerInv'
<1>1. TypeInv'
  <2>1. timer_list' \in Seq(TimerEntry)
    BY InsertKeeps
  <2> QED
    BY <2>1 DEF TimerInv, TypeInv
<1>2. DeadlineInv'
  <2>1. \A i \in 1 .. Len(timer_list') :
          timer_list'[i] = e \/ \E j \in 1 .. Len(timer_list) : timer_list'[i] = timer_list[j]
    BY InsertKeeps
  <2>2. /\ RightDeadline(e)
        /\ \A j \in 1 .. Len(timer_list) : RightDeadline(timer_list[j])
        /\ \A f \in preempted : RightDeadline(f)
    BY DEF TimerInv, DeadlineInv, InsertOf
  <2> QED
    BY <2>1, <2>2 DEF DeadlineInv
<1>3. OnePlace'
  <2>1. \A f \in preempted' \cup fired' : f.id # e.id
    BY DEF InsertOf
  <2>2. \A i \in 1 .. Len(timer_list) : \A f \in preempted \cup fired : timer_list[i].id # f.id
    BY DEF TimerInv, OnePlace
  <2>3. \A i \in 1 .. Len(timer_list') : \A f \in preempted' \cup fired' : timer_list'[i].id # f.id
    BY <2>1, <2>2, InsertKeeps
  <2>4. /\ \A f, g \in preempted' : f = g
        /\ \A f, g \in fired' : f.id = g.id => f = g
        /\ \A f \in preempted' : \A g \in fired' : f.id # g.id
    BY DEF TimerInv, OnePlace
  <2> QED
    BY <2>3, <2>4, InsertKeeps DEF OnePlace
<1>4. SomePlace'
  <2>1. /\ \A i \in 1 .. Len(timer_list) : timer_list[i].id \in 0 .. nset
        /\ \A f \in preempted \cup fired : f.id \in 1 .. nset
        /\ \A id \in 1 .. nset :
             \/ \E i \in 1 .. Len(timer_list) : timer_list[i].id = id
             \/ \E f \in preempted \cup fired : f.id = id
        /\ \E i \in 1 .. Len(timer_list) : timer_list[i] = last_timer
        /\ nset \in Nat
    BY DEF TimerInv, SomePlace, TypeInv
  <2>2. e.id \in 0 .. nset' /\ (\A x \in 0 .. nset : x \in 0 .. nset') /\ (\A x \in 1 .. nset : x \in 1 .. nset')
    BY <2>1
  <2>3. \A i \in 1 .. Len(timer_list') : timer_list'[i].id \in 0 .. nset'
    <3>1. \A i \in 1 .. Len(timer_list') :
            timer_list'[i] = e \/ \E j \in 1 .. Len(timer_list) : timer_list'[i] = timer_list[j]
      BY InsertKeeps
    <3> QED
      BY <2>1, <2>2, <3>1
  <2>4. \A f \in preempted' \cup fired' : f.id \in 1 .. nset'
    BY <2>1, <2>2
  <2>5. ASSUME NEW id \in 1 .. nset'
        PROVE  \/ \E i \in 1 .. Len(timer_list') : timer_list'[i].id = id
               \/ \E f \in preempted' \cup fired' : f.id = id
    <3>1. CASE id = e.id
      BY <3>1, InsertKeeps
    <3>2. CASE \E i \in 1 .. Len(timer_list) : timer_list[i].id = id
      BY <3>2, InsertKeeps
    <3>3. CASE id # e.id /\ \E f \in preempted \cup fired : f.id = id
      BY <3>3
    <3> QED
      BY <2>1, <2>5, <3>1, <3>2, <3>3
  <2>6. \E i \in 1 .. Len(timer_list') : timer_list'[i] = last_timer
    BY <2>1, InsertKeeps
  <2> QED
    BY <2>3, <2>4, <2>5, <2>6 DEF SomePlace
<1>5. NeverEarly'
  BY DEF TimerInv, NeverEarly
<1> QED
  BY <1>1, <1>2, <1>3, <1>4, <1>5, InsertKeeps DEF TimerInv

-----------------------------------------------------------------------------
(* The loop of int_pit, from a state in which everything holds.            *)

\* The log entry of calling e.
LogOf(e, now) ==
    [id |-> e.id, tick |-> e.tick, set |-> e.set, delay |-> e.delay, at |-> now]

\* The log holds the popped entries, and the list the others.
LEMMA LoopSplits ==
    ASSUME TimerInv, NEW now \in Ticks, RunExpired(now)
    PROVE  \E k \in 0 .. Len(timer_list) :
             LET list == timer_list
             IN  /\ timer_list' \in Seq(TimerEntry) /\ Len(timer_list') = Len(list) - k
                 /\ \A i \in 1 .. Len(list) - k : timer_list'[i] = list[k + i]
                 /\ \A i \in 1 .. k : list[i].tick <= now
                 /\ \A i \in k + 1 .. Len(list) : list[i].tick > now
                 /\ fired' = fired \cup
                      {LogOf(list[i], now) : i \in {j \in 1 .. k : list[j].id # 0}}
                 /\ crashed' = (\E i \in 1 .. k : list[i].id = 0)
<1> DEFINE list == timer_list
           n == Len(timer_list)
           E == Expired(timer_list, now)
           U == Unexpired(timer_list, now)
<1>1. list \in Seq(TimerEntry) /\ now \in Nat /\ n = Len(list)
  BY TickAssumption DEF TimerInv, TypeInv, Ticks
<1>2. /\ timer_list' = U /\ fired' = fired \cup Fired(E, now)
      /\ crashed' = (\E i \in 1 .. Len(E) : E[i].id = 0)
  BY DEF RunExpired
<1>3. \A i, j \in 1 .. n : i < j => list[i].tick <= list[j].tick
  BY DEF TimerInv, TimerListSorted, IsSorted
<1>4. PICK k \in 0 .. n : Popped(list, now, E, U, k)
  BY <1>1, LoopPops
<1> HIDE DEF list, n, E, U
<1>5. n \in Nat /\ \A i \in 1 .. n : list[i].tick \in Nat
  <2>1. n \in Nat /\ \A i \in 1 .. n : list[i] \in TimerEntry
    BY <1>1, LenProperties, ElementOfSeq
  <2> QED
    BY <2>1, TickAssumption DEF TimerEntry, Ticks
<1>6. /\ Len(E) = k /\ \A i \in 1 .. k : E[i] = list[i] /\ list[i].tick <= now
      /\ U \in Seq(TimerEntry) /\ Len(U) = n - k
      /\ \A i \in 1 .. n - k : U[i] = list[k + i]
      /\ k < n => list[k + 1].tick > now
  BY <1>1, <1>4 DEF Popped
<1>7. ASSUME NEW i \in k + 1 .. n PROVE list[i].tick > now
  <2>1. k + 1 \in 1 .. n /\ i \in 1 .. n /\ k < n /\ (k + 1 < i \/ k + 1 = i)
    BY <1>5, <1>7
  <2>2. list[k + 1].tick <= list[i].tick
    BY <1>3, <1>5, <2>1
  <2> QED
    BY <1>1, <1>5, <1>6, <2>1, <2>2
<1>8. Fired(E, now) = {LogOf(list[i], now) : i \in {j \in 1 .. k : list[j].id # 0}}
  <2>1. {j \in 1 .. Len(E) : E[j].id # 0} = {j \in 1 .. k : list[j].id # 0}
    BY <1>6
  <2> QED
    BY <1>6, <2>1 DEF Fired, LogOf
<1>9. crashed' = (\E i \in 1 .. k : list[i].id = 0)
  BY <1>2, <1>6
<1> QED
  BY <1>1, <1>2, <1>6, <1>7, <1>8, <1>9 DEF list, n

\* The loop keeps the invariant, and leaves nothing that is due.
LEMMA LoopKeeps ==
    ASSUME TimerInv, tick' \in Ticks, tick <= tick', RunExpired(tick'), ~crashed,
           preempted' = preempted, nset' = nset
    PROVE  /\ TimerInv'
           /\ \A i \in 1 .. Len(timer_list') : timer_list'[i].tick > tick'
<1> DEFINE list == timer_list
           n == Len(timer_list)
           now == tick'
<1>1. PICK k \in 0 .. n :
        /\ timer_list' \in Seq(TimerEntry) /\ Len(timer_list') = n - k
        /\ \A i \in 1 .. n - k : timer_list'[i] = list[k + i]
        /\ \A i \in 1 .. k : list[i].tick <= now
        /\ \A i \in k + 1 .. n : list[i].tick > now
        /\ fired' = fired \cup {LogOf(list[i], now) : i \in {j \in 1 .. k : list[j].id # 0}}
        /\ crashed' = (\E i \in 1 .. k : list[i].id = 0)
  BY LoopSplits
<1>2. list \in Seq(TimerEntry) /\ n = Len(list) /\ now \in Ticks /\ tick \in Ticks
  BY DEF TimerInv, TypeInv
<1>3. n \in Nat /\ \A i \in 1 .. n : list[i] \in TimerEntry
  BY <1>2, LenProperties, ElementOfSeq
<1>4. \A i \in 1 .. n : list[i].tick \in Ticks /\ list[i].id \in Nat /\ list[i].set \in Nat /\ list[i].delay \in Nat
  BY <1>3 DEF TimerEntry
<1>5. /\ \A i, j \in 1 .. n : i < j => list[i].tick <= list[j].tick
      /\ \A i, j \in 1 .. n : list[i].id = list[j].id => i = j
      /\ \A i \in 1 .. n : \A e \in preempted \cup fired : list[i].id # e.id
      /\ \A i \in 1 .. n : list[i].id \in 0 .. nset
      /\ \A i \in 1 .. n : RightDeadline(list[i])
      /\ \E i \in 1 .. n : list[i] = last_timer
  BY DEF TimerInv, TimerListSorted, IsSorted, OnePlace, SomePlace, DeadlineInv
<1> HIDE DEF list, n, now
<1>6. /\ \A i \in 1 .. n - k : k + i \in 1 .. n /\ k + i \in k + 1 .. n
      /\ \A i \in 1 .. k : i \in 1 .. n
      /\ \A i \in 1 .. n : i \in 1 .. k \/ (i - k \in 1 .. n - k /\ k + (i - k) = i)
  BY <1>3
<1>7. \A f \in fired' : f \in fired \/ \E i \in 1 .. k : list[i].id # 0 /\ f = LogOf(list[i], now)
  BY <1>1
<1>8. \A i \in 1 .. k : /\ LogOf(list[i], now).id = list[i].id
                        /\ LogOf(list[i], now).tick = list[i].tick
                        /\ LogOf(list[i], now).set = list[i].set
                        /\ LogOf(list[i], now).delay = list[i].delay
                        /\ LogOf(list[i], now).at = now
  BY DEF LogOf
<1>9. TypeInv'
  <2>1. \A i \in 1 .. k :
          LogOf(list[i], now) \in [id : Nat, tick : Ticks, set : Nat, delay : Nat, at : Ticks]
    BY <1>2, <1>4, <1>6 DEF LogOf
  <2>2. fired' \subseteq [id : Nat, tick : Ticks, set : Nat, delay : Nat, at : Ticks]
    BY <1>7, <2>1 DEF TimerInv, TypeInv
  <2> QED
    BY <1>1, <2>2 DEF TimerInv, TypeInv
<1>10. TimerListSorted'
  <2>1. ASSUME NEW i \in 1 .. n - k, NEW j \in 1 .. n - k, i < j
        PROVE  timer_list'[i].tick <= timer_list'[j].tick
    <3>1. k + i < k + j
      BY <1>3, <2>1
    <3> QED
      BY <1>1, <1>5, <1>6, <3>1
  <2> QED
    BY <1>1, <2>1 DEF TimerListSorted, IsSorted
<1>11. DeadlineInv'
  <2>1. \A i \in 1 .. n - k : RightDeadline(timer_list'[i])
    BY <1>1, <1>5, <1>6
  <2>2. \A e \in preempted' : RightDeadline(e)
    BY DEF TimerInv, DeadlineInv
  <2> QED
    BY <1>1, <2>1, <2>2 DEF DeadlineInv
<1>12. OnePlace'
  <2>1. ASSUME NEW i \in 1 .. n - k, NEW j \in 1 .. n - k, timer_list'[i].id = timer_list'[j].id
        PROVE  i = j
    <3>1. k + i = k + j
      BY <1>1, <1>5, <1>6, <2>1
    <3> QED
      BY <1>3, <2>1, <3>1
  <2>2. /\ \A e, f \in preempted : e = f
        /\ \A e, f \in fired : e.id = f.id => e = f
        /\ \A e \in preempted : \A f \in fired : e.id # f.id
    BY DEF TimerInv, OnePlace
  <2>3. \A f, g \in fired' : f.id = g.id => f = g
    <3> TAKE f, g \in fired'
    <3>1. CASE f \in fired
      BY <1>5, <1>6, <1>7, <1>8, <2>2, <3>1
    <3>2. CASE g \in fired
      BY <1>5, <1>6, <1>7, <1>8, <2>2, <3>2
    <3>3. CASE f \notin fired /\ g \notin fired
      <4>1. PICK i \in 1 .. k : f = LogOf(list[i], now)
        BY <1>7, <3>3
      <4>2. PICK j \in 1 .. k : g = LogOf(list[j], now)
        BY <1>7, <3>3
      <4>3. f.id = g.id => i = j
        BY <1>5, <1>6, <1>8, <4>1, <4>2
      <4> QED
        BY <4>1, <4>2, <4>3
    <3> QED
      BY <3>1, <3>2, <3>3
  <2>4. ASSUME NEW i \in 1 .. n - k, NEW f \in fired' PROVE timer_list'[i].id # f.id
    <3>1. timer_list'[i].id = list[k + i].id /\ k + i \in 1 .. n
      BY <1>1, <1>6
    <3>2. CASE f \in fired
      BY <1>5, <3>1, <3>2
    <3>3. CASE f \notin fired
      <4>1. PICK j \in 1 .. k : f = LogOf(list[j], now)
        BY <1>7, <3>3
      <4>2. f.id = list[j].id /\ j \in 1 .. n /\ j # k + i
        BY <1>3, <1>6, <1>8, <4>1
      <4> QED
        BY <1>5, <3>1, <4>2
    <3> QED
      BY <3>2, <3>3
  <2>5. \A i \in 1 .. n - k : \A e \in preempted : timer_list'[i].id # e.id
    BY <1>1, <1>5, <1>6
  <2>6. \A e \in preempted : \A f \in fired' : e.id # f.id
    BY <1>5, <1>6, <1>7, <1>8, <2>2
  <2> QED
    BY <1>1, <2>1, <2>2, <2>3, <2>4, <2>5, <2>6 DEF OnePlace
<1>13. SomePlace'
  <2>1. \A i \in 1 .. n - k : timer_list'[i].id \in 0 .. nset
    BY <1>1, <1>5, <1>6
  <2>2. \A e \in preempted \cup fired : e.id \in 1 .. nset
    BY DEF TimerInv, SomePlace
  <2>3. \A f \in fired' : f.id \in 1 .. nset
    <3>1. \A i \in 1 .. k : list[i].id # 0 => list[i].id \in 1 .. nset
      <4>1. nset \in Nat
        BY DEF TimerInv, TypeInv
      <4> QED
        BY <1>4, <1>5, <1>6, <4>1
    <3> QED
      BY <1>7, <1>8, <2>2, <3>1
  <2>4. ASSUME NEW id \in 1 .. nset
        PROVE  \/ \E i \in 1 .. n - k : timer_list'[i].id = id
               \/ \E e \in preempted \cup fired' : e.id = id
    <3>1. CASE \E e \in preempted \cup fired : e.id = id
      BY <1>1, <3>1
    <3>2. ASSUME NEW i \in 1 .. k, list[i].id = id
          PROVE  \E e \in fired' : e.id = id
      <4>1. list[i].id # 0
        BY <2>4, <3>2
      <4>2. LogOf(list[i], now) \in fired'
        BY <1>1, <4>1
      <4> QED
        BY <1>8, <3>2, <4>2
    <3>3. ASSUME NEW i \in 1 .. n, i \notin 1 .. k, list[i].id = id
          PROVE  \E j \in 1 .. n - k : timer_list'[j].id = id
      <4>1. i - k \in 1 .. n - k /\ k + (i - k) = i
        BY <1>6, <3>3
      <4> QED
        BY <1>1, <3>3, <4>1
    <3>4. \/ \E i \in 1 .. n : list[i].id = id
          \/ \E e \in preempted \cup fired : e.id = id
      BY <2>4 DEF TimerInv, SomePlace, list, n
    <3> QED
      BY <3>1, <3>2, <3>3, <3>4
  <2>5. ~crashed' => \E i \in 1 .. n - k : timer_list'[i] = last_timer
    <3>1. PICK i \in 1 .. n : list[i] = last_timer
      BY <1>5
    <3>2. list[i].id = 0
      BY <3>1 DEF last_timer
    <3>3. CASE i \in 1 .. k
      BY <1>1, <3>2, <3>3
    <3>4. CASE i \notin 1 .. k
      <4>1. i - k \in 1 .. n - k /\ k + (i - k) = i
        BY <1>6, <3>4
      <4> QED
        BY <1>1, <3>1, <4>1
    <3> QED
      BY <3>3, <3>4
  <2> QED
    BY <1>1, <2>1, <2>2, <2>3, <2>4, <2>5 DEF SomePlace
<1>14. NeverEarly'
  <2>1. ASSUME NEW i \in 1 .. k, list[i].set + list[i].delay <= TICK_MAX
        PROVE  now >= list[i].set + list[i].delay
    <3>1. list[i].tick = list[i].set + list[i].delay /\ list[i].tick <= now
      BY <1>1, <1>5, <1>6, <2>1 DEF RightDeadline
    <3>2. list[i].tick \in Nat /\ now \in Nat
      BY <1>2, <1>4, <1>6, TickAssumption DEF Ticks
    <3> QED
      BY <3>1, <3>2
  <2>2. \A f \in fired' : f.set + f.delay <= TICK_MAX => f.at >= f.set + f.delay
    BY <1>7, <1>8, <2>1 DEF TimerInv, NeverEarly
  <2>3. ASSUME NEW i \in 1 .. k, list[i].id = 0 PROVE now = TICK_MAX
    <3>1. list[i].tick = TICK_MAX /\ list[i].tick <= now
      BY <1>1, <1>5, <1>6, <2>3 DEF RightDeadline
    <3> QED
      BY <1>2, <3>1, TickAssumption DEF Ticks
  <2>4. crashed' => tick' = TICK_MAX
    BY <1>1, <2>3 DEF now
  <2> QED
    BY <2>2, <2>4 DEF NeverEarly
<1>15. \A i \in 1 .. Len(timer_list') : timer_list'[i].tick > now
  BY <1>1, <1>6
<1> QED
  BY <1>9, <1>10, <1>11, <1>12, <1>13, <1>14, <1>15 DEF TimerInv, now

-----------------------------------------------------------------------------
(* The steps.                                                              *)

\* The empty list of timer_init satisfies the invariant.
LEMMA TimerInitHolds == TimerInit => TimerInv
<1> SUFFICES ASSUME TimerInit PROVE TimerInv
  OBVIOUS
<1>1. last_timer \in TimerEntry /\ RightDeadline(last_timer) /\ last_timer.id = 0
  BY TickAssumption DEF last_timer, TimerEntry, Ticks, RightDeadline
<1>2. /\ timer_list \in Seq(TimerEntry) /\ Len(timer_list) = 1 /\ timer_list[1] = last_timer
  <2>1. timer_list = <<last_timer>>
    BY DEF TimerInit
  <2> HIDE DEF last_timer
  <2> QED
    BY <1>1, <2>1
<1>3. \A i \in 1 .. Len(timer_list) : i = 1 /\ timer_list[i] = last_timer
  BY <1>2
<1>4. /\ tick = 0 /\ preempted = {} /\ nset = 0 /\ fired = {} /\ ~crashed
      /\ 0 \in Ticks /\ 1 .. nset = {} /\ 0 \in 0 .. nset
  BY TickAssumption DEF TimerInit, Ticks
<1> HIDE DEF TimerInit
<1>5. TypeInv
  BY <1>2, <1>4 DEF TypeInv
<1>6. TimerListSorted
  BY <1>3 DEF TimerListSorted, IsSorted
<1>7. DeadlineInv
  BY <1>1, <1>3, <1>4 DEF DeadlineInv
<1>8. OnePlace
  BY <1>3, <1>4 DEF OnePlace
<1>9. SomePlace
  <2>1. \A i \in 1 .. Len(timer_list) : timer_list[i].id \in 0 .. nset
    BY <1>1, <1>3, <1>4
  <2>2. \E i \in 1 .. Len(timer_list) : timer_list[i] = last_timer
    BY <1>2
  <2> QED
    BY <1>4, <2>1, <2>2 DEF SomePlace
<1>10. NeverEarly
  BY <1>4 DEF NeverEarly
<1> QED
  BY <1>5, <1>6, <1>7, <1>8, <1>9, <1>10 DEF TimerInv

\* The next entry is well formed and its number new.
LEMMA EntryRight ==
    ASSUME TimerInv, NEW d \in Delays
    PROVE  LET e == Entry(nset + 1, d)
           IN  /\ e \in TimerEntry /\ RightDeadline(e) /\ e.id = nset + 1
               /\ nset \in Nat
               /\ \A i \in 1 .. Len(timer_list) : timer_list[i].id # e.id
               /\ \A f \in preempted \cup fired : f.id # e.id
<1> DEFINE e == Entry(nset + 1, d)
<1>1. tick \in Nat /\ tick <= TICK_MAX /\ nset \in Nat /\ d \in Nat /\ TICK_MAX \in Nat
  BY TickAssumption, TimerAssumption DEF TimerInv, TypeInv, Ticks
<1>2. /\ e.tick = Deadline(tick, d) /\ e.id = nset + 1 /\ e.set = tick /\ e.delay = d
      /\ e = [tick |-> Deadline(tick, d), id |-> nset + 1, set |-> tick, delay |-> d]
  BY DEF Entry
<1>3. Deadline(tick, d) \in Ticks
  BY <1>1 DEF Deadline, Ticks
<1>4. tick + d <= TICK_MAX => Deadline(tick, d) = tick + d
  BY <1>1 DEF Deadline
<1> HIDE DEF e
<1>5. e \in TimerEntry
  BY <1>1, <1>2, <1>3 DEF TimerEntry
<1>6. RightDeadline(e)
  BY <1>1, <1>2, <1>4 DEF RightDeadline
<1>7. \A i \in 1 .. Len(timer_list) : timer_list[i].id # e.id
  BY <1>1, <1>2 DEF TimerInv, SomePlace
<1>8. \A f \in preempted \cup fired : f.id # e.id
  BY <1>1, <1>2 DEF TimerInv, SomePlace
<1> QED
  BY <1>1, <1>2, <1>5, <1>6, <1>7, <1>8 DEF e

\* set_timer that no tick interrupts keeps the invariant.
LEMMA SetTimerKeeps ==
    ASSUME TimerInv, NEW d \in Delays, SetTimer(d)
    PROVE  TimerInv'
<1> DEFINE e == Entry(nset + 1, d)
<1>1. /\ e \in TimerEntry /\ RightDeadline(e) /\ e.id = nset + 1 /\ nset \in Nat
      /\ \A i \in 1 .. Len(timer_list) : timer_list[i].id # e.id
      /\ \A f \in preempted \cup fired : f.id # e.id
  BY EntryRight
<1>2. /\ ~crashed /\ nset' = nset + 1 /\ timer_list' = set_timer(timer_list, e)
      /\ tick' = tick /\ preempted' = preempted /\ fired' = fired /\ crashed' = crashed
  BY DEF SetTimer
<1> HIDE DEF e
<1>3. InsertOf(e)
  BY <1>1, <1>2 DEF InsertOf
<1>4. /\ nset' \in Nat /\ e.id \in 1 .. nset' /\ nset <= nset'
      /\ \A id \in 1 .. nset' : id \in 1 .. nset \/ id = e.id
  BY <1>1, <1>2
<1> QED
  BY <1>1, <1>2, <1>3, <1>4, InsertStep

\* So does its reading of the tick when the insertion is still to come,
LEMMA SetTimerReadKeeps ==
    ASSUME TimerInv, NEW d \in Delays, SetTimerRead(d)
    PROVE  TimerInv'
<1> DEFINE e == Entry(nset + 1, d)
<1>1. /\ e \in TimerEntry /\ RightDeadline(e) /\ e.id = nset + 1 /\ nset \in Nat
      /\ \A i \in 1 .. Len(timer_list) : timer_list[i].id # e.id
      /\ \A f \in preempted \cup fired : f.id # e.id
  BY EntryRight
<1>2. /\ nset' = nset + 1 /\ preempted = {} /\ preempted' = {e}
      /\ tick' = tick /\ timer_list' = timer_list /\ fired' = fired /\ crashed' = crashed
  BY DEF SetTimerRead
<1> HIDE DEF e
<1>3. TypeInv' /\ TimerListSorted' /\ DeadlineInv' /\ NeverEarly'
  BY <1>1, <1>2 DEF TimerInv, TypeInv, TimerListSorted, DeadlineInv, NeverEarly
<1>4. OnePlace'
  BY <1>1, <1>2 DEF TimerInv, OnePlace
<1>5. /\ (\A x \in 0 .. nset : x \in 0 .. nset') /\ (\A x \in 1 .. nset : x \in 1 .. nset')
      /\ e.id \in 1 .. nset' /\ \A id \in 1 .. nset' : id \in 1 .. nset \/ id = e.id
  BY <1>1, <1>2
<1>6. SomePlace'
  BY <1>2, <1>5 DEF TimerInv, SomePlace
<1> QED
  BY <1>3, <1>4, <1>6 DEF TimerInv

\* and the insertion, however much later it is.
LEMMA SetTimerInsertKeeps ==
    ASSUME TimerInv, SetTimerInsert
    PROVE  TimerInv'
<1>1. PICK e \in preempted : timer_list' = set_timer(timer_list, e)
  BY DEF SetTimerInsert
<1>2. /\ ~crashed /\ nset' = nset /\ tick' = tick /\ preempted' = {}
      /\ fired' = fired /\ crashed' = crashed
  BY DEF SetTimerInsert
<1>3. InsertOf(e)
  BY <1>1 DEF InsertOf, TimerInv, TypeInv, DeadlineInv, OnePlace
<1>4. /\ nset' \in Nat /\ e.id \in 1 .. nset' /\ nset <= nset'
      /\ \A f \in preempted : f = e
  BY <1>2 DEF TimerInv, TypeInv, SomePlace, OnePlace
<1> QED
  BY <1>2, <1>3, <1>4, InsertStep

\* The timer interrupt keeps it and leaves no timer that is due.
LEMMA TickKeeps ==
    ASSUME TimerInv, Tick
    PROVE  TimerInv' /\ \A i \in 1 .. Len(timer_list') : timer_list'[i].tick > tick'
<1>1. tick' \in Ticks /\ tick <= tick'
  BY TickAssumption DEF Tick, TimerInv, TypeInv, Ticks
<1> QED
  BY <1>1, LoopKeeps DEF Tick

\* The interrupt whose schedule switches away keeps it,
LEMMA TickSwitchKeeps ==
    ASSUME TimerInv, TickSwitch
    PROVE  TimerInv'
<1>1. /\ tick' \in Ticks /\ ~crashed /\ ~crashed'
      /\ UNCHANGED <<timer_list, preempted, nset, fired>>
  BY TickAssumption DEF TickSwitch, TimerInv, TypeInv, Ticks
<1>2. TypeInv' /\ NeverEarly'
  BY <1>1 DEF TimerInv, TypeInv, NeverEarly
<1> QED
  BY <1>1, <1>2 DEF TimerInv, TimerListSorted, DeadlineInv, OnePlace, SomePlace

\* and so does its second half.
LEMMA TickResumeKeeps ==
    ASSUME TimerInv, TickResume
    PROVE  TimerInv'
<1>1. tick' = tick /\ tick' \in Ticks /\ tick <= tick'
  BY TickAssumption DEF TickResume, TimerInv, TypeInv, Ticks
<1>2. RunExpired(tick')
  BY <1>1 DEF TickResume
<1> QED
  BY <1>1, <1>2, LoopKeeps DEF TickResume

\* Every step keeps the invariant.
LEMMA TimerStep ==
    ASSUME TimerInv, [TimerNext]_vars
    PROVE  TimerInv'
<1>1. CASE UNCHANGED vars
  BY <1>1 DEF vars, TimerInv, TypeInv, TimerListSorted, DeadlineInv, OnePlace, SomePlace, NeverEarly
<1> QED
  BY <1>1, SetTimerKeeps, SetTimerReadKeeps, SetTimerInsertKeeps, TickKeeps, TickSwitchKeeps,
     TickResumeKeeps DEF TimerNext

\* Each number is in one place, once: the counts of TimersConserved.
LEMMA InvConserved ==
    ASSUME TimerInv
    PROVE  TimersConserved
<1>1. ASSUME NEW id \in 1 .. nset
      PROVE  Cardinality({i \in 1 .. Len(timer_list) : timer_list[i].id = id})
             + Cardinality({e \in preempted : e.id = id})
             + Cardinality({f \in fired : f.id = id}) = 1
  <2> DEFINE L == {i \in 1 .. Len(timer_list) : timer_list[i].id = id}
             P == {e \in preempted : e.id = id}
             F == {f \in fired : f.id = id}
  <2>1. /\ \A x, y \in L : x = y
        /\ \A x, y \in P : x = y
        /\ \A x, y \in F : x = y
        /\ L = {} \/ P = {}
        /\ L = {} \/ F = {}
        /\ P = {} \/ F = {}
    BY DEF TimerInv, OnePlace
  <2>2. L # {} \/ P # {} \/ F # {}
    BY <1>1 DEF TimerInv, SomePlace
  <2> HIDE DEF L, P, F
  <2>3. ASSUME NEW S, \A x, y \in S : x = y, S # {} PROVE Cardinality(S) = 1
    <3>1. PICK x : S = {x}
      BY <2>3
    <3> QED
      BY <3>1, FS_Singleton
  <2>4. Cardinality({}) = 0
    BY FS_EmptySet
  <2>5. Cardinality(L) + Cardinality(P) + Cardinality(F) = 1
    <3>1. CASE L # {}
      <4>1. Cardinality(L) = 1 /\ P = {} /\ F = {}
        BY <2>1, <2>3, <3>1
      <4> QED
        BY <2>4, <4>1
    <3>2. CASE P # {}
      <4>1. Cardinality(P) = 1 /\ L = {} /\ F = {}
        BY <2>1, <2>3, <3>2
      <4> QED
        BY <2>4, <4>1
    <3>3. CASE F # {}
      <4>1. Cardinality(F) = 1 /\ L = {} /\ P = {}
        BY <2>1, <2>3, <3>3
      <4> QED
        BY <2>4, <4>1
    <3> QED
      BY <2>2, <3>1, <3>2, <3>3
  <2> QED
    BY <2>5 DEF L, P, F
<1>2. ~crashed => \E i \in 1 .. Len(timer_list) : timer_list[i] = last_timer
  BY DEF TimerInv, SomePlace
<1> QED
  BY <1>1, <1>2 DEF TimersConserved

-----------------------------------------------------------------------------
(* The theorems.                                                           *)

\* The invariant the theorems rest on.
LEMMA TimerInvariant == TimerSpec => []TimerInv
<1>1. TimerInit => TimerInv
  BY TimerInitHolds
<1>2. TimerInv /\ [TimerNext]_vars => TimerInv'
  BY TimerStep
<1> QED
  BY <1>1, <1>2, PTL DEF TimerSpec

\* Whatever interleaving of set_timer, the clock handler and preempted calls: the
\* list int_pit pops from the front is sorted by deadline (timer.c:24-52).
THEOREM ListStaysSorted == TimerSpec => []TimerListSorted
<1>1. TimerInv => TimerListSorted
  BY DEF TimerInv
<1> QED
  BY <1>1, TimerInvariant, PTL

\* No call of set_timer is lost or called twice, for any number of timers and of
\* handlers suspended in task_switch; last_timer stays in the list until the clock
\* is at its last value.
THEOREM NoTimerLost == TimerSpec => []TimersConserved
<1>1. TimerInv => TimersConserved
  BY InvConserved
<1> QED
  BY <1>1, TimerInvariant, PTL

\* No function is called before its time, if its deadline fits in a uint32_t,
\* even when the deadline was computed long before the entry was inserted.
THEOREM CalledInTime == TimerSpec => []NeverEarly
<1>1. TimerInv => NeverEarly
  BY DEF TimerInv
<1> QED
  BY <1>1, TimerInvariant, PTL

\* A tick on which int_pit does not call task_switch leaves no entry whose
\* deadline has passed.
THEOREM NothingOverdue == TimerSpec => NoOverdueAfterTick
<1>1. ASSUME TimerInv, [TimerNext]_vars, tick' # tick, tick' % QUANTUM # 0
      PROVE  \A e \in Entries' : e.tick > tick'
  <2>1. Tick
    BY <1>1 DEF TimerNext, SetTimer, SetTimerRead, SetTimerInsert, TickSwitch, TickResume, vars
  <2> QED
    BY <1>1, <2>1, TickKeeps DEF Entries
<1>2. TimerInv /\ [TimerNext]_vars
        => [tick' # tick /\ tick' % QUANTUM # 0 => \A e \in Entries' : e.tick > tick']_vars
  BY <1>1
<1> QED
  BY <1>2, TimerInvariant, PTL DEF TimerSpec, NoOverdueAfterTick

=============================================================================
