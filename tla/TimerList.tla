------------------------------ MODULE TimerList ------------------------------
(***************************************************************************)
(* The sorted list of kernel/core/timer.c: what set_timer and the loop of  *)
(* int_pit do to it.  An entry is a record with a field tick, its          *)
(* deadline; the list starts with one entry, last_timer, whose deadline is *)
(* the largest uint32_t and whose function is NULL.                        *)
(***************************************************************************)
EXTENDS Integers, Sequences

CONSTANT TICK_MAX       \* 2^32 - 1 in the code

ASSUME TickAssumption == TICK_MAX \in Nat

\* Deadlines are uint32_t sums.
Deadline(now, delay) == (now + delay) % (TICK_MAX + 1)

\* The length of the run of entries at the front whose deadline is not after t.
\* set_timer walks past this run; the loop of int_pit pops it.
FrontUpTo(list, t) ==
    CHOOSE k \in 0 .. Len(list) :
        /\ \A i \in 1 .. k : list[i].tick <= t
        /\ k < Len(list) => list[k + 1].tick > t

\* Mutant of set_timer: always list_pushfront.
set_timerFront(list, entry) == <<entry>> \o list

\* Mutant of set_timer: the entry goes to the end of the list.
set_timerBack(list, entry) == Append(list, entry)

\* list_pushfront when the new deadline is before the head's, list_insert
\* behind the last entry that is not later otherwise: among equal deadlines,
\* first come first served.
set_timer(list, entry) ==
    LET k == FrontUpTo(list, entry.tick)
    IN  SubSeq(list, 1, k) \o <<entry>> \o SubSeq(list, k + 1, Len(list))

\* The entries the loop of int_pit calls, in order, and what it leaves.
Expired(list, now) == SubSeq(list, 1, FrontUpTo(list, now))

\* Mutant of Unexpired: the entries are called but not popped.
UnexpiredKept(list, now) == list

\* Mutant of Unexpired: an entry is popped before its deadline is looked at.
UnexpiredPopped(list, now) ==
    SubSeq(list, FrontUpTo(list, now) + 2, Len(list))

Unexpired(list, now) == SubSeq(list, FrontUpTo(list, now) + 1, Len(list))

IsSorted(list) ==
    \A i, j \in 1 .. Len(list) : i < j => list[i].tick <= list[j].tick

=============================================================================
