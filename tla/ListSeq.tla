------------------------------ MODULE ListSeq -------------------------------
(***************************************************************************)
(* What the lists of lib/list.c promise: each list is a sequence of items, *)
(* an item is in one list at most, and an operation on one list leaves the *)
(* others alone.                                                           *)
(***************************************************************************)
EXTENDS Naturals, Sequences, SequencesExt

CONSTANTS Lists, Items, NULL

VARIABLES
    items,      \* the sequence in each list
    ret         \* what the last list_popfront returned

lvars == <<items, ret>>

LInit == items = [l \in Lists |-> << >>] /\ ret = NULL

Unlisted == {i \in Items : \A l \in Lists : i \notin ToSet(items[l])}

Becomes(l, seq) == items' = [items EXCEPT ![l] = seq]

LPushFront(l, i) == Becomes(l, <<i>> \o items[l]) /\ UNCHANGED ret
LPushBack(l, i)  == Becomes(l, Append(items[l], i)) /\ UNCHANGED ret

LPopFront(l) ==
    \/ items[l] = << >> /\ ret' = NULL /\ UNCHANGED items
    \/ items[l] # << >> /\ ret' = Head(items[l]) /\ Becomes(l, Tail(items[l]))

\* Behind the k-th item, which is not the last one.
LInsert(l, k, i) == Becomes(l, InsertAt(items[l], k + 1, i)) /\ UNCHANGED ret

\* The item behind the k-th.
LRemove(l, k) == Becomes(l, RemoveAt(items[l], k + 1)) /\ UNCHANGED ret

LNext ==
    \E l \in Lists :
       \/ \E i \in Unlisted : LPushFront(l, i) \/ LPushBack(l, i)
       \/ LPopFront(l)
       \/ \E k \in 1 .. Len(items[l]) - 1 :
             LRemove(l, k) \/ \E i \in Unlisted : LInsert(l, k, i)

\* The same as LNext under [][...]_lvars, and refuted at once where nothing
\* changes.
LChange == lvars' # lvars /\ LNext

LSpec == LInit /\ [][LChange]_lvars

=============================================================================
