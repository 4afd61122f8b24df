-------------------------------- MODULE List --------------------------------
(***************************************************************************)
(* The singly linked lists of lib/list.c, pointer by pointer.  The link is *)
(* part of the item, so all lists share one heap of links.  The scheduler, *)
(* the work queue, the timers and the sockets use these lists; each        *)
(* operation runs with interrupts disabled and is one step.                *)
(***************************************************************************)
EXTENDS Integers, FiniteSets

CONSTANTS Lists, Items, NULL

ASSUME ListAssumption == IsFiniteSet(Items) /\ NULL \notin Items

VARIABLES
    listctl,    \* [count, head, tail] of each list
    next,       \* the link of each item
    ret         \* what the last list_popfront returned

listvars == <<listctl, next, ret>>

-----------------------------------------------------------------------------
\* list_init: head, tail and count are cleared, the heap is not touched.
ListInit ==
    /\ listctl = [l \in Lists |-> [count |-> 0, head |-> NULL, tail |-> NULL]]
    /\ next = [i \in Items |-> NULL]
    /\ ret = NULL

list_empty(l) == listctl[l].count = 0

\* list_next; nothing follows NULL.
list_next(p) == IF p = NULL THEN NULL ELSE next[p]

\* The items a loop from list_head with list_next meets, up to NULL.  (The loop
\* is cut after as many steps as there are items, as a cycle has no end.)
Chain(l) ==
    LET at[n \in 1 .. Cardinality(Items) + 1] ==
          IF n = 1 THEN listctl[l].head ELSE list_next(at[n - 1])
        len == Cardinality({n \in DOMAIN at : at[n] # NULL})
    IN  [n \in 1 .. len |-> at[n]]

\* Callers put an item into a list when it is in none.
Unlisted == {i \in Items : \A l \in Lists : \A n \in DOMAIN Chain(l) : Chain(l)[n] # i}

-----------------------------------------------------------------------------
list_popfront(l) ==
    IF list_empty(l) THEN ret' = NULL /\ UNCHANGED <<listctl, next>>
    ELSE LET first == listctl[l].head
         IN  /\ listctl' = [listctl EXCEPT ![l].count = @ - 1, ![l].head = next[first]]
             /\ next' = [next EXCEPT ![first] = NULL]
             /\ ret' = first

\* The first item of an empty list.
Sole(l, item) ==
    /\ listctl' = [listctl EXCEPT ![l] = [count |-> @.count + 1, head |-> item, tail |-> item]]
    /\ next' = [next EXCEPT ![item] = NULL]

list_pushfront(l, item) ==
    /\ IF list_empty(l) THEN Sole(l, item)
       ELSE /\ next' = [next EXCEPT ![item] = listctl[l].head]
            /\ listctl' = [listctl EXCEPT ![l].head = item, ![l].count = @ + 1]
    /\ UNCHANGED ret

list_pushback(l, item) ==
    /\ IF list_empty(l) THEN Sole(l, item)
       ELSE /\ next' = [next EXCEPT ![item] = NULL, ![listctl[l].tail] = item]
            /\ listctl' = [listctl EXCEPT ![l].tail = item, ![l].count = @ + 1]
    /\ UNCHANGED ret

\* Insert new_item after prev_item (not NULL).  tail is left as it is.
list_insert(l, prev_item, new_item) ==
    /\ next' = [next EXCEPT ![prev_item] = new_item, ![new_item] = next[prev_item]]
    /\ listctl' = [listctl EXCEPT ![l].count = @ + 1]
    /\ UNCHANGED ret

\* Mutant of list_remove: the tail is not moved when the last item is removed.
list_removeTail(l, prev_item) ==
    LET item == next[prev_item]
    IN  /\ IF item = NULL THEN UNCHANGED <<listctl, next>>
           ELSE /\ next' = [next EXCEPT ![prev_item] = next[item], ![item] = NULL]
                /\ listctl' = [listctl EXCEPT ![l].count = @ - 1]
        /\ UNCHANGED ret

\* Remove the item after prev_item, if there is one.
list_remove(l, prev_item) ==
    LET item == next[prev_item]
    IN  /\ IF item = NULL THEN UNCHANGED <<listctl, next>>
           ELSE /\ next' = [next EXCEPT ![prev_item] = next[item], ![item] = NULL]
                /\ listctl' = [listctl EXCEPT ![l].count = @ - 1,
                                  ![l].tail = IF next[item] = NULL THEN prev_item ELSE @]
        /\ UNCHANGED ret

\* The only caller of list_insert, set_timer, inserts before an entry, as
\* last_timer is always behind: never after the tail.  handle_ack removes after
\* any item.
ListNext ==
    \E l \in Lists :
       \/ \E i \in Unlisted : list_pushfront(l, i) \/ list_pushback(l, i)
       \/ list_popfront(l)
       \/ \E n \in DOMAIN Chain(l) :
             \/ list_remove(l, Chain(l)[n])
             \/ /\ Chain(l)[n] # listctl[l].tail
                /\ \E i \in Unlisted : list_insert(l, Chain(l)[n], i)

ListSpec == ListInit /\ [][ListNext]_listvars

-----------------------------------------------------------------------------
S == INSTANCE ListSeq WITH items <- [l \in Lists |-> Chain(l)]

\* The linked lists implement sequences: after any number of operations, with
\* items moving between lists and a tail that list_popfront leaves dangling,
\* pops, pushes and loops over a list see the right items in the right order,
\* and the other lists are untouched (list.c:17-104).
ListsAreSequences == S!LSpec

=============================================================================
