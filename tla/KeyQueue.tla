------------------------------ MODULE KeyQueue ------------------------------
(***************************************************************************)
(* What the keyboard driver promises its reader: a first-in first-out      *)
(* queue of Capacity keys.  A key typed when the queue is full is dropped; *)
(* a blocking read of the empty queue waits for the next key; a            *)
(* non-blocking one returns 0.                                             *)
(***************************************************************************)
EXTENDS Naturals, Sequences

CONSTANTS Keys, Capacity

VARIABLES
    queue,      \* the keys typed and not yet read
    reader,     \* "idle" or "waiting"
    last        \* what the last read returned

qvars == <<queue, reader, last>>

QInit == queue = << >> /\ reader = "idle" /\ last = 0

Type(k) ==
    /\ queue' = IF Len(queue) < Capacity THEN Append(queue, k) ELSE queue
    /\ UNCHANGED <<reader, last>>

Read ==
    /\ queue # << >>
    /\ last' = Head(queue) /\ queue' = Tail(queue)
    /\ reader' = "idle"

\* A read of the empty queue: non-blocking, and blocking.
Poll == queue = << >> /\ reader = "idle" /\ last' = 0 /\ UNCHANGED <<queue, reader>>

Wait == queue = << >> /\ reader = "idle" /\ reader' = "waiting" /\ UNCHANGED <<queue, last>>

QNext == (\E k \in Keys : Type(k)) \/ Read \/ Poll \/ Wait

\* A waiting reader gets its key once there is one.
QSpec == QInit /\ [][QNext]_qvars /\ WF_qvars(reader = "waiting" /\ Read)

=============================================================================
