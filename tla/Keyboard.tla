------------------------------ MODULE Keyboard ------------------------------
(***************************************************************************)
(* The keyboard driver (core/keyboard.c): the interrupt handler puts keys  *)
(* into a ring buffer and wakes the reader, the system call key_getc takes *)
(* them out.  Both run with interrupts disabled; key_getc gives the        *)
(* processor away in task_sleep, and its end is a step of its own.         *)
(***************************************************************************)
EXTENDS Integers, Sequences

CONSTANTS
    KEY_BUF_LEN,        \* 1024
    KEY_TABLE_SIZE,     \* 58
    keytable,           \* scan code -> character, 0 for none
    ScanCodes           \* what port 0x60 can deliver; releases are >= KEY_TABLE_SIZE

ASSUME KeyboardAssumption ==
    /\ KEY_BUF_LEN \in Nat \ {0, 1}
    /\ KEY_TABLE_SIZE \in Nat
    /\ ScanCodes \subseteq Nat
    /\ keytable \in [0 .. KEY_TABLE_SIZE - 1 -> Nat]

VARIABLES
    key_buf, key_buf_read, key_buf_write, key_buf_size,
    getc,       \* key_getc: "idle", "asleep" on key_cond, or "woken"
    got         \* what the last key_getc returned

ring == <<key_buf, key_buf_read, key_buf_write, key_buf_size>>
keyvars == <<key_buf, key_buf_read, key_buf_write, key_buf_size, getc, got>>

Keys == {keytable[c] : c \in 0 .. KEY_TABLE_SIZE - 1} \ {0}

-----------------------------------------------------------------------------
key_buf_empty == key_buf_size = 0
key_buf_full  == key_buf_size = KEY_BUF_LEN - 1

key_buf_push(key) ==
    IF key_buf_full THEN UNCHANGED ring
    ELSE /\ key_buf' = [key_buf EXCEPT ![key_buf_write] = key]
         /\ key_buf_write' = (key_buf_write + 1) % KEY_BUF_LEN
         /\ key_buf_size' = key_buf_size + 1
         /\ UNCHANGED key_buf_read

\* Mutant of key_buf_pop: the read index is advanced before the key is read.
key_buf_popAdvanced ==
    IF key_buf_empty THEN got' = 0 /\ UNCHANGED ring
    ELSE /\ key_buf_read' = (key_buf_read + 1) % KEY_BUF_LEN
         /\ got' = key_buf[key_buf_read']
         /\ key_buf_size' = key_buf_size - 1
         /\ UNCHANGED <<key_buf, key_buf_write>>

\* Pops the oldest key, or returns 0.
key_buf_pop ==
    IF key_buf_empty THEN got' = 0 /\ UNCHANGED ring
    ELSE /\ got' = key_buf[key_buf_read]
         /\ key_buf_read' = (key_buf_read + 1) % KEY_BUF_LEN
         /\ key_buf_size' = key_buf_size - 1
         /\ UNCHANGED <<key_buf, key_buf_write>>

\* Codes outside the table and keys without a character do nothing; the reader
\* is woken even when the buffer was full.
int_keyboard ==
    \E ch \in ScanCodes :
      /\ ch < KEY_TABLE_SIZE /\ keytable[ch] # 0
      /\ key_buf_push(keytable[ch])
      /\ getc' = IF getc = "asleep" THEN "woken" ELSE getc
      /\ UNCHANGED got

\* Up to its task_sleep, or to its end.
key_getc(is_blocking) ==
    /\ getc = "idle"
    /\ IF key_buf_empty /\ is_blocking
       THEN getc' = "asleep" /\ UNCHANGED <<ring, got>>
       ELSE key_buf_pop /\ UNCHANGED getc

\* key_getc after task_sleep.
KeyGetcWoken == getc = "woken" /\ getc' = "idle" /\ key_buf_pop

\* init_keyboard; the contents of the buffer are left as they are (0 at boot).
KeyboardInit ==
    /\ key_buf = [i \in 0 .. KEY_BUF_LEN - 1 |-> 0]
    /\ key_buf_read = 0 /\ key_buf_write = 0 /\ key_buf_size = 0
    /\ getc = "idle" /\ got = 0

KeyboardNext == int_keyboard \/ (\E b \in BOOLEAN : key_getc(b)) \/ KeyGetcWoken

\* The woken task is scheduled again: it is in a round-robin ready list.
KeyboardSpec == KeyboardInit /\ [][KeyboardNext]_keyvars /\ WF_keyvars(KeyGetcWoken)

-----------------------------------------------------------------------------
\* The ring's indices, its size and the reader keep to their types
\* (keyboard.c:24-30).
KeyboardTypeOK ==
    /\ key_buf \in [0 .. KEY_BUF_LEN - 1 -> Keys \cup {0}]
    /\ {key_buf_read, key_buf_write} \subseteq 0 .. KEY_BUF_LEN - 1
    /\ key_buf_size \in 0 .. KEY_BUF_LEN - 1
    /\ getc \in {"idle", "asleep", "woken"}

\* The keys in the ring, oldest first.
Contents ==
    [i \in 1 .. key_buf_size |-> key_buf[(key_buf_read + i - 1) % KEY_BUF_LEN]]

Q == INSTANCE KeyQueue WITH Capacity <- KEY_BUF_LEN - 1, queue <- Contents,
        reader <- IF getc = "idle" THEN "idle" ELSE "waiting", last <- got

\* The driver implements the bounded queue: no key is lost, overwritten or read
\* twice while the ring wraps around, and the reader that sleeps on the empty
\* buffer gets the next key and never 0, although key_getc does not look again
\* whether there is one (key_buf_push, key_buf_pop, key_getc).
KeyQueueSpec == Q!QSpec

=============================================================================
