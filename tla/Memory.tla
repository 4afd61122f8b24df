------------------------------- MODULE Memory -------------------------------
(***************************************************************************)
(* The memory manager (core/memory.c): blocks of one megabyte, their       *)
(* addresses on a stack of free blocks, a header with a flag at the start  *)
(* of each.  mem_alloc and mem_free run with interrupts disabled and are   *)
(* one step each.  Interrupt handlers, the kernel task and system calls    *)
(* share the one table; each frees what it has been given.                 *)
(***************************************************************************)
EXTENDS Integers, FiniteSets

CONSTANTS
    MEM_TABLE_SIZE,     \* 2000
    NBLOCK,             \* blocks between memstart and memend (1490)
    MEM_GRANULARITY,
    Sizes               \* the sizes asked for

ASSUME MemoryAssumption ==
    /\ {MEM_TABLE_SIZE, NBLOCK, MEM_GRANULARITY} \subseteq Nat
    /\ Sizes \subseteq Nat

VARIABLES
    freemem,    \* [len, addr]: the table of free blocks
    mem_flag,   \* the flag in the header of each block
    held,       \* the blocks given to callers and not yet freed
    error       \* the message of the panic, or "none"

vars == <<freemem, mem_flag, held, error>>

Index == 0 .. MEM_TABLE_SIZE - 1

\* mem_init stops at the end of memory or of the table; block i is the i-th.
InitialLen == IF NBLOCK <= MEM_TABLE_SIZE THEN NBLOCK ELSE MEM_TABLE_SIZE
Block == 0 .. InitialLen - 1

-----------------------------------------------------------------------------
MemInit ==
    /\ freemem = [len  |-> InitialLen,
                  addr |-> [i \in Index |-> IF i < InitialLen THEN i ELSE 0]]
    /\ mem_flag = [b \in Block |-> "FREE"]
    /\ held = {}
    /\ error = "none"

Panic(message) == error' = message /\ UNCHANGED <<freemem, mem_flag, held>>

mem_alloc(size) ==
    /\ error = "none"
    /\ IF size > MEM_GRANULARITY THEN Panic("large memory req")
       ELSE IF freemem.len = 0 THEN Panic("not enough memory")
       ELSE LET b == freemem.addr[freemem.len - 1]
            IN  IF mem_flag[b] # "FREE" THEN Panic("allocate invalid address")
                ELSE /\ freemem' = [freemem EXCEPT !.len = @ - 1]
                     /\ mem_flag' = [mem_flag EXCEPT ![b] = "USED"]
                     /\ held' = held \cup {b}
                     /\ UNCHANGED error

\* A block goes back to the table: its entry at position i, its flag set to flag.
GivesBack(b, i, flag) ==
    /\ freemem' = [len |-> freemem.len + 1, addr |-> [freemem.addr EXCEPT ![i] = b]]
    /\ mem_flag' = [mem_flag EXCEPT ![b] = flag]
    /\ held' = held \ {b}
    /\ UNCHANGED error

\* Mutant of mem_free: the length is incremented before it is used.
mem_freeNext(b) ==
    /\ error = "none" /\ b \in held
    /\ GivesBack(b, freemem.len + 1, "FREE")

\* Mutant of mem_free: the limit of the table is one lower.
mem_freeEarlyLimit(b) ==
    /\ error = "none" /\ b \in held
    /\ IF freemem.len >= MEM_TABLE_SIZE - 2 THEN Panic("invalid mem free")
       ELSE GivesBack(b, freemem.len, "FREE")

mem_free(b) ==
    /\ error = "none" /\ b \in held
    /\ IF freemem.len >= MEM_TABLE_SIZE - 1 THEN Panic("invalid mem free")
       ELSE IF mem_flag[b] # "USED" THEN Panic("free invalid address")
       ELSE GivesBack(b, freemem.len, "FREE")

MemNext == (\E size \in Sizes : mem_alloc(size)) \/ (\E b \in held : mem_free(b))

MemSpec == MemInit /\ [][MemNext]_vars

-----------------------------------------------------------------------------
\* The table, the flags and the callers' blocks keep to their types
\* (memory.c:16-31).
MemTypeOK ==
    /\ freemem \in [len : 0 .. MEM_TABLE_SIZE, addr : [Index -> Nat]]
    /\ mem_flag \in [Block -> {"FREE", "USED"}]
    /\ held \subseteq Block
    /\ error \in {"none", "large memory req", "not enough memory",
                  "allocate invalid address", "invalid mem free", "free invalid address"}

InTable == {freemem.addr[i] : i \in 0 .. freemem.len - 1}

\* No block has two owners: a block is in the table, once, with the flag FREE,
\* or held by the one caller it was given to, with the flag USED (mem_alloc,
\* mem_free).
BlocksConserved ==
    /\ held \cap InTable = {}
    /\ held \cup InTable = Block
    /\ \A i, j \in 0 .. freemem.len - 1 : freemem.addr[i] = freemem.addr[j] => i = j
    /\ \A b \in Block : mem_flag[b] = IF b \in held THEN "USED" ELSE "FREE"

\* A caller that frees what it was given is never punished: the only panics are
\* a request that is too large and the end of memory (memory.c:74-85, 120-124).
\* The table must have a spare entry, as it does with 1490 blocks in 2000: with
\* the table full from the start the first free would find it full.
OnlyAllocPanics ==
    NBLOCK < MEM_TABLE_SIZE =>
      error \in {"none", "large memory req", "not enough memory"}

\* What the proofs carry along: every free block has its entry in the table.
CountConserved == freemem.len + Cardinality(held) = InitialLen

MemInv == MemTypeOK /\ BlocksConserved /\ CountConserved /\ OnlyAllocPanics

=============================================================================
