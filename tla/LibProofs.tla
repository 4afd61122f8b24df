----------------------------- MODULE LibProofs -----------------------------
(***************************************************************************)
(* Proofs about the parts that stand on their own: the memory manager      *)
(* (Memory.tla) hands no block out twice and never panics on a legal free; *)
(* the ring buffer of the keyboard driver (Keyboard.tla) implements a      *)
(* queue; characters on the screen (Screen.tla) are not overwritten; the   *)
(* blocks of packets, works and timers (Buffers.tla) have one owner; the   *)
(* linked lists (List.tla) implement sequences; a receiver accepts the     *)
(* checksums (Checksum.tla).                                               *)
(***************************************************************************)
EXTENDS Memory, Keyboard, Screen, Buffers, List, Checksum,
        FiniteSetTheorems, SequenceTheorems, WellFoundedInduction, TLAPS

-----------------------------------------------------------------------------
(* The memory manager, for every size of the table and of the memory.      *)

\* The constants are numbers; there are no more blocks than table entries.
LEMMA MemoryConstants ==
    /\ MEM_TABLE_SIZE \in Nat /\ NBLOCK \in Nat /\ MEM_GRANULARITY \in Nat
    /\ InitialLen \in Nat /\ InitialLen <= MEM_TABLE_SIZE /\ InitialLen <= NBLOCK
    /\ Sizes \subseteq Nat
  BY MemoryAssumption DEF InitialLen

\* Sets of blocks are finite.
LEMMA HeldFinite ==
    ASSUME NEW B, B \subseteq Block
    PROVE  IsFiniteSet(B) /\ Cardinality(B) \in Nat
<1>1. IsFiniteSet(Block)
  BY MemoryConstants, FS_Interval DEF Block
<1> QED
  BY <1>1, FS_Subset, FS_CardinalityType

\* After mem_init every block is in the table, once.
LEMMA MemInitHolds == MemInit => MemInv
<1> SUFFICES ASSUME MemInit PROVE MemInv
  OBVIOUS
<1> USE MemoryConstants
<1>1. /\ freemem.len = InitialLen /\ held = {} /\ error = "none"
      /\ freemem.addr = [i \in Index |-> IF i < InitialLen THEN i ELSE 0]
      /\ mem_flag = [b \in Block |-> "FREE"]
  BY DEF MemInit
<1>2. \A i \in 0 .. freemem.len - 1 : freemem.addr[i] = i
  BY <1>1 DEF Index
<1>3. MemTypeOK
  <2>1. InitialLen \in 0 .. MEM_TABLE_SIZE
    OBVIOUS
  <2>2. [i \in Index |-> IF i < InitialLen THEN i ELSE 0] \in [Index -> Nat]
    BY DEF Index
  <2>3. freemem \in [len : 0 .. MEM_TABLE_SIZE, addr : [Index -> Nat]]
    BY <2>1, <2>2 DEF MemInit
  <2> QED
    BY <1>1, <2>3 DEF MemTypeOK
<1>4. InTable = Block
  BY <1>1, <1>2 DEF InTable, Block
<1>5. BlocksConserved
  BY <1>1, <1>2, <1>4 DEF BlocksConserved
<1>6. CountConserved
  BY <1>1, FS_EmptySet DEF CountConserved
<1>7. OnlyAllocPanics
  BY <1>1 DEF OnlyAllocPanics
<1> QED
  BY <1>3, <1>5, <1>6, <1>7 DEF MemInv

\* A step that changes at most the error, and to one that is allowed.
LEMMA MemSameTables ==
    ASSUME MemInv, UNCHANGED <<freemem, mem_flag, held>>,
           error' = error \/ error' \in {"large memory req", "not enough memory"}
             \/ (error' = "invalid mem free" /\ ~(NBLOCK < MEM_TABLE_SIZE))
    PROVE  MemInv'
<1>1. freemem' = freemem /\ mem_flag' = mem_flag /\ held' = held
  OBVIOUS
<1>2. MemTypeOK'
  BY <1>1 DEF MemInv, MemTypeOK
<1>3. InTable' = InTable
  BY <1>1 DEF InTable
<1>4. BlocksConserved'
  BY <1>1, <1>3 DEF MemInv, BlocksConserved
<1>5. CountConserved'
  BY <1>1 DEF MemInv, CountConserved
<1>6. OnlyAllocPanics'
  BY DEF MemInv, OnlyAllocPanics
<1> QED
  BY <1>2, <1>4, <1>5, <1>6 DEF MemInv

\* mem_alloc takes the last entry of the table: a free block that is in no
\* other entry.
LEMMA MemAllocKeeps ==
    ASSUME MemInv, NEW size \in Sizes, mem_alloc(size)
    PROVE  MemInv'
<1> USE MemoryConstants
<1> DEFINE n == freemem.len
           b == freemem.addr[n - 1]
<1>0. /\ MemTypeOK /\ BlocksConserved /\ CountConserved /\ OnlyAllocPanics
  BY DEF MemInv
<1>1. n \in 0 .. MEM_TABLE_SIZE /\ freemem.addr \in [Index -> Nat]
  BY <1>0 DEF MemTypeOK
<1>2. ASSUME n # 0
      PROVE  b \in Block /\ b \notin held /\ mem_flag[b] = "FREE"
  <2>1. b \in InTable
    BY <1>1, <1>2 DEF InTable
  <2> QED
    BY <2>1, <1>0 DEF BlocksConserved
<1>3. CASE error' # "none"
  <2>1. UNCHANGED <<freemem, mem_flag, held>>
        /\ error' \in {"large memory req", "not enough memory"}
    BY <1>2, <1>3 DEF mem_alloc, Panic
  <2> QED
    BY <2>1, MemSameTables
<1>4. CASE error' = "none"
  <2>1. /\ n # 0 /\ UNCHANGED error
        /\ freemem' = [freemem EXCEPT !.len = n - 1]
        /\ mem_flag' = [mem_flag EXCEPT ![b] = "USED"]
        /\ held' = held \cup {b}
    BY <1>4 DEF mem_alloc, Panic
  <2>2. /\ b \in Block /\ b \notin held
        /\ freemem'.len = n - 1 /\ freemem'.addr = freemem.addr
        /\ freemem' \in [len : 0 .. MEM_TABLE_SIZE, addr : [Index -> Nat]]
    <3>1. freemem \in [len : 0 .. MEM_TABLE_SIZE, addr : [Index -> Nat]]
      BY <1>0 DEF MemTypeOK
    <3>2. n - 1 \in 0 .. MEM_TABLE_SIZE
      BY <1>1, <2>1
    <3> QED
      BY <1>2, <2>1, <3>1, <3>2
  <2> HIDE DEF n, b
  <2>3. MemTypeOK'
    BY <1>0, <2>1, <2>2 DEF MemTypeOK
  <2>4. \A i, j \in 0 .. n - 1 : freemem.addr[i] = freemem.addr[j] => i = j
    BY <1>0 DEF BlocksConserved, n
  <2>5. InTable' = InTable \ {b}
    BY <1>1, <2>1, <2>2, <2>4 DEF InTable, n, b
  <2>6. BlocksConserved'
    <3>1. held' \cap InTable' = {} /\ held' \cup InTable' = Block
      BY <1>0, <2>1, <2>2, <2>5 DEF BlocksConserved
    <3>2. \A i, j \in 0 .. n - 2 : freemem'.addr[i] = freemem'.addr[j] => i = j
      BY <1>1, <2>1, <2>2, <2>4
    <3>3. \A c \in Block : mem_flag'[c] = IF c \in held' THEN "USED" ELSE "FREE"
      BY <1>0, <2>1, <2>2 DEF BlocksConserved, MemTypeOK
    <3> QED
      BY <1>1, <3>1, <3>2, <3>3, <2>1, <2>2 DEF BlocksConserved
  <2>7. CountConserved'
    <3>1. IsFiniteSet(held) /\ Cardinality(held) \in Nat
      BY <1>0, HeldFinite DEF MemTypeOK
    <3>2. Cardinality(held') = Cardinality(held) + 1
      BY <3>1, <2>1, <2>2, FS_AddElement
    <3> QED
      BY <1>0, <1>1, <3>1, <3>2, <2>2 DEF CountConserved, n
  <2>8. OnlyAllocPanics'
    BY <1>4 DEF OnlyAllocPanics
  <2> QED
    BY <2>3, <2>6, <2>7, <2>8 DEF MemInv
<1> QED
  BY <1>3, <1>4

\* mem_free finds room in the table, since a block is held, and the flag it
\* expects.
LEMMA MemFreeKeeps ==
    ASSUME MemInv, NEW b \in held, mem_free(b)
    PROVE  MemInv'
<1> USE MemoryConstants
<1> DEFINE n == freemem.len
<1>0. /\ MemTypeOK /\ BlocksConserved /\ CountConserved /\ OnlyAllocPanics
  BY DEF MemInv
<1>1. /\ n \in 0 .. MEM_TABLE_SIZE /\ freemem.addr \in [Index -> Nat]
      /\ b \in Block /\ b \in Nat
  <2>1. b \in Block
    BY <1>0 DEF MemTypeOK
  <2>2. n \in 0 .. MEM_TABLE_SIZE /\ freemem.addr \in [Index -> Nat]
    BY <1>0 DEF MemTypeOK
  <2>3. b \in Nat
    BY <2>1 DEF Block
  <2> QED
    BY <2>1, <2>2, <2>3
<1>2. IsFiniteSet(held) /\ Cardinality(held) \in Nat \ {0}
  BY <1>0, HeldFinite, FS_EmptySet DEF MemTypeOK
<1>3. n < InitialLen
  BY <1>0, <1>1, <1>2 DEF CountConserved
<1>4. mem_flag[b] = "USED"
  BY <1>0, <1>1 DEF BlocksConserved
<1>5. CASE n >= MEM_TABLE_SIZE - 1
  <2>1. ~(NBLOCK < MEM_TABLE_SIZE)
    BY <1>1, <1>3, <1>5
  <2>2. UNCHANGED <<freemem, mem_flag, held>> /\ error' = "invalid mem free"
    BY <1>5 DEF mem_free, GivesBack, Panic
  <2> QED
    BY <2>1, <2>2, MemSameTables
<1>6. CASE ~(n >= MEM_TABLE_SIZE - 1)
  <2>1. /\ error = "none" /\ UNCHANGED error
        /\ freemem' = [len |-> n + 1, addr |-> [freemem.addr EXCEPT ![n] = b]]
        /\ mem_flag' = [mem_flag EXCEPT ![b] = "FREE"]
        /\ held' = held \ {b}
    BY <1>4, <1>6 DEF mem_free, GivesBack
  <2>2. /\ n \in Index /\ n + 1 \in 0 .. MEM_TABLE_SIZE
        /\ freemem'.len = n + 1 /\ freemem'.addr \in [Index -> Nat]
        /\ freemem'.addr[n] = b
        /\ \A i \in 0 .. n - 1 : freemem'.addr[i] = freemem.addr[i]
    <3>1. n \in Index /\ n + 1 \in 0 .. MEM_TABLE_SIZE
      BY <1>1, <1>3, <1>6 DEF Index
    <3> QED
      BY <1>1, <2>1, <3>1 DEF Index
  <2>3. MemTypeOK'
    <3>1. freemem' \in [len : 0 .. MEM_TABLE_SIZE, addr : [Index -> Nat]]
      BY <2>1, <2>2
    <3> QED
      BY <1>0, <2>1, <3>1 DEF MemTypeOK
  <2> HIDE DEF n
  <2>4. InTable' = InTable \cup {b}
    BY <1>1, <2>2 DEF InTable, n
  <2>5. b \notin InTable
    BY <1>0 DEF BlocksConserved
  <2>6. BlocksConserved'
    <3>1. held' \cap InTable' = {} /\ held' \cup InTable' = Block
      BY <1>0, <1>1, <2>1, <2>4 DEF BlocksConserved
    <3>2. \A i, j \in 0 .. n : freemem'.addr[i] = freemem'.addr[j] => i = j
      <4>1. \A i, j \in 0 .. n - 1 : freemem.addr[i] = freemem.addr[j] => i = j
        BY <1>0 DEF BlocksConserved, n
      <4>2. \A i \in 0 .. n - 1 : freemem.addr[i] # b
        BY <2>5 DEF InTable, n
      <4> QED
        BY <4>1, <4>2, <1>1, <2>2
    <3>3. \A c \in Block : mem_flag'[c] = IF c \in held' THEN "USED" ELSE "FREE"
      BY <1>0, <2>1 DEF BlocksConserved, MemTypeOK
    <3> QED
      BY <1>1, <3>1, <3>2, <3>3, <2>2 DEF BlocksConserved
  <2>7. CountConserved'
    <3>1. Cardinality(held') = Cardinality(held) - 1
      BY <1>2, <2>1, FS_RemoveElement
    <3> QED
      BY <1>0, <1>1, <1>2, <3>1, <2>2 DEF CountConserved, n
  <2>8. OnlyAllocPanics'
    BY <2>1 DEF OnlyAllocPanics
  <2> QED
    BY <2>3, <2>6, <2>7, <2>8 DEF MemInv
<1> QED
  BY <1>5, <1>6

\* The memory manager is correct (memory.c: mem_init, mem_alloc, mem_free): at
\* every moment the types hold, every block is in the table once or held by one
\* caller, and the number of both adds up.
THEOREM MemInvariant == MemSpec => []MemInv
<1>1. MemInit => MemInv
  BY MemInitHolds
<1>2. MemInv /\ [MemNext]_vars => MemInv'
  <2> SUFFICES ASSUME MemInv, [MemNext]_vars PROVE MemInv'
    OBVIOUS
  <2>1. ASSUME NEW size \in Sizes, mem_alloc(size) PROVE MemInv'
    BY <2>1, MemAllocKeeps
  <2>2. ASSUME NEW b \in held, mem_free(b) PROVE MemInv'
    BY <2>2, MemFreeKeeps
  <2>3. CASE UNCHANGED vars
    BY <2>3, MemSameTables DEF vars
  <2> QED
    BY <2>1, <2>2, <2>3 DEF MemNext
<1> QED
  BY <1>1, <1>2, PTL DEF MemSpec

\* No block has two owners (mem_alloc, mem_free).
THEOREM BlocksHaveOneOwner == MemSpec => []BlocksConserved
<1>1. MemInv => BlocksConserved
  BY DEF MemInv
<1> QED
  BY <1>1, MemInvariant, PTL

\* With a spare entry in the table, freeing what was allocated never panics
\* (memory.c:74-84).
THEOREM LegalFreeNeverPanics == MemSpec => []OnlyAllocPanics
<1>1. MemInv => OnlyAllocPanics
  BY DEF MemInv
<1> QED
  BY <1>1, MemInvariant, PTL

-----------------------------------------------------------------------------
(* The keyboard driver, for every length of the ring and every key table:  *)
(* what its steps do to the ring, the steps of the queue do to a sequence. *)

\* The reader sleeps on an empty buffer, and is woken with a key in it.
KeyInv ==
    /\ KeyboardTypeOK
    /\ key_buf_write = (key_buf_read + key_buf_size) % KEY_BUF_LEN
    /\ getc = "asleep" => key_buf_size = 0
    /\ getc = "woken" => key_buf_size > 0

RingIndex == 0 .. KEY_BUF_LEN - 1
RingCell == Keys \cup {0}

\* An index that has gone round the ring once.
Wrap(x) == IF x < KEY_BUF_LEN THEN x ELSE x - KEY_BUF_LEN

-----------------------------------------------------------------------------
\* The remainder of an index that is less than twice round.
LEMMA ModIsWrap ==
    ASSUME NEW x \in Nat, x < KEY_BUF_LEN + KEY_BUF_LEN
    PROVE  x % KEY_BUF_LEN = Wrap(x) /\ Wrap(x) \in RingIndex
<1>1. KEY_BUF_LEN \in Nat /\ KEY_BUF_LEN > 1
  BY KeyboardAssumption
<1>2. CASE x < KEY_BUF_LEN
  BY <1>1, <1>2 DEF Wrap, RingIndex
<1>3. CASE ~(x < KEY_BUF_LEN)
  BY <1>1, <1>3 DEF Wrap, RingIndex
<1> QED
  BY <1>2, <1>3

\* The n keys of a ring from the index r on.
Stretch(buf, r, n) == [i \in 1 .. n |-> buf[Wrap(r + i - 1)]]

\* A stretch of the ring is the sequence of its characters from the reading
\* place.
LEMMA StretchIsSeq ==
    ASSUME NEW buf \in [RingIndex -> RingCell], NEW r \in RingIndex, NEW n \in RingIndex
    PROVE  /\ [i \in 1 .. n |-> buf[(r + i - 1) % KEY_BUF_LEN]] = Stretch(buf, r, n)
           /\ Stretch(buf, r, n) \in Seq(RingCell)
           /\ Len(Stretch(buf, r, n)) = n
<1>1. KEY_BUF_LEN \in Nat /\ KEY_BUF_LEN > 1
  BY KeyboardAssumption
<1>2. \A i \in 1 .. n :
        (r + i - 1) % KEY_BUF_LEN = Wrap(r + i - 1) /\ Wrap(r + i - 1) \in RingIndex
  <2> TAKE i \in 1 .. n
  <2>1. r + i - 1 \in Nat /\ r + i - 1 < KEY_BUF_LEN + KEY_BUF_LEN
    BY <1>1 DEF RingIndex
  <2> QED
    BY <2>1, ModIsWrap
<1>3. n \in Nat
  BY <1>1 DEF RingIndex
<1>4. Stretch(buf, r, n) \in [1 .. n -> RingCell]
  BY <1>2 DEF Stretch
<1>5. [i \in 1 .. n |-> buf[(r + i - 1) % KEY_BUF_LEN]] = Stretch(buf, r, n)
  BY <1>2 DEF Stretch
<1> QED
  BY <1>3, <1>4, <1>5

\* The queue a well-typed ring stands for, before and after a step.
LEMMA ContentsIsStretch ==
    /\ KeyboardTypeOK =>
         /\ Contents = Stretch(key_buf, key_buf_read, key_buf_size)
         /\ Contents \in Seq(RingCell) /\ Len(Contents) = key_buf_size
    /\ KeyboardTypeOK' =>
         /\ Contents' = Stretch(key_buf', key_buf_read', key_buf_size')
         /\ Contents' \in Seq(RingCell) /\ Len(Contents') = key_buf_size'
<1>1. KeyboardTypeOK =>
        key_buf \in [RingIndex -> RingCell] /\ key_buf_read \in RingIndex /\ key_buf_size \in RingIndex
  BY DEF KeyboardTypeOK, RingIndex, RingCell
<1>2. KeyboardTypeOK' =>
        key_buf' \in [RingIndex -> RingCell] /\ key_buf_read' \in RingIndex /\ key_buf_size' \in RingIndex
  BY DEF KeyboardTypeOK, RingIndex, RingCell
<1>3. ASSUME KeyboardTypeOK
      PROVE  /\ Contents = Stretch(key_buf, key_buf_read, key_buf_size)
             /\ Contents \in Seq(RingCell) /\ Len(Contents) = key_buf_size
  <2>1. Contents = Stretch(key_buf, key_buf_read, key_buf_size)
    BY <1>1, <1>3, StretchIsSeq DEF Contents
  <2> QED
    BY <1>1, <1>3, <2>1, StretchIsSeq
<1>4. ASSUME KeyboardTypeOK'
      PROVE  /\ Contents' = Stretch(key_buf', key_buf_read', key_buf_size')
             /\ Contents' \in Seq(RingCell) /\ Len(Contents') = key_buf_size'
  <2>1. Contents' = Stretch(key_buf', key_buf_read', key_buf_size')
    BY <1>2, <1>4, StretchIsSeq DEF Contents
  <2> QED
    BY <1>2, <1>4, <2>1, StretchIsSeq
<1> QED
  BY <1>3, <1>4

\* key_buf_push appends, when there is room.
LEMMA PushAppends ==
    ASSUME KeyInv, NEW key \in Keys, key_buf_push(key), getc' \in {"idle", "asleep", "woken"}
    PROVE  /\ KeyboardTypeOK'
           /\ key_buf_write' = (key_buf_read' + key_buf_size') % KEY_BUF_LEN
           /\ Contents' = IF Len(Contents) < KEY_BUF_LEN - 1
                          THEN Append(Contents, key) ELSE Contents
           /\ key_buf_size' = IF key_buf_full THEN key_buf_size ELSE key_buf_size + 1
<1>1. KEY_BUF_LEN \in Nat /\ KEY_BUF_LEN > 1
  BY KeyboardAssumption
<1>2. KeyboardTypeOK
  BY DEF KeyInv
<1> DEFINE r == key_buf_read  w == key_buf_write  n == key_buf_size
<1>3. r \in RingIndex /\ w \in RingIndex /\ n \in RingIndex /\ w = Wrap(r + n)
  <2>1. r \in RingIndex /\ w \in RingIndex /\ n \in RingIndex
    BY <1>2 DEF KeyboardTypeOK, RingIndex, RingCell
  <2>2. r + n \in Nat /\ r + n < KEY_BUF_LEN + KEY_BUF_LEN
    BY <1>1, <2>1 DEF RingIndex
  <2> QED
    BY <2>1, <2>2, ModIsWrap DEF KeyInv
<1>4. CASE key_buf_full
  <2>1. UNCHANGED ring
    BY <1>4 DEF key_buf_push
  <2>2. KeyboardTypeOK'
    BY <1>2, <2>1 DEF ring, KeyboardTypeOK
  <2>3. Contents' = Contents
    BY <2>1 DEF ring, Contents
  <2>4. Len(Contents) = KEY_BUF_LEN - 1
    BY <1>2, <1>4, ContentsIsStretch DEF key_buf_full
  <2> QED
    BY <1>1, <1>4, <2>1, <2>2, <2>3, <2>4 DEF ring, KeyInv
<1>5. CASE ~key_buf_full
  <2>1. /\ key_buf' = [key_buf EXCEPT ![w] = key] /\ key_buf_read' = r
        /\ key_buf_write' = (w + 1) % KEY_BUF_LEN /\ key_buf_size' = n + 1
    BY <1>5 DEF key_buf_push
  <2>2. n + 1 \in RingIndex /\ n < KEY_BUF_LEN - 1
    BY <1>1, <1>3, <1>5 DEF key_buf_full, RingIndex
  <2>3. key_buf_write' = Wrap(w + 1) /\ Wrap(w + 1) \in RingIndex
    <3>1. w + 1 \in Nat /\ w + 1 < KEY_BUF_LEN + KEY_BUF_LEN
      BY <1>1, <1>3 DEF RingIndex
    <3> QED
      BY <2>1, <3>1, ModIsWrap
  <2>4. key_buf' \in [RingIndex -> RingCell]
    BY <1>2, <2>1 DEF KeyboardTypeOK, RingIndex, RingCell
  <2>5. KeyboardTypeOK'
    BY <1>3, <2>1, <2>2, <2>3, <2>4 DEF KeyboardTypeOK, RingIndex, RingCell
  <2>6. key_buf_write' = (key_buf_read' + key_buf_size') % KEY_BUF_LEN
    <3>1. r + (n + 1) \in Nat /\ r + (n + 1) < KEY_BUF_LEN + KEY_BUF_LEN
      BY <1>1, <1>3, <2>2 DEF RingIndex
    <3>2. (r + (n + 1)) % KEY_BUF_LEN = Wrap(r + (n + 1))
      BY <3>1, ModIsWrap
    <3>3. Wrap(r + (n + 1)) = Wrap(w + 1)
      BY <1>1, <1>3, <2>2 DEF Wrap, RingIndex
    <3> QED
      BY <2>1, <2>3, <3>2, <3>3
  <2>7. Contents' = Append(Contents, key)
    <3>1. Contents' = [i \in 1 .. n + 1 |-> key_buf'[Wrap(r + i - 1)]]
      BY <2>1, <2>5, ContentsIsStretch DEF Stretch
    <3>2. \A i \in 1 .. n : Wrap(r + i - 1) \in RingIndex /\ Wrap(r + i - 1) # w
      BY <1>1, <1>3, <2>2 DEF Wrap, RingIndex
    <3>3. Wrap(r + (n + 1) - 1) = w
      BY <1>1, <1>3, <2>2 DEF Wrap, RingIndex
    <3>4. key_buf \in [RingIndex -> RingCell]
      BY <1>2 DEF KeyboardTypeOK, RingIndex, RingCell
    <3>5. \A i \in 1 .. n : key_buf'[Wrap(r + i - 1)] = key_buf[Wrap(r + i - 1)]
      BY <2>1, <3>2, <3>4
    <3>6. key_buf'[w] = key
      BY <1>3, <2>1, <3>4
    <3>7. Contents = [i \in 1 .. n |-> key_buf[Wrap(r + i - 1)]]
      BY <1>2, ContentsIsStretch DEF Stretch
    <3>11. Contents \in Seq(RingCell) /\ Len(Contents) = n
      BY <1>2, ContentsIsStretch
    <3>8. Contents' \in Seq(RingCell) /\ Len(Contents') = n + 1
      BY <2>1, <2>5, ContentsIsStretch
    <3>9. /\ Append(Contents, key) \in Seq(RingCell)
          /\ Len(Append(Contents, key)) = n + 1
          /\ \A i \in 1 .. n : Append(Contents, key)[i] = Contents[i]
          /\ Append(Contents, key)[n + 1] = key
      <4>1. key \in RingCell
        BY DEF RingCell
      <4> QED
        BY <3>11, <4>1, AppendProperties
    <3>10. \A i \in 1 .. n + 1 : Contents'[i] = Append(Contents, key)[i]
      <4> TAKE i \in 1 .. n + 1
      <4>1. CASE i = n + 1
        BY <1>3, <3>1, <3>3, <3>6, <3>9, <4>1
      <4>2. CASE i # n + 1
        <5>1. i \in 1 .. n
          BY <1>3, <4>2 DEF RingIndex
        <5> QED
          BY <3>1, <3>5, <3>7, <3>9, <5>1
      <4> QED
        BY <4>1, <4>2
    <3> QED
      BY <3>8, <3>9, <3>10, SeqEqual
  <2>8. Len(Contents) < KEY_BUF_LEN - 1
    BY <1>2, <2>2, ContentsIsStretch
  <2> QED
    BY <1>5, <2>1, <2>5, <2>6, <2>7, <2>8
<1> QED
  BY <1>4, <1>5

\* key_buf_pop takes the head of the queue, or finds it empty.
LEMMA PopTakesHead ==
    ASSUME KeyInv, key_buf_pop, getc' \in {"idle", "asleep", "woken"}
    PROVE  /\ KeyboardTypeOK'
           /\ key_buf_write' = (key_buf_read' + key_buf_size') % KEY_BUF_LEN
           /\ IF key_buf_size = 0
              THEN Contents = << >> /\ Contents' = Contents /\ got' = 0 /\ key_buf_size' = 0
              ELSE /\ Contents # << >>
                   /\ got' = Head(Contents) /\ Contents' = Tail(Contents)
<1>1. KEY_BUF_LEN \in Nat /\ KEY_BUF_LEN > 1
  BY KeyboardAssumption
<1>2. KeyboardTypeOK
  BY DEF KeyInv
<1> DEFINE r == key_buf_read  w == key_buf_write  n == key_buf_size
<1>3. r \in RingIndex /\ w \in RingIndex /\ n \in RingIndex /\ w = Wrap(r + n)
  <2>1. r \in RingIndex /\ w \in RingIndex /\ n \in RingIndex
    BY <1>2 DEF KeyboardTypeOK, RingIndex, RingCell
  <2>2. r + n \in Nat /\ r + n < KEY_BUF_LEN + KEY_BUF_LEN
    BY <1>1, <2>1 DEF RingIndex
  <2> QED
    BY <2>1, <2>2, ModIsWrap DEF KeyInv
<1>4. Contents = [i \in 1 .. n |-> key_buf[Wrap(r + i - 1)]]
  BY <1>2, ContentsIsStretch DEF Stretch
<1>7. Contents \in Seq(RingCell) /\ Len(Contents) = n
  BY <1>2, ContentsIsStretch
<1>5. CASE n = 0
  <2>1. UNCHANGED ring /\ got' = 0
    BY <1>5 DEF key_buf_pop, key_buf_empty
  <2>2. KeyboardTypeOK'
    BY <1>2, <2>1 DEF ring, KeyboardTypeOK
  <2>3. Contents' = Contents /\ Contents = << >>
    BY <1>7, <1>5, <2>1, EmptySeq DEF ring, Contents
  <2> QED
    BY <1>5, <2>1, <2>2, <2>3 DEF ring, KeyInv
<1>6. CASE n # 0
  <2>1. /\ got' = key_buf[r] /\ key_buf' = key_buf /\ key_buf_write' = w
        /\ key_buf_read' = (r + 1) % KEY_BUF_LEN /\ key_buf_size' = n - 1
    BY <1>6 DEF key_buf_pop, key_buf_empty
  <2>2. n - 1 \in RingIndex /\ n > 0
    BY <1>1, <1>3, <1>6 DEF RingIndex
  <2>3. key_buf_read' = Wrap(r + 1) /\ Wrap(r + 1) \in RingIndex
    <3>1. r + 1 \in Nat /\ r + 1 < KEY_BUF_LEN + KEY_BUF_LEN
      BY <1>1, <1>3 DEF RingIndex
    <3> QED
      BY <2>1, <3>1, ModIsWrap
  <2>4. KeyboardTypeOK'
    BY <1>2, <1>3, <2>1, <2>2, <2>3 DEF KeyboardTypeOK, RingIndex, RingCell
  <2>5. key_buf_write' = (key_buf_read' + key_buf_size') % KEY_BUF_LEN
    <3>1. Wrap(r + 1) + (n - 1) \in Nat
          /\ Wrap(r + 1) + (n - 1) < KEY_BUF_LEN + KEY_BUF_LEN
      BY <1>1, <1>3, <2>2, <2>3 DEF RingIndex
    <3>2. (Wrap(r + 1) + (n - 1)) % KEY_BUF_LEN = Wrap(Wrap(r + 1) + (n - 1))
      BY <3>1, ModIsWrap
    <3>3. Wrap(Wrap(r + 1) + (n - 1)) = w
      BY <1>1, <1>3, <2>2 DEF Wrap, RingIndex
    <3> QED
      BY <2>1, <2>3, <3>2, <3>3
  <2>6. Contents # << >> /\ Head(Contents) = key_buf[r]
    <3>1. Contents # << >> /\ Head(Contents) = Contents[1]
      BY <1>7, <2>2
    <3>2. Wrap(r + 1 - 1) = r /\ 1 \in 1 .. n
      BY <1>1, <1>3, <2>2 DEF Wrap, RingIndex
    <3> QED
      BY <1>4, <3>1, <3>2
  <2>7. Contents' = Tail(Contents)
    <3>1. /\ Contents' = [i \in 1 .. n - 1 |-> key_buf[Wrap(Wrap(r + 1) + i - 1)]]
          /\ Contents' \in Seq(RingCell) /\ Len(Contents') = n - 1
      BY <2>1, <2>3, <2>4, ContentsIsStretch DEF Stretch
    <3>2. \A i \in 1 .. n - 1 : Wrap(Wrap(r + 1) + i - 1) = Wrap(r + (i + 1) - 1)
      BY <1>1, <1>3, <2>2 DEF Wrap, RingIndex
    <3>3. /\ Tail(Contents) \in Seq(RingCell) /\ Len(Tail(Contents)) = n - 1
          /\ \A i \in 1 .. n - 1 : Tail(Contents)[i] = Contents[i + 1]
      BY <1>7, <2>6, HeadTailProperties
    <3>4. \A i \in 1 .. n - 1 : Contents'[i] = Tail(Contents)[i]
      <4> TAKE i \in 1 .. n - 1
      <4>1. i + 1 \in 1 .. n
        BY <1>3 DEF RingIndex
      <4>2. Contents[i + 1] = key_buf[Wrap(r + (i + 1) - 1)]
        BY <1>4, <4>1
      <4> QED
        BY <3>1, <3>2, <3>3, <4>2
    <3> QED
      BY <3>1, <3>3, <3>4, SeqEqual
  <2> QED
    BY <1>6, <2>1, <2>4, <2>5, <2>6, <2>7
<1> QED
  BY <1>5, <1>6

-----------------------------------------------------------------------------
\* KeyInv is an inductive invariant; every step of the driver is a step of the
\* queue or changes nothing the queue sees.
LEMMA KeyStepRefines ==
    ASSUME KeyInv, [KeyboardNext]_keyvars
    PROVE  KeyInv' /\ [Q!QNext]_(Q!qvars)
<1>1. KeyboardTypeOK
  BY DEF KeyInv
<1>2. Contents \in Seq(RingCell) /\ Len(Contents) = key_buf_size
      /\ key_buf_size \in Nat
  BY <1>1, ContentsIsStretch DEF KeyboardTypeOK
<1>3. CASE UNCHANGED keyvars
  <2>1. KeyInv'
    BY <1>3 DEF keyvars, KeyInv, KeyboardTypeOK
  <2>2. UNCHANGED <<Contents, getc, got>>
    BY <1>3 DEF keyvars, Contents
  <2> QED
    BY <2>1, <2>2 DEF Q!qvars
<1>4. CASE int_keyboard
  <2>1. PICK ch \in ScanCodes :
          /\ ch < KEY_TABLE_SIZE /\ keytable[ch] # 0
          /\ key_buf_push(keytable[ch])
          /\ getc' = IF getc = "asleep" THEN "woken" ELSE getc
          /\ got' = got
    BY <1>4 DEF int_keyboard
  <2>2. keytable[ch] \in Keys
    BY <2>1, KeyboardAssumption DEF Keys
  <2>3. getc' \in {"idle", "asleep", "woken"}
    BY <1>1, <2>1 DEF KeyboardTypeOK
  <2>4. key_buf_size' = IF key_buf_full THEN key_buf_size ELSE key_buf_size + 1
    BY <2>1, <2>2, <2>3, PushAppends
  <2>5. /\ getc' = "asleep" => key_buf_size' = 0
        /\ getc' = "woken" => key_buf_size' > 0
    BY <1>1, <1>2, <2>1, <2>4, KeyboardAssumption DEF KeyInv, KeyboardTypeOK, key_buf_full
  <2>6. KeyInv'
    BY <2>1, <2>2, <2>3, <2>5, PushAppends DEF KeyInv
  <2>7. Q!Type(keytable[ch])
    <3>1. Contents' = IF Len(Contents) < KEY_BUF_LEN - 1
                      THEN Append(Contents, keytable[ch]) ELSE Contents
      BY <2>1, <2>2, <2>3, PushAppends
    <3> QED
      BY <2>1, <3>1 DEF Q!Type
  <2> QED
    BY <2>2, <2>6, <2>7 DEF Q!QNext
<1>5. ASSUME NEW b \in BOOLEAN, key_getc(b)
      PROVE  KeyInv' /\ Q!QNext
  <2>1. CASE key_buf_empty /\ b
    <3>1. getc = "idle" /\ getc' = "asleep" /\ UNCHANGED <<ring, got>> /\ key_buf_size = 0
      BY <1>5, <2>1 DEF key_getc, key_buf_empty
    <3>2. KeyInv'
      BY <3>1 DEF ring, KeyInv, KeyboardTypeOK
    <3>3. Contents' = Contents /\ Contents = << >>
      BY <1>2, <3>1, EmptySeq DEF ring, Contents
    <3> QED
      BY <3>1, <3>2, <3>3 DEF Q!QNext, Q!Wait
  <2>2. CASE ~(key_buf_empty /\ b)
    <3>1. getc = "idle" /\ getc' = "idle" /\ key_buf_pop
      BY <1>5, <2>2 DEF key_getc
    <3>2. KeyInv'
      BY <3>1, PopTakesHead DEF KeyInv
    <3>3. Q!Poll \/ Q!Read
      BY <3>1, PopTakesHead DEF Q!Poll, Q!Read
    <3> QED
      BY <3>2, <3>3 DEF Q!QNext
  <2> QED
    BY <2>1, <2>2
<1>6. CASE KeyGetcWoken
  <2>1. getc = "woken" /\ getc' = "idle" /\ key_buf_pop /\ key_buf_size # 0
    BY <1>2, <1>6 DEF KeyGetcWoken, KeyInv
  <2>2. KeyInv'
    BY <2>1, PopTakesHead DEF KeyInv
  <2>3. Q!Read
    BY <2>1, PopTakesHead DEF Q!Read
  <2> QED
    BY <2>2, <2>3 DEF Q!QNext
<1> QED
  BY <1>3, <1>4, <1>5, <1>6 DEF KeyboardNext

\* After init_keyboard the ring is empty, and so is the queue.
LEMMA KeyInitRefines == KeyboardInit => KeyInv /\ Q!QInit
<1> SUFFICES ASSUME KeyboardInit PROVE KeyInv /\ Q!QInit
  OBVIOUS
<1>1. KEY_BUF_LEN \in Nat /\ KEY_BUF_LEN > 1
  BY KeyboardAssumption
<1>2. KeyboardTypeOK
  BY <1>1 DEF KeyboardInit, KeyboardTypeOK
<1>3. 0 % KEY_BUF_LEN = 0
  BY <1>1
<1>4. KeyInv
  BY <1>2, <1>3 DEF KeyboardInit, KeyInv
<1>5. Contents = << >>
  BY <1>2, ContentsIsStretch, EmptySeq DEF KeyboardInit
<1> QED
  BY <1>4, <1>5 DEF KeyboardInit, Q!QInit

\* The indices and the size of the ring never leave their bounds
\* (KeyboardTypeOK; keyboard.c:24-30).
THEOREM KeyboardTypeCorrect == KeyboardSpec => []KeyboardTypeOK
<1>1. KeyInv /\ [KeyboardNext]_keyvars => KeyInv'
  BY KeyStepRefines
<1>2. KeyInv => KeyboardTypeOK
  BY DEF KeyInv
<1> QED
  BY <1>1, <1>2, KeyInitRefines, PTL DEF KeyboardSpec

\* The keyboard driver implements the bounded queue: whatever the ring goes
\* through, the keys in it change as a first-in first-out queue, a key typed
\* into a full one is dropped, and a reader that has slept gets the oldest key,
\* never 0 (the safety part of KeyQueueSpec; keyboard.c:32-118).
THEOREM KeyboardImplementsQueue ==
    KeyboardSpec => Q!QInit /\ [][Q!QNext]_(Q!qvars)
<1>1. KeyInv /\ [KeyboardNext]_keyvars => KeyInv' /\ [Q!QNext]_(Q!qvars)
  BY KeyStepRefines
<1> QED
  BY <1>1, KeyInitRefines, PTL DEF KeyboardSpec

-----------------------------------------------------------------------------
(* The screen, for every size of it and of the windows.                    *)

Left(w)  == IF w = "app" THEN 0 ELSE APPSCREEN_WIDTH + 1
Width(w) == IF w = "app" THEN APPSCREEN_WIDTH ELSE COLUMNS - APPSCREEN_WIDTH - 1

\* The cells of a window.
Pane(w) == {c \in Cell : c[1] >= Left(w) /\ c[1] < Left(w) + Width(w)}

\* Cells that the cursor of a window has not reached, in reading order.
Coming(w, x, y) == {c \in Pane(w) : c[2] > y \/ (c[2] = y /\ c[1] >= Left(w) + x)}

Cursor == [startx : Nat, width : Nat, x : Nat, y : Nat]

Printed(w) == {c \in Cell : cells[c] = w}

\* The cursor is inside its window, before it are the characters shown, each
\* in its own window, and from it on the window is blank.
ScreenInv ==
    /\ screen \in [Windows -> Cursor]
    /\ cells \in [Cell -> {Blank, Line, "app", "log"}]
    /\ shown \in [Windows -> Nat]
    /\ \A w \in Windows :
          /\ screen[w].startx = Left(w) /\ screen[w].width = Width(w)
          /\ screen[w].x < Width(w) /\ screen[w].y < ROWS
          /\ \A c \in Coming(w, screen[w].x, screen[w].y) : cells[c] = Blank
          /\ Printed(w) \subseteq Pane(w)
          /\ Cardinality(Printed(w)) = shown[w]
    /\ \A c \in Cell : cells[c] = Line <=> c[1] = APPSCREEN_WIDTH

\* The sizes are numbers, and every window has a column and a row.
LEMMA ScreenConstants ==
    /\ COLUMNS \in Nat /\ ROWS \in Nat /\ APPSCREEN_WIDTH \in Nat
    /\ ROWS > 0 /\ APPSCREEN_WIDTH > 0 /\ APPSCREEN_WIDTH + 1 < COLUMNS
    /\ \A w \in Windows : /\ Left(w) \in Nat /\ Width(w) \in Nat /\ Width(w) > 0
                          /\ Left(w) + Width(w) <= COLUMNS
  BY ScreenAssumption DEF Windows, Left, Width

\* The windows do not overlap, nor the line between them.
LEMMA PanesApart ==
    /\ Pane("app") \cap Pane("log") = {}
    /\ \A w \in Windows : \A c \in Pane(w) : c[1] # APPSCREEN_WIDTH
  BY ScreenConstants DEF Pane, Cell, Left, Width, Windows

\* Sets of cells are finite.
LEMMA CellsFinite ==
    ASSUME NEW B, B \subseteq Cell
    PROVE  IsFiniteSet(B)
<1>1. IsFiniteSet(0 .. COLUMNS - 1) /\ IsFiniteSet(0 .. ROWS - 1)
  BY ScreenConstants, FS_Interval
<1>2. IsFiniteSet(Cell)
  BY <1>1, FS_Product DEF Cell
<1> QED
  BY <1>2, FS_Subset

\* Where fixpos leaves the cursor.
LEMMA FixposIs ==
    ASSUME NEW s \in Cursor, s.width > 0, s.x <= s.width, s.y <= ROWS,
           s.x = s.width => s.y < ROWS
    PROVE  /\ fixpos(s) \in Cursor
           /\ fixpos(s).startx = s.startx /\ fixpos(s).width = s.width
           /\ Cleared(s) => fixpos(s).x = 0 /\ fixpos(s).y = 0
           /\ ~Cleared(s) /\ s.x < s.width => fixpos(s).x = s.x /\ fixpos(s).y = s.y /\ s.y < ROWS
           /\ ~Cleared(s) /\ s.x = s.width =>
                 fixpos(s).x = 0 /\ fixpos(s).y = s.y + 1 /\ s.y + 1 < ROWS
<1>1. s.startx \in Nat /\ s.width \in Nat /\ s.x \in Nat /\ s.y \in Nat /\ ROWS \in Nat /\ ROWS > 0
  BY ScreenConstants DEF Cursor
<1> DEFINE n == [s EXCEPT !.x = 0, !.y = @ + 1]
           t == IF s.x >= s.width THEN n ELSE s
           z == [t EXCEPT !.x = 0, !.y = 0]
<1>2. n \in Cursor /\ n.startx = s.startx /\ n.width = s.width /\ n.x = 0 /\ n.y = s.y + 1
  <2> DEFINE m == [s EXCEPT !.x = 0]
  <2>1. m \in Cursor /\ m.startx = s.startx /\ m.width = s.width /\ m.x = 0 /\ m.y = s.y
    BY <1>1 DEF Cursor
  <2>2. n = [m EXCEPT !.y = s.y + 1]
    BY <1>1 DEF Cursor
  <2> HIDE DEF m, n
  <2>3. s.y + 1 \in Nat
    BY <1>1
  <2> QED
    BY <2>1, <2>2, <2>3 DEF Cursor
<1>3. t \in Cursor /\ t.startx = s.startx /\ t.width = s.width
  <2> HIDE DEF n
  <2> QED
    BY <1>2
<1>4. fixpos(s) = IF t.y >= ROWS THEN z ELSE t
  BY DEF fixpos
<1>5. z \in Cursor /\ z.startx = s.startx /\ z.width = s.width /\ z.x = 0 /\ z.y = 0
  <2> HIDE DEF t
  <2> QED
    BY <1>1, <1>3 DEF Cursor
<1>6. Cleared(s) <=> t.y >= ROWS
  <2> HIDE DEF n
  <2> QED
    BY <1>1, <1>2 DEF Cleared
<1>7. /\ s.x < s.width => t = s
      /\ s.x = s.width => t = n
  <2> HIDE DEF n
  <2> QED
    BY <1>1
<1> HIDE DEF n, t, z
<1> QED
  BY <1>1, <1>2, <1>3, <1>4, <1>5, <1>6, <1>7

\* The first screen satisfies the invariant.
LEMMA ScreenInitHolds == ScreenInit => ScreenInv
<1> SUFFICES ASSUME ScreenInit PROVE ScreenInv
  OBVIOUS
<1>1. /\ screen["app"] = [startx |-> 0, width |-> APPSCREEN_WIDTH, x |-> 0, y |-> 0]
      /\ screen["log"] = [startx |-> APPSCREEN_WIDTH + 1,
                          width |-> COLUMNS - APPSCREEN_WIDTH - 1, x |-> 0, y |-> 0]
      /\ screen = [w \in Windows |-> screen[w]]
      /\ cells = [c \in Cell |-> IF c[1] = APPSCREEN_WIDTH THEN Line ELSE Blank]
      /\ shown = [w \in Windows |-> 0]
  BY DEF ScreenInit, Windows
<1>2. /\ screen \in [Windows -> Cursor]
      /\ \A w \in Windows : /\ screen[w].startx = Left(w) /\ screen[w].width = Width(w)
                            /\ screen[w].x = 0 /\ screen[w].y = 0
  <2>1. \A w \in Windows : /\ screen[w] \in Cursor
                           /\ screen[w].startx = Left(w) /\ screen[w].width = Width(w)
                           /\ screen[w].x = 0 /\ screen[w].y = 0
    BY <1>1, ScreenConstants DEF Windows, Cursor, Left, Width
  <2> QED
    BY <1>1, <2>1
<1>3. ASSUME NEW w \in Windows
      PROVE  /\ \A c \in Coming(w, screen[w].x, screen[w].y) : cells[c] = Blank
             /\ Printed(w) \subseteq Pane(w)
             /\ Cardinality(Printed(w)) = shown[w]
  <2>1. \A c \in Pane(w) : cells[c] = Blank
    BY <1>1, PanesApart DEF Pane
  <2>2. Printed(w) = {}
    BY <1>1 DEF Printed, Windows, Blank, Line
  <2> QED
    BY <1>1, <2>1, <2>2, FS_EmptySet DEF Coming
<1>4. cells \in [Cell -> {Blank, Line, "app", "log"}] /\ shown \in [Windows -> Nat]
  BY <1>1
<1>5. \A c \in Cell : cells[c] = Line <=> c[1] = APPSCREEN_WIDTH
  BY <1>1 DEF Line, Blank
<1>6. \A w \in Windows : screen[w].x < Width(w) /\ screen[w].y < ROWS
  BY <1>2, ScreenConstants
<1> QED
  BY <1>2, <1>3, <1>4, <1>5, <1>6 DEF ScreenInv

\* putchar keeps the invariant.
LEMMA PutcharKeeps ==
    ASSUME ScreenInv, NEW w \in Windows, NEW ch \in Chars, putchar(w, ch)
    PROVE  ScreenInv'
<1> DEFINE s     == screen[w]
           at    == <<s.startx + s.x, s.y>>
           moved == IF ch = "newline" THEN [s EXCEPT !.x = 0, !.y = @ + 1]
                    ELSE [s EXCEPT !.x = @ + 1]
           drawn == IF ch = "newline" THEN cells ELSE [cells EXCEPT ![at] = w]
           after == fixpos(moved)
           clear == Cleared(moved)
<1>1. /\ screen' = [screen EXCEPT ![w] = after]
      /\ cells' = [c \in Cell |-> IF clear /\ c \in Area(s) THEN Blank ELSE drawn[c]]
      /\ shown' = [shown EXCEPT ![w] = IF clear THEN 0 ELSE IF ch = "newline" THEN @ ELSE @ + 1]
  BY DEF putchar
<1>2. /\ s \in Cursor /\ s.startx = Left(w) /\ s.width = Width(w)
      /\ s.x \in Nat /\ s.y \in Nat /\ s.x < Width(w) /\ s.y < ROWS
      /\ Left(w) \in Nat /\ Width(w) \in Nat /\ Width(w) > 0 /\ Left(w) + Width(w) <= COLUMNS
      /\ ROWS \in Nat /\ COLUMNS \in Nat
  BY ScreenConstants DEF ScreenInv, Cursor
<1>3. /\ moved \in Cursor /\ moved.startx = s.startx /\ moved.width = s.width
      /\ ch = "newline" => moved.x = 0 /\ moved.y = s.y + 1
      /\ ch # "newline" => moved.x = s.x + 1 /\ moved.y = s.y
  <2>1. CASE ch = "newline"
    <3> DEFINE m == [s EXCEPT !.x = 0]
    <3>1. m \in Cursor /\ m.startx = s.startx /\ m.width = s.width /\ m.x = 0 /\ m.y = s.y
      BY <1>2 DEF Cursor
    <3>2. moved = [m EXCEPT !.y = s.y + 1]
      BY <1>2, <2>1 DEF Cursor
    <3> HIDE DEF m, moved, s
    <3>3. s.y + 1 \in Nat
      BY <1>2
    <3> QED
      BY <2>1, <3>1, <3>2, <3>3 DEF Cursor
  <2>2. CASE ch # "newline"
    <3>1. moved = [s EXCEPT !.x = s.x + 1]
      BY <2>2
    <3> HIDE DEF moved, s
    <3> QED
      BY <1>2, <2>2, <3>1 DEF Cursor
  <2> QED
    BY <2>1, <2>2
<1> HIDE DEF s, moved
<1>4. /\ after \in Cursor /\ after.startx = Left(w) /\ after.width = Width(w)
      /\ clear => after.x = 0 /\ after.y = 0
      /\ ~clear /\ moved.x < Width(w) => after.x = moved.x /\ after.y = moved.y /\ moved.y < ROWS
      /\ ~clear /\ moved.x = Width(w) => after.x = 0 /\ after.y = moved.y + 1 /\ moved.y + 1 < ROWS
  <2>1. moved.width > 0 /\ moved.x <= moved.width /\ moved.y <= ROWS /\ (moved.x = moved.width => moved.y < ROWS)
    BY <1>2, <1>3
  <2> QED
    BY <1>2, <1>3, <2>1, FixposIs
<1> HIDE DEF after, clear
<1>5. after.x < Width(w) /\ after.y < ROWS
  BY <1>2, <1>3, <1>4
<1>6. Area(s) = Pane(w)
  BY <1>2 DEF Area, Pane
<1>7. /\ at \in Pane(w) /\ at \in Cell /\ cells[at] = Blank
      /\ at \in Coming(w, s.x, s.y)
  <2>1. at \in Pane(w) /\ at \in Cell
    BY <1>2 DEF Cell, Pane
  <2>2. at \in Coming(w, s.x, s.y)
    BY <1>2, <2>1 DEF Coming
  <2> QED
    BY <2>1, <2>2 DEF ScreenInv, s
<1>8. /\ DOMAIN cells' = Cell
      /\ \A c \in Cell : cells'[c] = IF clear /\ c \in Pane(w) THEN Blank
                                     ELSE IF ch # "newline" /\ c = at THEN w ELSE cells[c]
  <2>1. \A c \in Cell : drawn[c] = IF ch # "newline" /\ c = at THEN w ELSE cells[c]
    BY <1>7 DEF ScreenInv
  <2> HIDE DEF drawn
  <2> QED
    BY <1>1, <1>6, <2>1
<1> HIDE DEF at, drawn
<1>9. w # Blank /\ w # Line /\ Line # Blank /\ w \in {Blank, Line, "app", "log"}
  BY DEF Windows, Blank, Line
<1>10. cells' \in [Cell -> {Blank, Line, "app", "log"}]
  <2>1. \A c \in Cell : cells'[c] \in {Blank, Line, "app", "log"}
    BY <1>8, <1>9 DEF ScreenInv
  <2>2. cells' = [c \in Cell |-> cells'[c]]
    BY <1>1
  <2> QED
    BY <2>1, <2>2
<1>11. \A c \in Cell : cells'[c] = Line <=> c[1] = APPSCREEN_WIDTH
  <2>1. \A c \in Pane(w) : cells[c] # Line
    BY PanesApart DEF ScreenInv, Pane
  <2> QED
    BY <1>7, <1>8, <1>9, <2>1 DEF ScreenInv
<1>12. screen' \in [Windows -> Cursor] /\ screen'[w] = after
       /\ \A v \in Windows \ {w} : screen'[v] = screen[v] /\ shown'[v] = shown[v]
  BY <1>1, <1>4 DEF ScreenInv
<1>13. /\ shown' \in [Windows -> Nat]
       /\ shown'[w] = IF clear THEN 0 ELSE IF ch = "newline" THEN shown[w] ELSE shown[w] + 1
  <2> DEFINE n == IF clear THEN 0 ELSE IF ch = "newline" THEN shown[w] ELSE shown[w] + 1
  <2>1. shown' = [shown EXCEPT ![w] = n] /\ n \in Nat /\ shown \in [Windows -> Nat]
    BY <1>1 DEF ScreenInv
  <2> HIDE DEF n
  <2>2. shown' \in [Windows -> Nat] /\ shown'[w] = n
    BY <2>1
  <2> QED
    BY <2>2 DEF n
<1>14. ASSUME NEW v \in Windows \ {w}
       PROVE  /\ \A c \in Coming(v, screen'[v].x, screen'[v].y) : cells'[c] = Blank
              /\ Printed(v)' \subseteq Pane(v)
              /\ Cardinality(Printed(v)') = shown'[v]
  <2>1. Pane(v) \cap Pane(w) = {} /\ v # Blank
    BY PanesApart DEF Windows, Blank
  <2>2. \A c \in Pane(v) : c \in Cell /\ cells'[c] = cells[c]
    BY <1>7, <1>8, <2>1 DEF Pane
  <2>3. Printed(v) \subseteq Pane(v) /\ Cardinality(Printed(v)) = shown[v]
        /\ \A c \in Coming(v, screen[v].x, screen[v].y) : cells[c] = Blank
    BY DEF ScreenInv
  <2>4. Printed(v)' = Printed(v)
    <3>1. ASSUME NEW c \in Cell, cells[c] = v PROVE cells'[c] = v
      BY <2>2, <2>3, <3>1 DEF Printed
    <3>2. ASSUME NEW c \in Cell, cells'[c] = v PROVE cells[c] = v
      BY <1>8, <2>1, <3>2
    <3> QED
      BY <3>1, <3>2 DEF Printed
  <2>5. \A c \in Coming(v, screen[v].x, screen[v].y) : cells'[c] = Blank
    BY <2>2, <2>3 DEF Coming
  <2> QED
    BY <1>12, <2>3, <2>4, <2>5
<1>15. /\ \A c \in Coming(w, after.x, after.y) : cells'[c] = Blank
       /\ Printed(w)' \subseteq Pane(w)
       /\ Cardinality(Printed(w)') = shown'[w]
  <2>1. /\ Printed(w) \subseteq Pane(w) /\ Cardinality(Printed(w)) = shown[w] /\ shown[w] \in Nat
        /\ \A c \in Coming(w, s.x, s.y) : cells[c] = Blank
    BY DEF ScreenInv, s
  <2>2. CASE clear
    <3>1. \A c \in Pane(w) : c \in Cell /\ cells'[c] = Blank
      BY <1>8, <2>2 DEF Pane
    <3>2. Printed(w)' = {}
      <4> SUFFICES ASSUME NEW c \in Cell, cells'[c] = w PROVE FALSE
        BY DEF Printed
      <4>1. c \notin Pane(w)
        BY <1>9, <3>1
      <4>2. cells[c] = w
        BY <1>7, <1>8, <4>1
      <4> QED
        BY <2>1, <4>1, <4>2 DEF Printed
    <3> QED
      BY <1>13, <2>2, <3>1, <3>2, FS_EmptySet DEF Coming
  <2>3. CASE ~clear /\ ch = "newline"
    <3>1. \A c \in Cell : cells'[c] = cells[c]
      BY <1>8, <2>3
    <3>2. Printed(w)' = Printed(w)
      BY <3>1 DEF Printed
    <3>3. after.x = 0 /\ after.y = s.y + 1
      BY <1>2, <1>3, <1>4, <2>3
    <3>4. ASSUME NEW c \in Coming(w, after.x, after.y) PROVE c \in Coming(w, s.x, s.y) /\ c \in Cell
      <4>1. c \in Pane(w) /\ c[2] >= s.y + 1 /\ c[2] \in Nat /\ c \in Cell
        BY <1>2, <3>3 DEF Coming, Pane, Cell
      <4> QED
        BY <1>2, <4>1 DEF Coming
    <3> QED
      BY <1>13, <2>1, <2>3, <3>1, <3>2, <3>4
  <2>4. CASE ~clear /\ ch # "newline"
    <3>1. \A c \in Cell : cells'[c] = IF c = at THEN w ELSE cells[c]
      BY <1>8, <2>4
    <3>2. Printed(w)' = Printed(w) \cup {at} /\ at \notin Printed(w)
      BY <1>7, <1>9, <3>1 DEF Printed
    <3>3. Cardinality(Printed(w)') = shown'[w]
      <4>1. IsFiniteSet(Printed(w))
        BY CellsFinite DEF Printed
      <4> QED
        BY <1>13, <2>1, <2>4, <3>2, <4>1, FS_AddElement
    <3>4. ASSUME NEW c \in Coming(w, after.x, after.y)
          PROVE  c \in Coming(w, s.x, s.y) /\ c # at /\ c \in Cell
      <4>1. c \in Pane(w) /\ c \in Cell /\ c[1] \in Nat /\ c[2] \in Nat
            /\ (c[2] > after.y \/ (c[2] = after.y /\ c[1] >= Left(w) + after.x))
            /\ c[1] >= Left(w)
        BY DEF Coming, Pane, Cell
      <4>2. at[1] = Left(w) + s.x /\ at[2] = s.y
        BY <1>2 DEF at
      <4>3. CASE moved.x < Width(w)
        <5>1. after.x = s.x + 1 /\ after.y = s.y
          BY <1>3, <1>4, <2>4, <4>3
        <5> QED
          BY <1>2, <4>1, <4>2, <5>1 DEF Coming
      <4>4. CASE moved.x = Width(w)
        <5>1. after.x = 0 /\ after.y = s.y + 1
          BY <1>3, <1>4, <2>4, <4>4
        <5> QED
          BY <1>2, <4>1, <4>2, <5>1 DEF Coming
      <4> QED
        BY <1>2, <1>3, <2>4, <4>3, <4>4
    <3>5. \A c \in Coming(w, after.x, after.y) : cells'[c] = Blank
      BY <2>1, <3>1, <3>4
    <3>6. Printed(w)' \subseteq Pane(w)
      BY <1>7, <2>1, <3>2
    <3> QED
      BY <3>3, <3>5, <3>6
  <2> QED
    BY <2>2, <2>3, <2>4
<1>16. \A v \in Windows :
          /\ screen'[v].startx = Left(v) /\ screen'[v].width = Width(v)
          /\ screen'[v].x < Width(v) /\ screen'[v].y < ROWS
  BY <1>4, <1>5, <1>12 DEF ScreenInv
<1>17. \A v \in Windows :
          /\ \A c \in Coming(v, screen'[v].x, screen'[v].y) : cells'[c] = Blank
          /\ Printed(v)' \subseteq Pane(v)
          /\ Cardinality(Printed(v)') = shown'[v]
  BY <1>12, <1>14, <1>15
<1> QED
  BY <1>10, <1>11, <1>12, <1>13, <1>16, <1>17 DEF ScreenInv, Printed

\* However putchar and fixpos mix the output of the two windows, each cursor stays
\* in its window with nothing but blanks from it on (print.c:93-134).
THEOREM ScreenInvariant == ScreenSpec => []ScreenInv
<1>1. ScreenInit => ScreenInv
  BY ScreenInitHolds
<1>2. ScreenInv /\ [ScreenNext]_screenvars => ScreenInv'
  <2> SUFFICES ASSUME ScreenInv, [ScreenNext]_screenvars PROVE ScreenInv'
    OBVIOUS
  <2>1. CASE ScreenNext
    BY <2>1, PutcharKeeps DEF ScreenNext
  <2>2. CASE UNCHANGED screenvars
    BY <2>2 DEF screenvars, ScreenInv, Printed
  <2> QED
    BY <2>1, <2>2
<1> QED
  BY <1>1, <1>2, PTL DEF ScreenSpec

\* Characters stay where they were printed until their window is cleared, none
\* falls outside its window, on the line or on another, however the printers of
\* the two windows mix.
THEOREM ScreenCorrect == ScreenSpec => []NothingOverwritten
<1>1. ScreenInv => NothingOverwritten
  <2> SUFFICES ASSUME ScreenInv PROVE NothingOverwritten
    OBVIOUS
  <2>1. \A w \in Windows : Cardinality({c \in Cell : cells[c] = w}) = shown[w]
    BY DEF ScreenInv, Printed
  <2>2. ASSUME NEW c \in Cell, cells[c] # Blank
        PROVE  cells[c] = IF c[1] < APPSCREEN_WIDTH THEN "app"
                          ELSE IF c[1] = APPSCREEN_WIDTH THEN Line ELSE "log"
    <3>1. cells[c] \in {Line, "app", "log"} /\ (cells[c] = Line <=> c[1] = APPSCREEN_WIDTH)
      BY <2>2 DEF ScreenInv
    <3>2. /\ cells[c] = "app" => c \in Pane("app")
          /\ cells[c] = "log" => c \in Pane("log")
      BY DEF ScreenInv, Printed, Windows
    <3>3. c[1] \in Nat
      BY DEF Cell
    <3> QED
      BY <3>1, <3>2, <3>3, ScreenConstants DEF Pane, Left, Width
  <2>3. ASSUME NEW r \in 0 .. ROWS - 1 PROVE cells[<<APPSCREEN_WIDTH, r>>] = Line
    <3>1. <<APPSCREEN_WIDTH, r>> \in Cell
      BY ScreenConstants DEF Cell
    <3> QED
      BY <3>1 DEF ScreenInv
  <2> QED
    BY <2>1, <2>2, <2>3 DEF NothingOverwritten
<1> QED
  BY <1>1, ScreenInvariant, PTL

-----------------------------------------------------------------------------
(* Who owns the blocks, for every number of blocks and every bound.        *)

\* The kinds of works; those that wait for a timer name one block by their
\* argument.
Blk == 0 .. BLOCKS - 1
TimedWorks ==
    [task : Blk, func : {"recv_timeout"}, arg : {<<b>> : b \in Blk}]
    \cup [task : Blk, func : {"ack_timeout"}, arg : Blk \X Nat]
AllWorks == [task : Blk, func : {"ether_rx"}, arg : Blk \X Blk] \cup TimedWorks

BuffersTypeOK ==
    /\ used \in SUBSET Blk
    /\ works \in Seq(AllWorks)
    /\ running \in [at : {"loop"}] \cup [at : {"func", "free"}, work : AllWorks]
    /\ armed \in SUBSET [timer : Blk, work : TimedWorks]
    /\ tx \in SUBSET [seq : Nat, blocks : Blk \X Blk \X Blk]
    /\ rx \in Seq([1 .. 2 -> Blk])
    /\ closed \in BOOLEAN /\ stopped \in BOOLEAN
    /\ calls \in [{"frame", "send", "recv", "copy", "expiry"} -> Nat]

BuffersInv == BuffersTypeOK /\ OneOwner

\* The constants are numbers.
LEMMA BuffersConstants ==
    /\ BLOCKS \in Nat /\ MaxFrames \in Nat /\ MaxSends \in Nat
    /\ MaxRecvs \in Nat /\ MaxCopies \in Nat /\ MaxExpiries \in Nat
  BY BuffersAssumption

\* Every set of numbers that is not empty has a least element.
LEMMA LeastNat ==
    ASSUME NEW T \in SUBSET Nat, T # {}
    PROVE  \E n \in T : \A m \in T : n <= m
  <1>1. PICK n \in T : \A m \in T : ~(<<m, n>> \in OpToRel(<, Nat))
    BY NatLessThanWellFounded, WFMin
  <1>2. \A m \in T : ~(m < n)
    BY <1>1 DEF OpToRel
  <1> QED  BY <1>2

\* Some block of B has i others before it.
HasRank(B, i) == \E b \in B : Cardinality({c \in B : c < b}) = i

\* Of a finite set of numbers, one has as many below it as one wants.
LEMMA RankedExists ==
    ASSUME NEW n \in Nat, NEW B \in SUBSET (0 .. n - 1),
           NEW i \in Nat, i < Cardinality(B)
    PROVE  HasRank(B, i)
<1> SUFFICES \E b \in B : Cardinality({c \in B : c < b}) = i
  BY DEF HasRank
<1> DEFINE Below(m) == {c \in B : c < m}
           T == {m \in Nat : Cardinality(Below(m)) > i}
<1>a. \A c \in B : c \in Int /\ 0 <= c /\ c < n
  OBVIOUS
<1>1. IsFiniteSet(B) /\ \A m : IsFiniteSet(Below(m)) /\ Cardinality(Below(m)) \in Nat
  <2>1. IsFiniteSet(0 .. n - 1)
    <3>1. n - 1 \in Int
      OBVIOUS
    <3> QED
      BY <3>1, FS_Interval
  <2>2. IsFiniteSet(B)
    BY <2>1, FS_Subset
  <2>3. \A m : Below(m) \in SUBSET B
    OBVIOUS
  <2> HIDE DEF Below
  <2> QED
    BY <2>2, <2>3, FS_Subset, FS_CardinalityType
<1>2. n \in T
  <2>1. Below(n) = B
    BY <1>a
  <2> QED
    BY <2>1
<1>3. PICK m \in T : \A k \in T : m <= k
  <2> HIDE DEF T
  <2>1. T \in SUBSET Nat
    BY DEF T
  <2> QED
    BY <1>2, <2>1, LeastNat
<1>4. m # 0
  <2>1. \A c \in B : ~(c < 0)
    BY <1>a
  <2>2. Below(0) = {}
    BY <2>1
  <2>3. Cardinality(Below(0)) = 0
    BY <2>2, FS_EmptySet
  <2> QED
    BY <2>3
<1>5. m - 1 \in Nat /\ Cardinality(Below(m - 1)) <= i
  <2>1. m \in Nat /\ m - 1 \in Nat
    BY <1>4
  <2>2. m - 1 \notin T
    <3> HIDE DEF T
    <3> QED
      BY <2>1, <1>3
  <2>3. Cardinality(Below(m - 1)) \in Nat
    BY <1>1
  <2> QED
    BY <2>1, <2>2, <2>3
<1>6. m - 1 \in B
  <2> SUFFICES ASSUME m - 1 \notin B PROVE FALSE
    OBVIOUS
  <2>1. \A c \in B : c < m <=> c < m - 1
    BY <1>5, <1>a
  <2>2. Below(m) = Below(m - 1)
    BY <2>1
  <2> QED
    BY <2>2, <1>1, <1>5
<1>7. Below(m) = Below(m - 1) \cup {m - 1} /\ m - 1 \notin Below(m - 1)
  <2>1. \A c \in B : c < m <=> (c < m - 1 \/ c = m - 1)
    BY <1>5, <1>a
  <2>2. ~(m - 1 < m - 1) /\ m - 1 < m
    BY <1>5
  <2> QED
    BY <2>1, <2>2, <1>6
<1>8. Cardinality(Below(m)) = Cardinality(Below(m - 1)) + 1
  <2> HIDE DEF Below
  <2> QED
    BY <1>7, <1>1, FS_AddElement
<1>9. Cardinality(Below(m - 1)) = i
  <2>1. Cardinality(Below(m)) > i
    OBVIOUS
  <2> HIDE DEF Below
  <2> QED
    BY <2>1, <1>1, <1>5, <1>8
<1> QED
  BY <1>6, <1>9

\* mem_alloc, called k times, returns k blocks that were not in use.
LEMMA NewBlocks ==
    ASSUME used \in SUBSET Blk, NEW k \in Nat, Enough(k)
    PROVE  /\ New(k) \in [1 .. k -> Blk \ used]
           /\ \A i, j \in 1 .. k : New(k)[i] = New(k)[j] => i = j
           /\ Range(New(k)) = {New(k)[i] : i \in 1 .. k}
<1>1. Unused \in SUBSET (0 .. BLOCKS - 1) /\ Unused = Blk \ used
  BY DEF Unused, Blk
<1>2. IsFiniteSet(Unused) /\ Cardinality(Unused) \in Nat
  <2>1. IsFiniteSet(0 .. BLOCKS - 1)
    <3>1. BLOCKS - 1 \in Int
      BY BuffersConstants
    <3> QED
      BY <3>1, FS_Interval
  <2> QED
    BY <1>1, <2>1, FS_Subset, FS_CardinalityType
<1> DEFINE Rank(b) == Cardinality({c \in Unused : c < b})
           Nth(i) == CHOOSE b \in Unused : Rank(b) = i - 1
<1>3. \A i \in 1 .. k : Nth(i) \in Unused /\ Rank(Nth(i)) = i - 1
  <2> SUFFICES ASSUME NEW i \in 1 .. k PROVE Nth(i) \in Unused /\ Rank(Nth(i)) = i - 1
    OBVIOUS
  <2>1. i - 1 \in Nat /\ i - 1 < Cardinality(Unused)
    BY <1>2 DEF Enough
  <2>2. \E b \in Unused : Rank(b) = i - 1
    <3> DEFINE n == i - 1
               B == Unused
    <3>1. BLOCKS \in Nat /\ B \in SUBSET (0 .. BLOCKS - 1) /\ n \in Nat /\ n < Cardinality(B)
      BY <1>1, <2>1, BuffersConstants
    <3>2. HasRank(B, n)
      <4> HIDE DEF B, n
      <4> QED
        BY <3>1, RankedExists
    <3> QED
      BY <3>2 DEF HasRank
  <2> HIDE DEF Rank
  <2> QED
    BY <2>2
<1>4. New(k) = [i \in 1 .. k |-> Nth(i)]
  BY DEF New
<1> HIDE DEF Nth, Rank
<1>5. \A i, j \in 1 .. k : Nth(i) = Nth(j) => i = j
  <2> SUFFICES ASSUME NEW i \in 1 .. k, NEW j \in 1 .. k, Nth(i) = Nth(j) PROVE i = j
    OBVIOUS
  <2>1. i - 1 = j - 1
    BY <1>3
  <2> QED
    BY <2>1
<1> QED
  BY <1>1, <1>3, <1>4, <1>5 DEF Range

\* The pointers of each kind of owner.
InWork(i, k)    == <<<<"work", i>>, k>>
InTimer(t, k)   == <<<<"timer", t>>, k>>
InUnacked(e, k) == <<<<"unacked", e>>, k>>
InMessage(i, k) == <<<<"message", i>>, k>>
InRunning(k)    == <<<<"running", 0>>, k>>

WorkSize(w) == IF w.func = "ether_rx" THEN 3 ELSE 2
RunningSize ==
    CASE running.at = "func" -> WorkSize(running.work) [] running.at = "free" -> 1 [] OTHER -> 0

\* Pointed as a function.
Target == [p \in Pointers |-> Pointed(p)]

\* Which there are, and what they point to.
PointersListed ==
    /\ \A p \in Pointers : \/ \E i, k : p = InWork(i, k)
                           \/ \E t, k : p = InTimer(t, k)
                           \/ \E e, k : p = InUnacked(e, k)
                           \/ \E i, k : p = InMessage(i, k)
                           \/ \E k : p = InRunning(k)
    /\ \A i, k : InWork(i, k) \in Pointers <=> i \in 1 .. Len(works) /\ k \in 1 .. WorkSize(works[i])
    /\ \A t, k : InTimer(t, k) \in Pointers <=> t \in armed /\ k \in 1 .. 3
    /\ \A e, k : InUnacked(e, k) \in Pointers <=> e \in tx /\ k \in 1 .. 3
    /\ \A i, k : InMessage(i, k) \in Pointers <=> i \in 1 .. Len(rx) /\ k \in 1 .. 2
    /\ \A k : InRunning(k) \in Pointers <=> k \in 1 .. RunningSize
    /\ \A i, k : InWork(i, k) \in Pointers => Target[InWork(i, k)] = WorkBlocks(works[i])[k]
    /\ \A t, k : InTimer(t, k) \in Pointers =>
                 Target[InTimer(t, k)] = TimerBlocks(t)[k]
    /\ \A e, k : InUnacked(e, k) \in Pointers => Target[InUnacked(e, k)] = e.blocks[k]
    /\ \A i, k : InMessage(i, k) \in Pointers => Target[InMessage(i, k)] = rx[i][k]
    /\ \A k : InRunning(k) \in Pointers =>
              Target[InRunning(k)] = (IF running.at = "func" THEN WorkBlocks(running.work)
                                      ELSE <<running.work.task>>)[k]

\* Two pointers are the same only if they have the same owner.
LEMMA PointerKinds ==
    /\ \A i, k, j, l : InWork(i, k) = InWork(j, l) => i = j /\ k = l
    /\ \A i, k, j, l : InTimer(i, k) = InTimer(j, l) => i = j /\ k = l
    /\ \A i, k, j, l : InUnacked(i, k) = InUnacked(j, l) => i = j /\ k = l
    /\ \A i, k, j, l : InMessage(i, k) = InMessage(j, l) => i = j /\ k = l
    /\ \A k, l : InRunning(k) = InRunning(l) => k = l
    /\ \A i, k, j, l : /\ InWork(i, k) # InTimer(j, l) /\ InWork(i, k) # InUnacked(j, l)
                       /\ InWork(i, k) # InMessage(j, l) /\ InWork(i, k) # InRunning(l)
                       /\ InTimer(i, k) # InUnacked(j, l) /\ InTimer(i, k) # InMessage(j, l)
                       /\ InTimer(i, k) # InRunning(l) /\ InUnacked(i, k) # InMessage(j, l)
                       /\ InUnacked(i, k) # InRunning(l) /\ InMessage(i, k) # InRunning(l)
  BY DEF InWork, InTimer, InUnacked, InMessage, InRunning

\* Pointers and Pointed are what PointersListed says.
LEMMA PointersAre == BuffersTypeOK => PointersListed
<1> SUFFICES ASSUME BuffersTypeOK PROVE PointersListed
  OBVIOUS
<1>1. DOMAIN works = 1 .. Len(works) /\ \A i \in 1 .. Len(works) : works[i] \in AllWorks
  BY DEF BuffersTypeOK
<1>2. DOMAIN rx = 1 .. Len(rx) /\ \A i \in 1 .. Len(rx) : rx[i] \in [1 .. 2 -> Blk]
  BY DEF BuffersTypeOK
<1>3. \A w : DOMAIN WorkBlocks(w) = 1 .. WorkSize(w)
  <2>1. \A a, b, c : DOMAIN <<a, b, c>> = 1 .. 3 /\ DOMAIN <<a, b>> = 1 .. 2
    OBVIOUS
  <2> SUFFICES ASSUME NEW w PROVE DOMAIN WorkBlocks(w) = 1 .. WorkSize(w)
    OBVIOUS
  <2>2. CASE w.func = "ether_rx"
    <3>1. WorkBlocks(w) = <<w.task, w.arg[1], w.arg[2]>> /\ WorkSize(w) = 3
      BY <2>2 DEF WorkBlocks, WorkSize
    <3> QED
      BY <3>1, <2>1
  <2>3. CASE w.func # "ether_rx"
    <3>1. WorkBlocks(w) = <<w.task, w.arg[1]>> /\ WorkSize(w) = 2
      BY <2>3 DEF WorkBlocks, WorkSize
    <3> QED
      BY <3>1, <2>1
  <2> QED
    BY <2>2, <2>3
<1>4. running.at \in {"loop", "func", "free"}
  <2>1. running \in [at : {"loop"}] \/ running \in [at : {"func", "free"}, work : AllWorks]
    BY DEF BuffersTypeOK
  <2>2. \A x \in [at : {"loop"}] : x.at = "loop"
    OBVIOUS
  <2>3. \A x \in [at : {"func", "free"}, work : AllWorks] : x.at \in {"func", "free"}
    OBVIOUS
  <2> QED
    BY <2>1, <2>2, <2>3
<1>5. \A p \in Pointers : p = <<p[1], p[2]>> /\ p[1] \in Owners
  BY DEF Pointers
<1>6. \A o, k : <<o, k>> \in Pointers <=> o \in Owners /\ k \in DOMAIN BlocksOf(o)
  <2> SUFFICES ASSUME NEW o, NEW k PROVE <<o, k>> \in Pointers <=> o \in Owners /\ k \in DOMAIN BlocksOf(o)
    OBVIOUS
  <2> QED
    BY DEF Pointers
<1>7. /\ \A i : <<"work", i>> \in Owners <=> i \in 1 .. Len(works)
      /\ \A t : <<"timer", t>> \in Owners <=> t \in armed
      /\ \A e : <<"unacked", e>> \in Owners <=> e \in tx
      /\ \A i : <<"message", i>> \in Owners <=> i \in 1 .. Len(rx)
      /\ <<"running", 0>> \in Owners <=> running.at # "loop"
  BY <1>1, <1>2 DEF Owners
<1>8. \A o \in Owners : \/ \E i : o = <<"work", i>>
                        \/ \E t : o = <<"timer", t>>
                        \/ \E e : o = <<"unacked", e>>
                        \/ \E i : o = <<"message", i>>
                        \/ o = <<"running", 0>>
  BY DEF Owners
<1>9. /\ \A i : BlocksOf(<<"work", i>>) = WorkBlocks(works[i])
      /\ \A t : BlocksOf(<<"timer", t>>) = TimerBlocks(t)
      /\ \A e : BlocksOf(<<"unacked", e>>) = e.blocks
      /\ \A i : BlocksOf(<<"message", i>>) = rx[i]
      /\ BlocksOf(<<"running", 0>>) =
           IF running.at = "func" THEN WorkBlocks(running.work) ELSE <<running.work.task>>
  BY DEF BlocksOf
<1>10. \A e \in tx : DOMAIN e.blocks = 1 .. 3
  BY DEF BuffersTypeOK
<1>11. \A t : DOMAIN TimerBlocks(t) = 1 .. 3
  BY DEF TimerBlocks
<1>12. \A p \in Pointers : \/ \E i, k : p = InWork(i, k)
                           \/ \E t, k : p = InTimer(t, k)
                           \/ \E e, k : p = InUnacked(e, k)
                           \/ \E i, k : p = InMessage(i, k)
                           \/ \E k : p = InRunning(k)
  BY <1>5, <1>8 DEF InWork, InTimer, InUnacked, InMessage, InRunning
<1>13. \A i, k : InWork(i, k) \in Pointers <=> i \in 1 .. Len(works) /\ k \in 1 .. WorkSize(works[i])
  BY <1>3, <1>6, <1>7, <1>9 DEF InWork
<1>14. \A t, k : InTimer(t, k) \in Pointers <=> t \in armed /\ k \in 1 .. 3
  BY <1>6, <1>7, <1>9, <1>11 DEF InTimer
<1>15. \A e, k : InUnacked(e, k) \in Pointers <=> e \in tx /\ k \in 1 .. 3
  BY <1>6, <1>7, <1>9, <1>10 DEF InUnacked
<1>16. \A i, k : InMessage(i, k) \in Pointers <=> i \in 1 .. Len(rx) /\ k \in 1 .. 2
  BY <1>2, <1>6, <1>7, <1>9 DEF InMessage
<1>17. \A k : InRunning(k) \in Pointers <=> k \in 1 .. RunningSize
  <2>1. DOMAIN <<running.work.task>> = 1 .. 1
    OBVIOUS
  <2>2. \A k : k \notin 1 .. 0
    OBVIOUS
  <2> QED
    BY <2>1, <2>2, <1>3, <1>4, <1>6, <1>7, <1>9 DEF InRunning, RunningSize
<1>18. /\ \A i, k : Pointed(InWork(i, k)) = WorkBlocks(works[i])[k]
       /\ \A t, k : Pointed(InTimer(t, k)) = TimerBlocks(t)[k]
       /\ \A e, k : Pointed(InUnacked(e, k)) = e.blocks[k]
       /\ \A i, k : Pointed(InMessage(i, k)) = rx[i][k]
       /\ \A k : Pointed(InRunning(k)) =
                   (IF running.at = "func" THEN WorkBlocks(running.work) ELSE <<running.work.task>>)[k]
  BY <1>9 DEF Pointed, InWork, InTimer, InUnacked, InMessage, InRunning
<1>19. \A p \in Pointers : Target[p] = Pointed(p)
  BY DEF Target
<1> HIDE DEF Target
<1> QED
  BY <1>12, <1>13, <1>14, <1>15, <1>16, <1>17, <1>18, <1>19 DEF PointersListed

\* No two pointers of a set P lead to the same block of f, their blocks are not
\* lost (L), and with those make up the ones in use (U).
Apart(P, f, U, L) ==
    /\ \A p, q \in P : f[p] = f[q] => p = q
    /\ {f[p] : p \in P} \cap L = {}
    /\ {f[p] : p \in P} \cup L = U

OwnersApart == Apart(Pointers, Target, used, lost)

\* OneOwner in these terms.
LEMMA OneOwnerIsApart == OneOwner <=> OwnersApart
<1>1. \A p \in Pointers : Target[p] = Pointed(p)
  BY DEF Target
<1> HIDE DEF Target
<1>2. {Target[p] : p \in Pointers} = {Pointed(p) : p \in Pointers}
  BY <1>1
<1> QED
  BY <1>1, <1>2 DEF OneOwner, OwnersApart, Apart

\* Both after a step.
LEMMA AfterStep ==
    /\ BuffersTypeOK' => PointersListed'
    /\ OneOwner' <=> Apart(Pointers', Target', used', lost')
<1>1. BuffersTypeOK' => PointersListed'
  BY PointersAre, PTL
<1>2. OneOwner' <=> OwnersApart'
  BY OneOwnerIsApart, PTL
<1> QED
  BY <1>1, <1>2 DEF OwnersApart

\* The pointers P become P2: those that are gone are freed or lost, the new ones
\* lead to new blocks, and each other one, at p, is the one that was at h[p].
Moved(P, f, U, L, P2, g, V, M, new, gone, h) ==
    /\ new \subseteq P2 /\ gone \subseteq P
    /\ \A p \in P2 \ new : h[p] \in P \ gone /\ g[p] = f[h[p]]
    /\ \A p, q \in P2 \ new : h[p] = h[q] => p = q
    /\ \A p \in P \ gone : \E q \in P2 \ new : h[q] = p
    /\ \A p \in new : g[p] \notin U
    /\ \A p, q \in new : g[p] = g[q] => p = q
    /\ \/ V = (U \ {f[p] : p \in gone}) \cup {g[p] : p \in new} /\ M = L
       \/ V = U \cup {g[p] : p \in new} /\ M = L \cup {f[p] : p \in gone}

\* Such a step keeps them apart.
LEMMA PointersMove ==
    ASSUME NEW P, NEW f, NEW U, NEW L, Apart(P, f, U, L),
           NEW P2, NEW g, NEW V, NEW M, NEW new, NEW gone, NEW h,
           Moved(P, f, U, L, P2, g, V, M, new, gone, h)
    PROVE  Apart(P2, g, V, M)
<1> USE DEF Moved
<1>1. /\ \A p, q \in P : f[p] = f[q] => p = q
      /\ \A p \in P : f[p] \notin L /\ f[p] \in U
      /\ \A b : b \in U <=> b \in L \/ \E p \in P : b = f[p]
  BY DEF Apart
<1>2. \A p, q \in P2 : g[p] = g[q] => p = q
  <2> SUFFICES ASSUME NEW p \in P2, NEW q \in P2, g[p] = g[q] PROVE p = q
    OBVIOUS
  <2>1. CASE p \in new /\ q \in new
    BY <2>1
  <2>2. CASE p \notin new /\ q \notin new
    BY <2>2, <1>1
  <2>3. CASE (p \in new /\ q \notin new) \/ (p \notin new /\ q \in new)
    BY <2>3, <1>1
  <2> QED
    BY <2>1, <2>2, <2>3
<1>3. \A b : (\E q \in P2 : b = g[q]) <=> \/ \E p \in P \ gone : b = f[p]
                                       \/ \E p \in new : b = g[p]
  <2>1. \A q \in P2 : q \in new \/ (h[q] \in P \ gone /\ g[q] = f[h[q]])
    OBVIOUS
  <2>2. \A p \in P \ gone : \E q \in P2 : g[q] = f[p]
    OBVIOUS
  <2> QED
    BY <2>1, <2>2
<1>4. \A p \in gone : \A q \in P \ gone : f[p] # f[q]
  BY <1>1
<1>5. \A b : b \in {g[q] : q \in P2} => b \notin M
  BY <1>1, <1>3, <1>4
<1>6. \A b : b \in V <=> b \in M \/ \E q \in P2 : b = g[q]
  BY <1>1, <1>3, <1>4
<1>7. {g[q] : q \in P2} \cap M = {}
  BY <1>5
<1>8. {g[q] : q \in P2} \cup M = V
  BY <1>6
<1> QED
  BY <1>2, <1>7, <1>8 DEF Apart

\* The same when those that stay have not moved.
Stayed(P, f, U, L, P2, g, V, M, new, gone) ==
    /\ gone \subseteq P
    /\ \A p : p \in P2 <=> p \in P \ gone \/ p \in new
    /\ \A p \in P \ gone : g[p] = f[p]
    /\ \A p \in new : g[p] \notin U
    /\ \A p, q \in new : g[p] = g[q] => p = q
    /\ \/ V = (U \ {f[p] : p \in gone}) \cup {g[p] : p \in new} /\ M = L
       \/ V = U \cup {g[p] : p \in new} /\ M = L \cup {f[p] : p \in gone}

\* Such a step keeps them apart.
LEMMA PointersStay ==
    ASSUME NEW P, NEW f, NEW U, NEW L, Apart(P, f, U, L),
           NEW P2, NEW g, NEW V, NEW M, NEW new, NEW gone,
           Stayed(P, f, U, L, P2, g, V, M, new, gone)
    PROVE  Apart(P2, g, V, M)
<1> DEFINE h == [p \in P2 |-> p]
<1>1. \A p \in P : f[p] \in U
  BY DEF Apart
<1>2. \A p \in P \ gone : p \notin new
  BY <1>1 DEF Stayed
<1>3. new \subseteq P2
  BY DEF Stayed
<1>4. \A p \in P2 \ new : h[p] \in P \ gone /\ g[p] = f[h[p]]
  BY DEF Stayed
<1>5. \A p, q \in P2 \ new : h[p] = h[q] => p = q
  OBVIOUS
<1>6. \A p \in P \ gone : \E q \in P2 \ new : h[q] = p
  BY <1>2 DEF Stayed
<1> HIDE DEF h
<1>7. Moved(P, f, U, L, P2, g, V, M, new, gone, h)
  BY <1>3, <1>4, <1>5, <1>6 DEF Moved, Stayed
<1> QED
  BY <1>7, PointersMove

\* The first block of an argument, and works.
LEMMA WorkParts ==
    /\ \A w \in AllWorks : w.task \in Blk /\ w.arg[1] \in Blk
    /\ \A w \in TimedWorks : w \in AllWorks /\ w.func # "ether_rx"
    /\ \A w \in AllWorks : w.func = "ack_timeout" => w.arg \in Blk \X Nat
    /\ \A w \in AllWorks : w.func = "ether_rx" => w.arg \in Blk \X Blk
    /\ \A w \in AllWorks : w.func \in {"ether_rx", "recv_timeout", "ack_timeout"}
<1> DEFINE E == [task : Blk, func : {"ether_rx"}, arg : Blk \X Blk]
           R == [task : Blk, func : {"recv_timeout"}, arg : {<<b>> : b \in Blk}]
           A == [task : Blk, func : {"ack_timeout"}, arg : Blk \X Nat]
<1>1. \A w : w \in TimedWorks <=> w \in R \/ w \in A
  BY DEF TimedWorks
<1>2. \A w : w \in AllWorks <=> w \in E \/ w \in R \/ w \in A
  BY DEF TimedWorks, AllWorks
<1>3. \A w \in E : w.task \in Blk /\ w.func = "ether_rx" /\ w.arg \in Blk \X Blk
  OBVIOUS
<1>4. \A w \in R : w.task \in Blk /\ w.func = "recv_timeout" /\ w.arg \in {<<b>> : b \in Blk}
  OBVIOUS
<1>5. \A w \in A : w.task \in Blk /\ w.func = "ack_timeout" /\ w.arg \in Blk \X Nat
  OBVIOUS
<1>6. /\ \A a \in {<<b>> : b \in Blk} : a[1] \in Blk
      /\ \A a \in Blk \X Blk : a[1] \in Blk
      /\ \A a \in Blk \X Nat : a[1] \in Blk
  OBVIOUS
<1> HIDE DEF E, R, A
<1> QED
  BY <1>1, <1>2, <1>3, <1>4, <1>5, <1>6

\* Work makes works.
LEMMA WorkMade ==
    /\ \A t \in Blk, a \in Blk \X Blk : Work(t, "ether_rx", a) \in AllWorks
    /\ \A t, b \in Blk : Work(t, "recv_timeout", <<b>>) \in TimedWorks
    /\ \A t \in Blk, a \in Blk \X Nat : Work(t, "ack_timeout", a) \in TimedWorks
<1>1. \A t \in Blk, a \in Blk \X Blk : Work(t, "ether_rx", a) \in AllWorks
  BY DEF Work, AllWorks
<1>2. \A t, b \in Blk : Work(t, "recv_timeout", <<b>>) \in TimedWorks
  <2> SUFFICES ASSUME NEW t \in Blk, NEW b \in Blk PROVE Work(t, "recv_timeout", <<b>>) \in TimedWorks
    OBVIOUS
  <2>1. <<b>> \in {<<c>> : c \in Blk}
    OBVIOUS
  <2> QED
    BY <2>1 DEF Work, TimedWorks
<1>3. \A t \in Blk, a \in Blk \X Nat : Work(t, "ack_timeout", a) \in TimedWorks
  BY DEF Work, TimedWorks
<1> QED
  BY <1>1, <1>2, <1>3

\* What the kernel task is doing.
LEMMA RunningIs ==
    ASSUME BuffersTypeOK
    PROVE  /\ running.at \in {"loop", "func", "free"}
           /\ running.at # "loop" => /\ running = [at |-> running.at, work |-> running.work]
                                     /\ running.work \in AllWorks
<1>1. running \in [at : {"loop"}] \/ running \in [at : {"func", "free"}, work : AllWorks]
  BY DEF BuffersTypeOK
<1>2. CASE running \in [at : {"loop"}]
  BY <1>2
<1>3. CASE running \in [at : {"func", "free"}, work : AllWorks]
  BY <1>3
<1> QED
  BY <1>1, <1>2, <1>3

\* Every step keeps the types.
LEMMA BuffersTypeKeeps ==
    ASSUME BuffersTypeOK, [BuffersNext]_bufvars
    PROVE  BuffersTypeOK'
<1> DEFINE Run == [at : {"loop"}] \cup [at : {"func", "free"}, work : AllWorks]
           Armed == [timer : Blk, work : TimedWorks]
           Sent == [seq : Nat, blocks : Blk \X Blk \X Blk]
           Msg == [1 .. 2 -> Blk]
           Counters == [{"frame", "send", "recv", "copy", "expiry"} -> Nat]
<1>1. /\ used \in SUBSET Blk /\ works \in Seq(AllWorks) /\ running \in Run
      /\ armed \in SUBSET Armed /\ tx \in SUBSET Sent /\ rx \in Seq(Msg)
      /\ closed \in BOOLEAN /\ stopped \in BOOLEAN /\ calls \in Counters
  BY DEF BuffersTypeOK
<1>2. SUFFICES /\ used' \in SUBSET Blk /\ works' \in Seq(AllWorks) /\ running' \in Run
               /\ armed' \in SUBSET Armed /\ tx' \in SUBSET Sent /\ rx' \in Seq(Msg)
               /\ closed' \in BOOLEAN /\ stopped' \in BOOLEAN /\ calls' \in Counters
  BY DEF BuffersTypeOK
<1>3. \A e \in {"frame", "send", "recv", "copy", "expiry"} : Counts(e) => calls' \in Counters
  BY <1>1 DEF Counts
<1>4. \A t \in Blk, w \in TimedWorks : [timer |-> t, work |-> w] \in Armed
  OBVIOUS
<1>5. \A k \in Nat : Enough(k) => /\ \A i \in 1 .. k : New(k)[i] \in Blk
                                  /\ Range(New(k)) \subseteq Blk
                                  /\ New(k) \in [1 .. k -> Blk]
  BY <1>1, NewBlocks
<1>6. FuncReturns /\ running.at = "func" => running' \in Run
  <2> SUFFICES ASSUME FuncReturns, running.at = "func" PROVE running' \in Run
    OBVIOUS
  <2>1. running' = [at |-> "free", work |-> running.work] /\ running.work \in AllWorks
    BY RunningIs DEF FuncReturns
  <2> QED
    BY <2>1
<1>7. \A a, b \in Blk : <<a, b>> \in Blk \X Blk
  OBVIOUS
<1> HIDE DEF Run, Armed, Msg, Counters
<1>8. CASE NoMemory
  BY <1>1, <1>8 DEF NoMemory
<1>9. CASE receive_packet
  <2>1. CASE Enough(3)
    <3> DEFINE b == New(3)
               w == Work(b[3], "ether_rx", <<b[1], b[2]>>)
    <3>1. b[1] \in Blk /\ b[2] \in Blk /\ b[3] \in Blk /\ Range(b) \subseteq Blk
      BY <2>1, <1>5
    <3>2. w \in AllWorks
      BY <3>1, <1>7, WorkMade
    <3>3. works' = Append(works, w) /\ used' = used \cup Range(b) /\ Counts("frame")
          /\ UNCHANGED <<running, armed, tx, rx, closed, lost, stopped>>
      BY <1>9, <2>1 DEF receive_packet
    <3> HIDE DEF w, b
    <3>4. works' \in Seq(AllWorks)
      BY <1>1, <3>2, <3>3
    <3> QED
      BY <1>1, <1>3, <3>1, <3>3, <3>4
  <2> QED
    BY <1>8, <1>9, <2>1 DEF receive_packet
<1>10. CASE TimerExpires
  <2>1. PICK t \in armed : /\ works' = Append(works, t.work)
                           /\ armed' = armed \ {t}
                           /\ used' = used \ {t.timer}
    BY <1>10 DEF TimerExpires
  <2>2. t.work \in AllWorks
    BY <1>1, WorkParts DEF Armed
  <2>3. works' \in Seq(AllWorks)
    BY <1>1, <2>1, <2>2
  <2>4. Counts("expiry") /\ UNCHANGED <<running, tx, rx, closed, lost, stopped>>
    BY <1>10 DEF TimerExpires
  <2> QED
    BY <1>1, <1>3, <2>1, <2>3, <2>4
<1>11. CASE RecvWaits
  <2>1. CASE Enough(3)
    <3> DEFINE b == New(3)
               w == Work(b[2], "recv_timeout", <<b[1]>>)
    <3>1. b[1] \in Blk /\ b[2] \in Blk /\ b[3] \in Blk /\ Range(b) \subseteq Blk
      BY <2>1, <1>5
    <3>2. w \in TimedWorks
      BY <3>1, WorkMade
    <3>3. armed' = armed \cup {[timer |-> b[3], work |-> w]} /\ used' = used \cup Range(b)
          /\ Counts("recv") /\ UNCHANGED <<works, running, tx, rx, closed, lost, stopped>>
      BY <1>11, <2>1 DEF RecvWaits, Arms
    <3> HIDE DEF w, b
    <3>4. armed' \in SUBSET Armed
      BY <1>1, <1>4, <3>1, <3>2, <3>3
    <3> QED
      BY <1>1, <1>3, <3>1, <3>3, <3>4
  <2> QED
    BY <1>8, <1>11, <2>1 DEF RecvWaits
<1>12. CASE RecvTakes
  BY <1>1, <1>12 DEF RecvTakes
<1>13. CASE SocketFreed
  <2>1. << >> \in Seq(Msg)
    OBVIOUS
  <2> QED
    BY <1>1, <1>13, <2>1 DEF SocketFreed
<1>14. CASE tcp_send
  <2>1. CASE Enough(6)
    <3> DEFINE b == New(6)
               seq == calls.send + 1
               w == Work(b[5], "ack_timeout", <<b[4], seq>>)
               e == [seq |-> seq, blocks |-> <<b[1], b[2], b[3]>>]
    <3>1. b[1] \in Blk /\ b[2] \in Blk /\ b[3] \in Blk /\ b[4] \in Blk /\ b[5] \in Blk
          /\ b[6] \in Blk /\ Range(b) \subseteq Blk
      BY <2>1, <1>5
    <3>2. seq \in Nat
      BY <1>1 DEF Counters
    <3>3. armed' = armed \cup {[timer |-> b[6], work |-> w]} /\ tx' = tx \cup {e}
          /\ used' = used \cup Range(b) /\ closed' = FALSE
          /\ Counts("send") /\ UNCHANGED <<works, running, rx, lost, stopped>>
      BY <1>14, <2>1 DEF tcp_send, Arms
    <3> HIDE DEF b, seq
    <3>4. w \in TimedWorks
      <4>1. <<b[4], seq>> \in Blk \X Nat
        BY <3>1, <3>2
      <4> QED
        BY <3>1, <4>1, WorkMade
    <3>5. e \in Sent
      BY <3>1, <3>2
    <3> HIDE DEF w, e, Sent
    <3>6. armed' \in SUBSET Armed
      BY <1>1, <1>4, <3>1, <3>3, <3>4
    <3>7. tx' \in SUBSET Sent
      BY <1>1, <3>3, <3>5
    <3> QED
      BY <1>1, <1>3, <3>1, <3>3, <3>6, <3>7
  <2> QED
    BY <1>8, <1>14, <2>1 DEF tcp_send
<1>15. CASE Closes
  BY <1>1, <1>15 DEF Closes
<1>16. CASE KernelPops
  <2>1. Head(works) \in AllWorks /\ works' \in Seq(AllWorks)
    BY <1>1, <1>16 DEF KernelPops
  <2>2. running' = [at |-> "func", work |-> Head(works)]
        /\ UNCHANGED <<used, armed, tx, rx, closed, lost, calls, stopped>>
    BY <1>16 DEF KernelPops
  <2>3. running' \in Run
    BY <2>1, <2>2 DEF Run
  <2> QED
    BY <1>1, <2>1, <2>2, <2>3
<1>17. CASE Deliver
  <2>1. CASE Enough(2)
    <3> DEFINE b == New(2)
    <3>1. b \in Msg /\ Range(b) \subseteq Blk
      BY <2>1, <1>5 DEF Msg
    <3>2. /\ used' = used \cup Range(b)
          /\ rx' = Append(rx, b) \/ rx' = rx
          /\ Counts("copy") /\ UNCHANGED <<works, running, armed, tx, closed, stopped>>
      BY <1>17, <2>1 DEF Deliver
    <3> HIDE DEF b
    <3>3. rx' \in Seq(Msg)
      BY <1>1, <3>1, <3>2
    <3> QED
      BY <1>1, <1>3, <3>1, <3>2, <3>3
  <2> QED
    BY <1>8, <1>17, <2>1 DEF Deliver
<1>18. CASE handle_ack
  <2>1. tx' \subseteq tx /\ used' \subseteq used
        /\ UNCHANGED <<works, running, armed, rx, closed, lost, calls, stopped>>
    BY <1>18 DEF handle_ack
  <2> QED
    BY <1>1, <2>1
<1>19. CASE ether_rx
  BY <1>1, <1>6, <1>19 DEF ether_rx, Runs
<1>20. CASE recv_timeout
  BY <1>1, <1>6, <1>20 DEF recv_timeout, Runs
<1>21. CASE tcp_ack_timeout
  <2> DEFINE arg == running.work.arg
             b == New(2)
             w == Work(b[1], "ack_timeout", arg)
  <2>1. running.at = "func" /\ arg \in Blk \X Nat
    BY <1>21, RunningIs, WorkParts DEF tcp_ack_timeout, Runs
  <2>2. UNCHANGED <<works, tx, rx, closed, lost, calls>>
    BY <1>21 DEF tcp_ack_timeout
  <2>3. CASE closed \/ \A e \in tx : e.seq # arg[2]
    <3>1. used' = used \ {arg[1]} /\ FuncReturns /\ UNCHANGED <<armed, stopped>>
      BY <1>21, <2>3 DEF tcp_ack_timeout
    <3> QED
      BY <1>1, <1>6, <2>1, <2>2, <3>1
  <2>4. CASE ~(closed \/ \A e \in tx : e.seq # arg[2]) /\ ~Enough(2)
    <3>1. stopped' = TRUE /\ UNCHANGED <<used, armed, running>>
      BY <1>21, <2>4 DEF tcp_ack_timeout
    <3> QED
      BY <1>1, <2>2, <3>1
  <2>5. CASE ~(closed \/ \A e \in tx : e.seq # arg[2]) /\ Enough(2)
    <3>1. /\ used' = used \cup Range(b)
          /\ armed' = armed \cup {[timer |-> b[2], work |-> w]}
          /\ FuncReturns /\ UNCHANGED stopped
      BY <1>21, <2>5 DEF tcp_ack_timeout, Arms
    <3>2. b[1] \in Blk /\ b[2] \in Blk /\ Range(b) \subseteq Blk
      BY <2>5, <1>5
    <3> HIDE DEF b
    <3>3. w \in TimedWorks
      <4> HIDE DEF arg
      <4> QED
        BY <2>1, <3>2, WorkMade
    <3> HIDE DEF w
    <3>4. armed' \in SUBSET Armed
      BY <1>1, <1>4, <3>1, <3>2, <3>3
    <3> QED
      BY <1>1, <1>6, <2>1, <2>2, <3>1, <3>2, <3>4
  <2> QED
    BY <2>3, <2>4, <2>5
<1>22. CASE WorkFreed
  <2>1. running' = [at |-> "loop"] /\ used' \subseteq used
        /\ UNCHANGED <<works, armed, tx, rx, closed, lost, calls, stopped>>
    BY <1>22 DEF WorkFreed, Idle
  <2> QED
    BY <1>1, <2>1 DEF Run
<1>23. CASE UNCHANGED bufvars
  BY <1>1, <1>23 DEF bufvars
<1> QED
  BY <1>9, <1>10, <1>11, <1>12, <1>13, <1>14, <1>15, <1>16, <1>17, <1>18, <1>19, <1>20, <1>21,
     <1>22, <1>23 DEF BuffersNext

\* What a step starts from and comes to.
LEMMA BuffersStep ==
    ASSUME BuffersInv, [BuffersNext]_bufvars
    PROVE  /\ BuffersTypeOK /\ PointersListed /\ PointersListed'
           /\ Apart(Pointers, Target, used, lost)
           /\ used \in SUBSET Blk
           /\ \A p \in Pointers : Target[p] \in used
           /\ Apart(Pointers', Target', used', lost') => BuffersInv'
<1>1. BuffersTypeOK /\ OneOwner
  BY DEF BuffersInv
<1>2. BuffersTypeOK'
  BY <1>1, BuffersTypeKeeps
<1>3. PointersListed
  BY <1>1, PointersAre
<1>4. PointersListed' /\ (Apart(Pointers', Target', used', lost') => OneOwner')
  BY <1>2, AfterStep
<1>5. Apart(Pointers, Target, used, lost)
  BY <1>1, OneOwnerIsApart DEF OwnersApart
<1>6. \A p \in Pointers : Target[p] \in used
  BY <1>5 DEF Apart
<1>7. used \in SUBSET Blk
  BY <1>1 DEF BuffersTypeOK
<1> QED
  BY <1>1, <1>2, <1>3, <1>4, <1>5, <1>6, <1>7 DEF BuffersInv

\* Owners that a step leaves alone keep their pointers.
LEMMA KindsKept ==
    ASSUME PointersListed, PointersListed'
    PROVE  /\ works' = works =>
                \A i, k : /\ InWork(i, k) \in Pointers' <=> InWork(i, k) \in Pointers
                          /\ InWork(i, k) \in Pointers => Target'[InWork(i, k)] = Target[InWork(i, k)]
           /\ \A t, k : /\ InTimer(t, k) \in Pointers' <=> t \in armed' /\ k \in 1 .. 3
                        /\ InTimer(t, k) \in Pointers <=> t \in armed /\ k \in 1 .. 3
                        /\ InTimer(t, k) \in Pointers /\ InTimer(t, k) \in Pointers' =>
                             Target'[InTimer(t, k)] = Target[InTimer(t, k)]
           /\ \A e, k : /\ InUnacked(e, k) \in Pointers' <=> e \in tx' /\ k \in 1 .. 3
                        /\ InUnacked(e, k) \in Pointers <=> e \in tx /\ k \in 1 .. 3
                        /\ InUnacked(e, k) \in Pointers /\ InUnacked(e, k) \in Pointers' =>
                             Target'[InUnacked(e, k)] = Target[InUnacked(e, k)]
           /\ rx' = rx =>
                \A i, k : /\ InMessage(i, k) \in Pointers' <=> InMessage(i, k) \in Pointers
                          /\ InMessage(i, k) \in Pointers => Target'[InMessage(i, k)] = Target[InMessage(i, k)]
           /\ running' = running =>
                \A k : /\ InRunning(k) \in Pointers' <=> InRunning(k) \in Pointers
                       /\ InRunning(k) \in Pointers => Target'[InRunning(k)] = Target[InRunning(k)]
<1>1. running' = running => RunningSize' = RunningSize
  BY DEF RunningSize
<1>2. running' = running =>
        \A k : /\ InRunning(k) \in Pointers' <=> InRunning(k) \in Pointers
               /\ InRunning(k) \in Pointers => Target'[InRunning(k)] = Target[InRunning(k)]
  BY <1>1 DEF PointersListed
<1>3. works' = works =>
        \A i, k : /\ InWork(i, k) \in Pointers' <=> InWork(i, k) \in Pointers
                  /\ InWork(i, k) \in Pointers => Target'[InWork(i, k)] = Target[InWork(i, k)]
  BY DEF PointersListed
<1>4. rx' = rx =>
        \A i, k : /\ InMessage(i, k) \in Pointers' <=> InMessage(i, k) \in Pointers
                  /\ InMessage(i, k) \in Pointers => Target'[InMessage(i, k)] = Target[InMessage(i, k)]
  BY DEF PointersListed
<1>5. \A t, k : /\ InTimer(t, k) \in Pointers' <=> t \in armed' /\ k \in 1 .. 3
                /\ InTimer(t, k) \in Pointers <=> t \in armed /\ k \in 1 .. 3
                /\ InTimer(t, k) \in Pointers /\ InTimer(t, k) \in Pointers' =>
                     Target'[InTimer(t, k)] = Target[InTimer(t, k)]
  BY DEF PointersListed
<1>6. \A e, k : /\ InUnacked(e, k) \in Pointers' <=> e \in tx' /\ k \in 1 .. 3
                /\ InUnacked(e, k) \in Pointers <=> e \in tx /\ k \in 1 .. 3
                /\ InUnacked(e, k) \in Pointers /\ InUnacked(e, k) \in Pointers' =>
                     Target'[InUnacked(e, k)] = Target[InUnacked(e, k)]
  BY DEF PointersListed
<1> QED
  BY <1>2, <1>3, <1>4, <1>5, <1>6

\* Pointers are of five kinds.
LEMMA FiveKinds ==
    ASSUME PointersListed, PointersListed', NEW p, p \in Pointers \/ p \in Pointers'
    PROVE  \/ \E i, k : p = InWork(i, k)
           \/ \E t, k : p = InTimer(t, k)
           \/ \E e, k : p = InUnacked(e, k)
           \/ \E i, k : p = InMessage(i, k)
           \/ \E k : p = InRunning(k)
  BY DEF PointersListed

\* A received packet gets blocks of its own.
LEMMA ReceiveKeepsOwners ==
    ASSUME BuffersInv, [BuffersNext]_bufvars, receive_packet, Enough(3)
    PROVE  BuffersInv'
<1> DEFINE b == New(3)
           w == Work(b[3], "ether_rx", <<b[1], b[2]>>)
           n == Len(works) + 1
           new == {InWork(n, k) : k \in 1 .. 3}
<1>1. /\ works' = Append(works, w) /\ used' = used \cup Range(b) /\ lost' = lost
      /\ UNCHANGED <<running, armed, tx, rx>>
  BY DEF receive_packet
<1>2. BuffersTypeOK /\ PointersListed /\ PointersListed' /\ Apart(Pointers, Target, used, lost)
      /\ \A p \in Pointers : Target[p] \in used
  BY BuffersStep
<1>3. /\ \A i \in 1 .. 3 : b[i] \notin used
      /\ \A i, j \in 1 .. 3 : b[i] = b[j] => i = j
      /\ Range(b) = {b[i] : i \in 1 .. 3}
  <2>1. used \in SUBSET Blk
    BY BuffersStep
  <2> QED
    BY <2>1, NewBlocks
<1>4. WorkBlocks(w) = <<b[3], b[1], b[2]>> /\ WorkSize(w) = 3
  BY DEF Work, WorkBlocks, WorkSize
<1> HIDE DEF b, w
<1>5. /\ Len(works) \in Nat /\ Len(works') = n /\ works'[n] = w
      /\ \A i \in 1 .. Len(works) : works'[i] = works[i]
  BY <1>1, <1>2 DEF BuffersTypeOK
<1>6. /\ \A i, k : InWork(i, k) \in Pointers' <=> InWork(i, k) \in Pointers \/ (i = n /\ k \in 1 .. 3)
      /\ \A i, k : InWork(i, k) \in Pointers => Target'[InWork(i, k)] = Target[InWork(i, k)]
      /\ \A k \in 1 .. 3 : Target'[InWork(n, k)] = <<b[3], b[1], b[2]>>[k]
  <2>1. \A i : i \in 1 .. n <=> i \in 1 .. Len(works) \/ i = n
    BY <1>5
  <2>2. \A i, k : InWork(i, k) \in Pointers' <=> InWork(i, k) \in Pointers \/ (i = n /\ k \in 1 .. 3)
    BY <1>2, <1>4, <1>5, <2>1 DEF PointersListed
  <2>3. \A i, k : InWork(i, k) \in Pointers => Target'[InWork(i, k)] = Target[InWork(i, k)]
    BY <1>2, <1>5, <2>2 DEF PointersListed
  <2>4. \A k \in 1 .. 3 : Target'[InWork(n, k)] = <<b[3], b[1], b[2]>>[k]
    BY <1>2, <1>4, <1>5, <2>2 DEF PointersListed
  <2> QED
    BY <2>2, <2>3, <2>4
<1>7. \A p : p \in Pointers' <=> p \in Pointers \ {} \/ p \in new
  <2>1. \A i, k : InWork(i, k) \in new <=> i = n /\ k \in 1 .. 3
    BY PointerKinds
  <2>2. \A p \in new : \E k \in 1 .. 3 : p = InWork(n, k)
    OBVIOUS
  <2> HIDE DEF new, n
  <2> QED
    BY <1>1, <1>2, <1>6, <2>1, <2>2, KindsKept, FiveKinds
<1>8. \A p \in Pointers : Target'[p] = Target[p]
  <2> HIDE DEF new, n
  <2> QED
    BY <1>1, <1>2, <1>6, <1>7, KindsKept, FiveKinds
<1>9. /\ \A p \in new : Target'[p] \notin used
      /\ \A p, q \in new : Target'[p] = Target'[q] => p = q
      /\ {Target'[p] : p \in new} = Range(b)
  <2>1. /\ Target'[InWork(n, 1)] = b[3] /\ Target'[InWork(n, 2)] = b[1] /\ Target'[InWork(n, 3)] = b[2]
    BY <1>6
  <2>2. new = {InWork(n, 1), InWork(n, 2), InWork(n, 3)} /\ Range(b) = {b[1], b[2], b[3]}
    BY <1>3
  <2>3. \A p \in new : Target'[p] \notin used
    BY <1>3, <2>1, <2>2
  <2>4. \A p, q \in new : Target'[p] = Target'[q] => p = q
    BY <1>3, <2>1, <2>2
  <2>5. {Target'[p] : p \in new} = Range(b)
    <3> HIDE DEF new
    <3> QED
      BY <2>1, <2>2
  <2> QED
    BY <2>3, <2>4, <2>5
<1> HIDE DEF new
<1>10. Stayed(Pointers, Target, used, lost, Pointers', Target', used', lost', new, {})
  <2>1. {Target[p] : p \in {}} = {}
    OBVIOUS
  <2> QED
    BY <1>1, <1>7, <1>8, <1>9, <2>1 DEF Stayed
<1> QED
  BY <1>2, <1>10, PointersStay, BuffersStep

\* The blocks that mem_alloc returns are nobody's, and different.
LEMMA BlocksFresh ==
    ASSUME BuffersInv, NEW k \in Nat, Enough(k)
    PROVE  /\ \A i \in 1 .. k : New(k)[i] \notin used
           /\ \A i, j \in 1 .. k : New(k)[i] = New(k)[j] => i = j
           /\ Range(New(k)) = {New(k)[i] : i \in 1 .. k}
<1>1. used \in SUBSET Blk
  BY DEF BuffersInv, BuffersTypeOK
<1> QED
  BY <1>1, NewBlocks

\* A receive that sleeps gets a timer and an argument of its own.
LEMMA WaitKeepsOwners ==
    ASSUME BuffersInv, [BuffersNext]_bufvars, RecvWaits, Enough(3)
    PROVE  BuffersInv'
<1> DEFINE b == New(3)
           w == Work(b[2], "recv_timeout", <<b[1]>>)
           t == [timer |-> b[3], work |-> w]
           new == {InTimer(t, k) : k \in 1 .. 3}
<1>1. /\ armed' = armed \cup {t} /\ used' = used \cup Range(b) /\ lost' = lost
      /\ UNCHANGED <<running, works, tx, rx>>
  BY DEF RecvWaits, Arms
<1>2. BuffersTypeOK /\ PointersListed /\ PointersListed' /\ Apart(Pointers, Target, used, lost)
      /\ \A p \in Pointers : Target[p] \in used
  BY BuffersStep
<1>3. /\ \A i \in 1 .. 3 : b[i] \notin used
      /\ \A i, j \in 1 .. 3 : b[i] = b[j] => i = j
      /\ Range(b) = {b[i] : i \in 1 .. 3}
  BY BlocksFresh
<1>4. TimerBlocks(t) = <<b[3], b[2], b[1]>>
  BY DEF Work, TimerBlocks
<1> HIDE DEF b, t
<1>5. t \notin armed
  <2> SUFFICES ASSUME t \in armed PROVE FALSE
    OBVIOUS
  <2>1. InTimer(t, 1) \in Pointers /\ Target[InTimer(t, 1)] = TimerBlocks(t)[1]
    BY <1>2 DEF PointersListed
  <2> QED
    BY <1>2, <1>3, <1>4, <2>1
<1>6. \A k \in 1 .. 3 : Target'[InTimer(t, k)] = <<b[3], b[2], b[1]>>[k]
  BY <1>1, <1>2, <1>4 DEF PointersListed
<1>7. \A p : p \in Pointers' <=> p \in Pointers \ {} \/ p \in new
  <2>1. \A s, k : InTimer(s, k) \in new <=> s = t /\ k \in 1 .. 3
    BY PointerKinds
  <2>2. \A p \in new : \E k \in 1 .. 3 : p = InTimer(t, k)
    OBVIOUS
  <2> HIDE DEF new
  <2> QED
    BY <1>1, <1>2, <2>1, <2>2, KindsKept, FiveKinds
<1>8. \A p \in Pointers : Target'[p] = Target[p]
  <2> HIDE DEF new
  <2> QED
    BY <1>1, <1>2, <1>7, KindsKept, FiveKinds
<1>9. /\ \A p \in new : Target'[p] \notin used
      /\ \A p, q \in new : Target'[p] = Target'[q] => p = q
      /\ {Target'[p] : p \in new} = Range(b)
  <2>1. /\ Target'[InTimer(t, 1)] = b[3] /\ Target'[InTimer(t, 2)] = b[2] /\ Target'[InTimer(t, 3)] = b[1]
    BY <1>6
  <2>2. new = {InTimer(t, 1), InTimer(t, 2), InTimer(t, 3)} /\ Range(b) = {b[1], b[2], b[3]}
    BY <1>3
  <2>3. \A p \in new : Target'[p] \notin used
    BY <1>3, <2>1, <2>2
  <2>4. \A p, q \in new : Target'[p] = Target'[q] => p = q
    BY <1>3, <2>1, <2>2
  <2>5. {Target'[p] : p \in new} = Range(b)
    <3> HIDE DEF new
    <3> QED
      BY <2>1, <2>2
  <2> QED
    BY <2>3, <2>4, <2>5
<1> HIDE DEF new
<1>10. Stayed(Pointers, Target, used, lost, Pointers', Target', used', lost', new, {})
  <2>1. {Target[p] : p \in {}} = {}
    OBVIOUS
  <2> QED
    BY <1>1, <1>7, <1>8, <1>9, <2>1 DEF Stayed
<1> QED
  BY <1>2, <1>10, PointersStay, BuffersStep

\* A packet that waits for its ack, and the timer of its retransmission.
LEMMA SendKeepsOwners ==
    ASSUME BuffersInv, [BuffersNext]_bufvars, tcp_send, Enough(6)
    PROVE  BuffersInv'
<1> DEFINE b == New(6)
           e == [seq |-> calls.send + 1, blocks |-> <<b[1], b[2], b[3]>>]
           w == Work(b[5], "ack_timeout", <<b[4], calls.send + 1>>)
           t == [timer |-> b[6], work |-> w]
           new == {InUnacked(e, k) : k \in 1 .. 3} \cup {InTimer(t, k) : k \in 1 .. 3}
<1>1. /\ armed' = armed \cup {t} /\ tx' = tx \cup {e} /\ used' = used \cup Range(b) /\ lost' = lost
      /\ UNCHANGED <<running, works, rx>>
  BY DEF tcp_send, Arms
<1>2. BuffersTypeOK /\ PointersListed /\ PointersListed' /\ Apart(Pointers, Target, used, lost)
      /\ \A p \in Pointers : Target[p] \in used
  BY BuffersStep
<1>3. /\ \A i \in 1 .. 6 : b[i] \notin used
      /\ \A i, j \in 1 .. 6 : b[i] = b[j] => i = j
      /\ Range(b) = {b[i] : i \in 1 .. 6}
  BY BlocksFresh
<1>4. TimerBlocks(t) = <<b[6], b[5], b[4]>> /\ e.blocks = <<b[1], b[2], b[3]>>
  BY DEF Work, TimerBlocks
<1> HIDE DEF b, t, e
<1>5. t \notin armed /\ e \notin tx
  <2>1. ASSUME t \in armed PROVE FALSE
    <3>1. InTimer(t, 1) \in Pointers /\ Target[InTimer(t, 1)] = TimerBlocks(t)[1]
      BY <1>2, <2>1 DEF PointersListed
    <3> QED
      BY <1>2, <1>3, <1>4, <3>1
  <2>2. ASSUME e \in tx PROVE FALSE
    <3>1. InUnacked(e, 1) \in Pointers /\ Target[InUnacked(e, 1)] = e.blocks[1]
      BY <1>2, <2>2 DEF PointersListed
    <3> QED
      BY <1>2, <1>3, <1>4, <3>1
  <2> QED
    BY <2>1, <2>2
<1>6. /\ \A k \in 1 .. 3 : Target'[InTimer(t, k)] = <<b[6], b[5], b[4]>>[k]
      /\ \A k \in 1 .. 3 : Target'[InUnacked(e, k)] = <<b[1], b[2], b[3]>>[k]
  BY <1>1, <1>2, <1>4 DEF PointersListed
<1>7. \A p : p \in Pointers' <=> p \in Pointers \ {} \/ p \in new
  <2>1. /\ \A s, k : InTimer(s, k) \in new <=> s = t /\ k \in 1 .. 3
        /\ \A s, k : InUnacked(s, k) \in new <=> s = e /\ k \in 1 .. 3
    BY PointerKinds
  <2>2. \A p \in new : \E k \in 1 .. 3 : p = InTimer(t, k) \/ p = InUnacked(e, k)
    OBVIOUS
  <2> HIDE DEF new
  <2> QED
    BY <1>1, <1>2, <2>1, <2>2, KindsKept, FiveKinds
<1>8. \A p \in Pointers : Target'[p] = Target[p]
  <2> HIDE DEF new
  <2> QED
    BY <1>1, <1>2, <1>7, KindsKept, FiveKinds
<1>9. /\ \A p \in new : Target'[p] \notin used
      /\ \A p, q \in new : Target'[p] = Target'[q] => p = q
      /\ {Target'[p] : p \in new} = Range(b)
  <2>1. /\ Target'[InTimer(t, 1)] = b[6] /\ Target'[InTimer(t, 2)] = b[5] /\ Target'[InTimer(t, 3)] = b[4]
        /\ Target'[InUnacked(e, 1)] = b[1] /\ Target'[InUnacked(e, 2)] = b[2]
        /\ Target'[InUnacked(e, 3)] = b[3]
    BY <1>6
  <2>2. /\ new = {InTimer(t, 1), InTimer(t, 2), InTimer(t, 3),
                  InUnacked(e, 1), InUnacked(e, 2), InUnacked(e, 3)}
        /\ Range(b) = {b[1], b[2], b[3], b[4], b[5], b[6]}
    BY <1>3
  <2> HIDE DEF new
  <2>3. \A p \in new : Target'[p] \notin used
    BY <1>3, <2>1, <2>2
  <2>4. \A p, q \in new : Target'[p] = Target'[q] => p = q
    BY <1>3, <2>1, <2>2
  <2>5. {Target'[p] : p \in new} = Range(b)
    BY <2>1, <2>2
  <2> QED
    BY <2>3, <2>4, <2>5
<1> HIDE DEF new
<1>10. Stayed(Pointers, Target, used, lost, Pointers', Target', used', lost', new, {})
  <2>1. {Target[p] : p \in {}} = {}
    OBVIOUS
  <2> QED
    BY <1>1, <1>7, <1>8, <1>9, <2>1 DEF Stayed
<1> QED
  BY <1>2, <1>10, PointersStay, BuffersStep

\* The data of a packet is copied into a message.
LEMMA DeliverKeepsOwners ==
    ASSUME BuffersInv, [BuffersNext]_bufvars, Deliver, Enough(2), rx' # rx
    PROVE  BuffersInv'
<1> DEFINE b == New(2)
           n == Len(rx) + 1
           new == {InMessage(n, k) : k \in 1 .. 2}
<1>1. /\ rx' = Append(rx, b) /\ used' = used \cup Range(b) /\ lost' = lost
      /\ UNCHANGED <<running, armed, tx, works>>
  BY DEF Deliver
<1>2. BuffersTypeOK /\ PointersListed /\ PointersListed' /\ Apart(Pointers, Target, used, lost)
      /\ \A p \in Pointers : Target[p] \in used
  BY BuffersStep
<1>3. /\ \A i \in 1 .. 2 : b[i] \notin used
      /\ \A i, j \in 1 .. 2 : b[i] = b[j] => i = j
      /\ Range(b) = {b[i] : i \in 1 .. 2}
  BY BlocksFresh
<1> HIDE DEF b
<1>5. /\ Len(rx) \in Nat /\ Len(rx') = n /\ rx'[n] = b
      /\ \A i \in 1 .. Len(rx) : rx'[i] = rx[i]
  BY <1>1, <1>2 DEF BuffersTypeOK
<1>6. /\ \A i, k : InMessage(i, k) \in Pointers' <=> InMessage(i, k) \in Pointers \/ (i = n /\ k \in 1 .. 2)
      /\ \A i, k : InMessage(i, k) \in Pointers => Target'[InMessage(i, k)] = Target[InMessage(i, k)]
      /\ \A k \in 1 .. 2 : Target'[InMessage(n, k)] = b[k]
  <2>1. \A i : i \in 1 .. n <=> i \in 1 .. Len(rx) \/ i = n
    BY <1>5
  <2>2. \A i, k : InMessage(i, k) \in Pointers' <=> InMessage(i, k) \in Pointers \/ (i = n /\ k \in 1 .. 2)
    BY <1>2, <1>5, <2>1 DEF PointersListed
  <2>3. \A i, k : InMessage(i, k) \in Pointers => Target'[InMessage(i, k)] = Target[InMessage(i, k)]
    BY <1>2, <1>5, <2>2 DEF PointersListed
  <2>4. \A k \in 1 .. 2 : Target'[InMessage(n, k)] = b[k]
    BY <1>2, <1>5, <2>2 DEF PointersListed
  <2> QED
    BY <2>2, <2>3, <2>4
<1>7. \A p : p \in Pointers' <=> p \in Pointers \ {} \/ p \in new
  <2>1. \A i, k : InMessage(i, k) \in new <=> i = n /\ k \in 1 .. 2
    BY PointerKinds
  <2>2. \A p \in new : \E k \in 1 .. 2 : p = InMessage(n, k)
    OBVIOUS
  <2> HIDE DEF new, n
  <2> QED
    BY <1>1, <1>2, <1>6, <2>1, <2>2, KindsKept, FiveKinds
<1>8. \A p \in Pointers : Target'[p] = Target[p]
  <2> HIDE DEF new, n
  <2> QED
    BY <1>1, <1>2, <1>6, <1>7, KindsKept, FiveKinds
<1>9. /\ \A p \in new : Target'[p] \notin used
      /\ \A p, q \in new : Target'[p] = Target'[q] => p = q
      /\ {Target'[p] : p \in new} = Range(b)
  <2>1. /\ Target'[InMessage(n, 1)] = b[1] /\ Target'[InMessage(n, 2)] = b[2]
    BY <1>6
  <2>2. new = {InMessage(n, 1), InMessage(n, 2)} /\ Range(b) = {b[1], b[2]}
    BY <1>3
  <2>3. \A p \in new : Target'[p] \notin used
    BY <1>3, <2>1, <2>2
  <2>4. \A p, q \in new : Target'[p] = Target'[q] => p = q
    BY <1>3, <2>1, <2>2
  <2>5. {Target'[p] : p \in new} = Range(b)
    <3> HIDE DEF new
    <3> QED
      BY <2>1, <2>2
  <2> QED
    BY <2>3, <2>4, <2>5
<1> HIDE DEF new
<1>10. Stayed(Pointers, Target, used, lost, Pointers', Target', used', lost', new, {})
  <2>1. {Target[p] : p \in {}} = {}
    OBVIOUS
  <2> QED
    BY <1>1, <1>7, <1>8, <1>9, <2>1 DEF Stayed
<1> QED
  BY <1>2, <1>10, PointersStay, BuffersStep

\* The pointers of the kernel task's work while it runs and after.
RunningListed ==
    /\ running.at \in {"loop", "func", "free"}
    /\ \A k : InRunning(k) \in Pointers =>
                \/ /\ k = 1 /\ running.at # "loop"
                   /\ Target[InRunning(k)] = running.work.task
                \/ /\ k = 2 /\ running.at = "func"
                   /\ Target[InRunning(k)] = running.work.arg[1]
                \/ /\ k = 3 /\ running.at = "func" /\ running.work.func = "ether_rx"
                   /\ Target[InRunning(k)] = running.work.arg[2]
    /\ running.at # "loop" => InRunning(1) \in Pointers
    /\ running.at = "func" => InRunning(2) \in Pointers
    /\ running.at = "func" /\ running.work.func = "ether_rx" => InRunning(3) \in Pointers

\* There are one, two or three of them.
LEMMA RunningPointers == BuffersTypeOK => RunningListed
<1> SUFFICES ASSUME BuffersTypeOK PROVE RunningListed
  OBVIOUS
<1>a. PointersListed
  BY PointersAre
<1> USE <1>a DEF RunningListed
<1>1. running.at \in {"loop", "func", "free"}
  BY RunningIs
<1>2. CASE running.at = "loop"
  <2>1. RunningSize = 0 /\ \A k : k \notin 1 .. 0
    BY <1>2 DEF RunningSize
  <2> QED
    BY <1>2, <2>1 DEF PointersListed
<1>3. CASE running.at = "free"
  <2>1. RunningSize = 1 /\ \A k : k \in 1 .. 1 <=> k = 1
    BY <1>3 DEF RunningSize
  <2>2. Target[InRunning(1)] = <<running.work.task>>[1]
    BY <1>3, <2>1 DEF PointersListed
  <2> QED
    BY <1>3, <2>1, <2>2 DEF PointersListed
<1>4. CASE running.at = "func"
  <2>1. /\ RunningSize = WorkSize(running.work)
        /\ \A k : k \in 1 .. 3 <=> k = 1 \/ k = 2 \/ k = 3
        /\ \A k : k \in 1 .. 2 <=> k = 1 \/ k = 2
    BY <1>4 DEF RunningSize
  <2>2. \A k : InRunning(k) \in Pointers => Target[InRunning(k)] = WorkBlocks(running.work)[k]
    BY <1>4 DEF PointersListed
  <2>3. \A k : InRunning(k) \in Pointers <=> k \in 1 .. WorkSize(running.work)
    BY <2>1 DEF PointersListed
  <2>4. CASE running.work.func = "ether_rx"
    <3>1. WorkBlocks(running.work) = <<running.work.task, running.work.arg[1], running.work.arg[2]>>
          /\ WorkSize(running.work) = 3
      BY <2>4 DEF WorkBlocks, WorkSize
    <3> QED
      BY <1>4, <2>1, <2>2, <2>3, <2>4, <3>1
  <2>5. CASE running.work.func # "ether_rx"
    <3>1. WorkBlocks(running.work) = <<running.work.task, running.work.arg[1]>>
          /\ WorkSize(running.work) = 2
      BY <2>5 DEF WorkBlocks, WorkSize
    <3> QED
      BY <1>4, <2>1, <2>2, <2>3, <2>5, <3>1
  <2> QED
    BY <2>4, <2>5
<1> QED
  BY <1>1, <1>2, <1>3, <1>4

\* The same after a step.
LEMMA RunningPointersNext == BuffersTypeOK' => RunningListed'
  BY RunningPointers, PTL

\* Both, in a step.
LEMMA RunningStep ==
    ASSUME BuffersInv, [BuffersNext]_bufvars
    PROVE  RunningListed /\ RunningListed'
<1>1. BuffersTypeOK /\ BuffersTypeOK'
  BY BuffersTypeKeeps DEF BuffersInv
<1> QED
  BY <1>1, RunningPointers, RunningPointersNext

\* A step that leaves the owners and their blocks alone.
LEMMA OwnersUntouched ==
    ASSUME BuffersInv, [BuffersNext]_bufvars,
           UNCHANGED <<used, works, running, armed, tx, rx, lost>>
    PROVE  BuffersInv'
<1>1. PointersListed /\ PointersListed' /\ Apart(Pointers, Target, used, lost)
  BY BuffersStep
<1>2. \A p : p \in Pointers' <=> p \in Pointers \ {} \/ p \in {}
  BY <1>1, KindsKept, FiveKinds
<1>3. \A p \in Pointers : Target'[p] = Target[p]
  BY <1>1, <1>2, KindsKept, FiveKinds
<1>4. Stayed(Pointers, Target, used, lost, Pointers', Target', used', lost', {}, {})
  <2>1. {Target[p] : p \in {}} = {} /\ {Target'[p] : p \in {}} = {}
    OBVIOUS
  <2> QED
    BY <1>2, <1>3, <2>1 DEF Stayed
<1> QED
  BY <1>1, <1>4, PointersStay, BuffersStep

\* A message that is forgotten as soon as it is made.
LEMMA ForgetKeepsOwners ==
    ASSUME BuffersInv, [BuffersNext]_bufvars, Deliver, Enough(2), rx' = rx
    PROVE  BuffersInv'
<1> DEFINE b == New(2)
<1>1. /\ \A i \in 1 .. 2 : b[i] \notin used
      /\ Range(b) = {b[i] : i \in 1 .. 2}
  BY BlocksFresh
<1>2. BuffersTypeOK /\ PointersListed /\ PointersListed' /\ Apart(Pointers, Target, used, lost)
      /\ \A p \in Pointers : Target[p] \in used
  BY BuffersStep
<1>3. used' = used \cup Range(b) /\ lost' = lost \cup Range(b)
      /\ UNCHANGED <<works, running, armed, tx, rx>>
  <2>1. b \in [1 .. 2 -> Blk \ used]
    BY <1>2, NewBlocks DEF BuffersTypeOK
  <2>2. Append(rx, b) # rx
    <3>1. rx \in Seq([1 .. 2 -> Blk])
      BY <1>2 DEF BuffersTypeOK
    <3> HIDE DEF b
    <3>2. b \in [1 .. 2 -> Blk]
      BY <2>1
    <3>3. Len(Append(rx, b)) = Len(rx) + 1 /\ Len(rx) \in Nat
      BY <3>1, <3>2
    <3> QED
      BY <3>3
  <2> QED
    BY <2>2 DEF Deliver
<1> HIDE DEF b
<1>4. \A p : p \in Pointers' <=> p \in Pointers
  BY <1>2, <1>3, KindsKept, FiveKinds
<1>5. \A p \in Pointers : Target'[p] = Target[p]
  BY <1>2, <1>3, <1>4, KindsKept, FiveKinds
<1>6. Pointers' = Pointers
  BY <1>4
<1>7. {Target'[p] : p \in Pointers'} = {Target[p] : p \in Pointers}
  BY <1>5, <1>6
<1>8. \A x \in Range(b) : x \notin used
  BY <1>1
<1>9. \A x \in {Target[p] : p \in Pointers} : x \in used
  BY <1>2
<1>10. Apart(Pointers', Target', used', lost')
  <2>1. \A p, q \in Pointers' : Target'[p] = Target'[q] => p = q
    BY <1>2, <1>5, <1>6 DEF Apart
  <2>2. {Target'[p] : p \in Pointers'} \cap lost' = {}
    BY <1>2, <1>3, <1>7, <1>8, <1>9 DEF Apart
  <2>3. {Target'[p] : p \in Pointers'} \cup lost' = used'
    BY <1>2, <1>3, <1>7 DEF Apart
  <2> QED
    BY <2>1, <2>2, <2>3 DEF Apart
<1> QED
  BY <1>10, BuffersStep

\* The messages of a socket that is freed.
LEMMA SocketFreeKeepsOwners ==
    ASSUME BuffersInv, [BuffersNext]_bufvars, SocketFreed
    PROVE  BuffersInv'
<1> DEFINE gone == {p \in Pointers : \E i, k : p = InMessage(i, k)}
           Messages == UNION {Range(rx[i]) : i \in DOMAIN rx}
<1>1. /\ rx' = << >> /\ used' = used \ Messages /\ lost' = lost
      /\ UNCHANGED <<running, armed, tx, works>>
  BY DEF SocketFreed
<1>2. BuffersTypeOK /\ PointersListed /\ PointersListed' /\ Apart(Pointers, Target, used, lost)
  BY BuffersStep
<1>3. DOMAIN rx = 1 .. Len(rx) /\ \A i \in 1 .. Len(rx) : rx[i] \in [1 .. 2 -> Blk]
  BY <1>2 DEF BuffersTypeOK
<1>4. {Target[p] : p \in gone} = Messages
  <2>1. \A p \in gone : \E i \in 1 .. Len(rx), k \in 1 .. 2 : p = InMessage(i, k) /\ Target[p] = rx[i][k]
    BY <1>2 DEF PointersListed
  <2>2. \A i \in 1 .. Len(rx), k \in 1 .. 2 : InMessage(i, k) \in gone /\ Target[InMessage(i, k)] = rx[i][k]
    BY <1>2 DEF PointersListed
  <2>3. \A i \in 1 .. Len(rx) : Range(rx[i]) = {rx[i][k] : k \in 1 .. 2}
    BY <1>3 DEF Range
  <2>4. \A x : x \in Messages <=> \E i \in 1 .. Len(rx), k \in 1 .. 2 : x = rx[i][k]
    <3>1. \A x : x \in Messages <=> \E i \in 1 .. Len(rx) : x \in Range(rx[i])
      BY <1>3
    <3>2. \A x : \A i \in 1 .. Len(rx) : x \in Range(rx[i]) <=> \E k \in 1 .. 2 : x = rx[i][k]
      BY <2>3
    <3> HIDE DEF Messages
    <3> QED
      BY <3>1, <3>2
  <2>5. \A x : x \in {Target[p] : p \in gone} <=> \E p \in gone : x = Target[p]
    OBVIOUS
  <2> HIDE DEF gone, Messages
  <2>6. \A x : (\E p \in gone : x = Target[p]) <=> \E i \in 1 .. Len(rx), k \in 1 .. 2 : x = rx[i][k]
    <3> SUFFICES ASSUME NEW x
                 PROVE  (\E p \in gone : x = Target[p])
                        <=> \E i \in 1 .. Len(rx), k \in 1 .. 2 : x = rx[i][k]
      OBVIOUS
    <3>1. ASSUME NEW p \in gone, x = Target[p] PROVE \E i \in 1 .. Len(rx), k \in 1 .. 2 : x = rx[i][k]
      BY <2>1, <3>1
    <3>2. ASSUME NEW i \in 1 .. Len(rx), NEW k \in 1 .. 2, x = rx[i][k] PROVE \E p \in gone : x = Target[p]
      BY <2>2, <3>2
    <3> QED
      BY <3>1, <3>2
  <2> QED
    BY <2>4, <2>5, <2>6
<1>5. \A i, k : InMessage(i, k) \notin Pointers'
  <2>1. Len(rx') = 0
    BY <1>1
  <2> QED
    BY <1>2, <2>1 DEF PointersListed
<1>6. \A p : p \in Pointers' <=> p \in Pointers \ gone \/ p \in {}
  <2>1. \A p : p \in gone <=> p \in Pointers /\ \E i, k : p = InMessage(i, k)
    OBVIOUS
  <2> HIDE DEF gone
  <2> QED
    BY <1>1, <1>2, <1>5, <2>1, KindsKept, FiveKinds, PointerKinds
<1>7. \A p \in Pointers \ gone : Target'[p] = Target[p]
  <2>1. \A i, k : InMessage(i, k) \in Pointers => InMessage(i, k) \in gone
    OBVIOUS
  <2> HIDE DEF gone
  <2> QED
    BY <1>1, <1>2, <1>6, <2>1, KindsKept, FiveKinds
<1>8. gone \subseteq Pointers
  OBVIOUS
<1> HIDE DEF gone, Messages
<1>9. Stayed(Pointers, Target, used, lost, Pointers', Target', used', lost', {}, gone)
  <2>1. {Target'[p] : p \in {}} = {}
    OBVIOUS
  <2> QED
    BY <1>1, <1>4, <1>6, <1>7, <1>8, <2>1 DEF Stayed
<1> QED
  BY <1>2, <1>9, PointersStay, BuffersStep

\* The packets that are acknowledged.
LEMMA AckKeepsOwners ==
    ASSUME BuffersInv, [BuffersNext]_bufvars, handle_ack
    PROVE  BuffersInv'
<1>1. PICK ack \in 1 .. calls.send : /\ tx' = tx \ Acked(ack)
                                     /\ used' = used \ UNION {Range(e.blocks) : e \in Acked(ack)}
  BY DEF handle_ack
<1>2. lost' = lost /\ UNCHANGED <<running, armed, works, rx>>
  BY DEF handle_ack
<1> DEFINE A == Acked(ack)
           gone == {InUnacked(e, k) : e \in A, k \in 1 .. 3}
           Packets == UNION {Range(e.blocks) : e \in A}
<1>3. BuffersTypeOK /\ PointersListed /\ PointersListed' /\ Apart(Pointers, Target, used, lost)
  BY BuffersStep
<1>4. A \subseteq tx /\ \A e \in tx : e.blocks \in Blk \X Blk \X Blk
  <2>1. A \subseteq tx
    BY DEF Acked, First
  <2>2. \A e \in tx : e.blocks \in Blk \X Blk \X Blk
    BY <1>3 DEF BuffersTypeOK
  <2> QED
    BY <2>1, <2>2
<1>5. tx' = tx \ A /\ used' = used \ Packets
  BY <1>1
<1> HIDE DEF A
<1>6. /\ \A p \in gone : \E e \in A, k \in 1 .. 3 : p = InUnacked(e, k) /\ Target[p] = e.blocks[k]
      /\ \A e \in A, k \in 1 .. 3 : InUnacked(e, k) \in gone /\ Target[InUnacked(e, k)] = e.blocks[k]
  BY <1>3, <1>4 DEF PointersListed
<1>7. {Target[p] : p \in gone} = Packets
  <2>1. \A e \in A : Range(e.blocks) = {e.blocks[k] : k \in 1 .. 3}
    BY <1>4 DEF Range
  <2>2. \A x : x \in Packets <=> \E e \in A, k \in 1 .. 3 : x = e.blocks[k]
    <3>1. \A x : x \in Packets <=> \E e \in A : x \in Range(e.blocks)
      OBVIOUS
    <3>2. \A x : \A e \in A : x \in Range(e.blocks) <=> \E k \in 1 .. 3 : x = e.blocks[k]
      BY <2>1
    <3> HIDE DEF Packets
    <3> QED
      BY <3>1, <3>2
  <2>3. \A x : x \in {Target[p] : p \in gone} <=> \E p \in gone : x = Target[p]
    OBVIOUS
  <2> HIDE DEF gone, Packets
  <2>4. \A x : (\E p \in gone : x = Target[p]) <=> \E e \in A, k \in 1 .. 3 : x = e.blocks[k]
    <3>1. ASSUME NEW p \in gone PROVE \E e \in A, k \in 1 .. 3 : Target[p] = e.blocks[k]
      BY <1>6
    <3>2. ASSUME NEW e \in A, NEW k \in 1 .. 3 PROVE \E p \in gone : e.blocks[k] = Target[p]
      BY <1>6
    <3>3. ASSUME NEW x, NEW p \in gone, x = Target[p] PROVE \E e \in A, k \in 1 .. 3 : x = e.blocks[k]
      BY <3>1, <3>3
    <3>4. ASSUME NEW x, NEW e \in A, NEW k \in 1 .. 3, x = e.blocks[k] PROVE \E p \in gone : x = Target[p]
      BY <3>2, <3>4
    <3> QED
      BY <3>3, <3>4
  <2> QED
    BY <2>2, <2>3, <2>4
<1>8. \A p : p \in Pointers' <=> p \in Pointers \ gone \/ p \in {}
  <2>1. \A e, k : InUnacked(e, k) \in gone <=> e \in A /\ k \in 1 .. 3
    BY PointerKinds
  <2>2. \A p \in gone : \E e, k : p = InUnacked(e, k)
    OBVIOUS
  <2> HIDE DEF gone
  <2>3. \A p : (\E e, k : p = InUnacked(e, k)) => (p \in Pointers' <=> p \in Pointers \ gone)
    BY <1>3, <1>5, <2>1, KindsKept
  <2>4. ASSUME NEW p, ~(\E e, k : p = InUnacked(e, k)) PROVE p \in Pointers' <=> p \in Pointers
    <3>1. CASE \E i, k : p = InWork(i, k)
      BY <1>2, <1>3, <3>1, KindsKept
    <3>2. CASE \E t, k : p = InTimer(t, k)
      BY <1>2, <1>3, <3>2, KindsKept
    <3>3. CASE \E i, k : p = InMessage(i, k)
      BY <1>2, <1>3, <3>3, KindsKept
    <3>4. CASE \E k : p = InRunning(k)
      BY <1>2, <1>3, <3>4, KindsKept
    <3> QED
      BY <1>3, <2>4, <3>1, <3>2, <3>3, <3>4, FiveKinds
  <2>5. \A p \in gone : p \in Pointers
    BY <1>3, <1>4 DEF PointersListed, gone
  <2> QED
    BY <2>2, <2>3, <2>4, <2>5
<1>9. \A p \in Pointers \ gone : Target'[p] = Target[p]
  <2> HIDE DEF gone
  <2> QED
    BY <1>2, <1>3, <1>8, KindsKept, FiveKinds
<1>10. gone \subseteq Pointers
  BY <1>3, <1>4 DEF PointersListed
<1> HIDE DEF gone, Packets
<1>11. Stayed(Pointers, Target, used, lost, Pointers', Target', used', lost', {}, gone)
  <2>1. {Target'[p] : p \in {}} = {}
    OBVIOUS
  <2> QED
    BY <1>2, <1>5, <1>7, <1>8, <1>9, <1>10, <2>1 DEF Stayed
<1> QED
  BY <1>3, <1>11, PointersStay, BuffersStep

\* ether_rx returns: the packet is lost.
LEMMA EtherKeepsOwners ==
    ASSUME BuffersInv, [BuffersNext]_bufvars, ether_rx
    PROVE  BuffersInv'
<1> DEFINE gone == {InRunning(2), InRunning(3)}
           w == running.work
<1>1. /\ running.at = "func" /\ w.func = "ether_rx"
      /\ lost' = lost \cup Range(w.arg) /\ used' = used
      /\ UNCHANGED <<works, armed, tx, rx>>
  BY DEF ether_rx, Runs
<1>2. BuffersTypeOK /\ PointersListed /\ PointersListed' /\ Apart(Pointers, Target, used, lost)
      /\ RunningListed /\ RunningListed'
  BY BuffersStep, RunningStep
<1>3. running'.at = "free" /\ running'.work = w /\ w \in AllWorks
  BY <1>1, <1>2, RunningIs DEF ether_rx, FuncReturns
<1>4. Range(w.arg) = {w.arg[1], w.arg[2]}
  <2>1. w.arg \in Blk \X Blk
    BY <1>1, <1>3, WorkParts
  <2>2. DOMAIN w.arg = {1, 2}
    BY <2>1
  <2> QED
    BY <2>2 DEF Range
<1> HIDE DEF w
<1>5. /\ \A k : InRunning(k) \in Pointers <=> k \in {1, 2, 3}
      /\ \A k : InRunning(k) \in Pointers' <=> k = 1
      /\ Target[InRunning(2)] = w.arg[1] /\ Target[InRunning(3)] = w.arg[2]
      /\ Target'[InRunning(1)] = Target[InRunning(1)]
  BY <1>1, <1>2, <1>3, PointerKinds DEF RunningListed, w
<1>6. \A p : p \in Pointers' <=> p \in Pointers \ gone \/ p \in {}
  <2>1. \A k : InRunning(k) \in gone <=> k = 2 \/ k = 3
    BY PointerKinds
  <2>2. \A p \in gone : \E k : p = InRunning(k)
    OBVIOUS
  <2> HIDE DEF gone
  <2> QED
    BY <1>1, <1>2, <1>5, <2>1, <2>2, KindsKept, FiveKinds, PointerKinds
<1>7. \A p \in Pointers \ gone : Target'[p] = Target[p]
  <2> HIDE DEF gone
  <2> QED
    BY <1>1, <1>2, <1>5, <1>6, KindsKept, FiveKinds
<1>8. gone \subseteq Pointers /\ {Target[p] : p \in gone} = Range(w.arg)
  BY <1>4, <1>5
<1> HIDE DEF gone
<1>9. Stayed(Pointers, Target, used, lost, Pointers', Target', used', lost', {}, gone)
  <2>1. {Target'[p] : p \in {}} = {}
    OBVIOUS
  <2>2. lost' = lost \cup Range(w.arg) /\ used' = used
    BY <1>1 DEF w
  <2> QED
    BY <1>6, <1>7, <1>8, <2>1, <2>2 DEF Stayed
<1> QED
  BY <1>2, <1>9, PointersStay, BuffersStep

\* recv_timeout, and tcp_ack_timeout without a packet, free their argument.
LEMMA ArgKeepsOwners ==
    ASSUME BuffersInv, [BuffersNext]_bufvars,
           running.at = "func", running.work.func # "ether_rx", FuncReturns,
           used' = used \ {running.work.arg[1]},
           UNCHANGED <<works, armed, tx, rx, lost>>
    PROVE  BuffersInv'
<1> DEFINE gone == {InRunning(2)}
           w == running.work
<1>2. BuffersTypeOK /\ PointersListed /\ PointersListed' /\ Apart(Pointers, Target, used, lost)
      /\ RunningListed /\ RunningListed'
  BY BuffersStep, RunningStep
<1>3. running'.at = "free" /\ running'.work = w
  BY <1>2, RunningIs DEF FuncReturns
<1> HIDE DEF w
<1>5. /\ \A k : InRunning(k) \in Pointers <=> k \in {1, 2}
      /\ \A k : InRunning(k) \in Pointers' <=> k = 1
      /\ Target[InRunning(2)] = w.arg[1]
      /\ Target'[InRunning(1)] = Target[InRunning(1)]
  BY <1>2, <1>3, PointerKinds DEF RunningListed, w
<1>6. \A p : p \in Pointers' <=> p \in Pointers \ gone \/ p \in {}
  <2>1. \A k : InRunning(k) \in gone <=> k = 2
    BY PointerKinds
  <2>2. \A p \in gone : \E k : p = InRunning(k)
    OBVIOUS
  <2> HIDE DEF gone
  <2> QED
    BY <1>2, <1>5, <2>1, <2>2, KindsKept, FiveKinds, PointerKinds
<1>7. \A p \in Pointers \ gone : Target'[p] = Target[p]
  <2> HIDE DEF gone
  <2> QED
    BY <1>2, <1>5, <1>6, KindsKept, FiveKinds
<1>8. gone \subseteq Pointers /\ {Target[p] : p \in gone} = {w.arg[1]}
  BY <1>5
<1> HIDE DEF gone
<1>9. Stayed(Pointers, Target, used, lost, Pointers', Target', used', lost', {}, gone)
  <2>1. {Target'[p] : p \in {}} = {}
    OBVIOUS
  <2>2. lost' = lost /\ used' = used \ {w.arg[1]}
    BY DEF w
  <2> QED
    BY <1>6, <1>7, <1>8, <2>1, <2>2 DEF Stayed
<1> QED
  BY <1>2, <1>9, PointersStay, BuffersStep

\* The work that has run is freed.
LEMMA FreeKeepsOwners ==
    ASSUME BuffersInv, [BuffersNext]_bufvars, WorkFreed
    PROVE  BuffersInv'
<1> DEFINE gone == {InRunning(1)}
           task == running.work.task
<1>1. /\ running.at = "free" /\ running'.at = "loop"
      /\ lost' = lost /\ used' = used \ {task}
      /\ UNCHANGED <<works, armed, tx, rx>>
  BY DEF WorkFreed, Idle
<1>2. BuffersTypeOK /\ PointersListed /\ PointersListed' /\ Apart(Pointers, Target, used, lost)
      /\ RunningListed /\ RunningListed'
  BY BuffersStep, RunningStep
<1> HIDE DEF task
<1>5. /\ \A k : InRunning(k) \in Pointers <=> k = 1
      /\ \A k : InRunning(k) \notin Pointers'
      /\ Target[InRunning(1)] = task
  BY <1>1, <1>2, PointerKinds DEF RunningListed, task
<1>6. \A p : p \in Pointers' <=> p \in Pointers \ gone \/ p \in {}
  <2>1. \A k : InRunning(k) \in gone <=> k = 1
    BY PointerKinds
  <2>2. \A p \in gone : \E k : p = InRunning(k)
    OBVIOUS
  <2> HIDE DEF gone
  <2> QED
    BY <1>1, <1>2, <1>5, <2>1, <2>2, KindsKept, FiveKinds, PointerKinds
<1>7. \A p \in Pointers \ gone : Target'[p] = Target[p]
  <2> HIDE DEF gone
  <2> QED
    BY <1>1, <1>2, <1>5, <1>6, KindsKept, FiveKinds
<1>8. gone \subseteq Pointers /\ {Target[p] : p \in gone} = {task}
  BY <1>5
<1> HIDE DEF gone
<1>9. Stayed(Pointers, Target, used, lost, Pointers', Target', used', lost', {}, gone)
  <2>1. {Target'[p] : p \in {}} = {}
    OBVIOUS
  <2> QED
    BY <1>1, <1>6, <1>7, <1>8, <2>1 DEF Stayed
<1> QED
  BY <1>2, <1>9, PointersStay, BuffersStep

\* int_pit frees the timer and hands its work on.
LEMMA ExpiryKeepsOwners ==
    ASSUME BuffersInv, [BuffersNext]_bufvars, TimerExpires
    PROVE  BuffersInv'
<1>1. PICK t \in armed : /\ works' = Append(works, t.work)
                         /\ armed' = armed \ {t}
                         /\ used' = used \ {t.timer}
  BY DEF TimerExpires
<1>2. lost' = lost /\ UNCHANGED <<running, tx, rx>>
  BY DEF TimerExpires
<1>3. BuffersTypeOK /\ PointersListed /\ PointersListed' /\ Apart(Pointers, Target, used, lost)
  BY BuffersStep
<1> DEFINE n == Len(works) + 1
           gone == {InTimer(t, 1)}
           h == [p \in Pointers' |-> IF p = InWork(n, 1) THEN InTimer(t, 2)
                                     ELSE IF p = InWork(n, 2) THEN InTimer(t, 3) ELSE p]
<1>4. /\ t.work \in AllWorks /\ WorkSize(t.work) = 2
      /\ WorkBlocks(t.work) = <<t.work.task, t.work.arg[1]>>
      /\ TimerBlocks(t) = <<t.timer, t.work.task, t.work.arg[1]>>
  <2>1. t.work \in TimedWorks
    BY <1>3 DEF BuffersTypeOK
  <2> QED
    BY <2>1, WorkParts DEF WorkSize, WorkBlocks, TimerBlocks
<1>5. /\ Len(works) \in Nat /\ Len(works') = n /\ works'[n] = t.work
      /\ \A i \in 1 .. Len(works) : works'[i] = works[i]
  <2>1. works \in Seq(AllWorks)
    BY <1>3 DEF BuffersTypeOK
  <2> QED
    BY <1>1, <1>4, <2>1
<1> HIDE DEF n, h
<1>6. /\ \A i, k : InWork(i, k) \in Pointers' <=> InWork(i, k) \in Pointers \/ (i = n /\ k \in {1, 2})
      /\ \A i, k : InWork(i, k) \in Pointers => i # n /\ Target'[InWork(i, k)] = Target[InWork(i, k)]
      /\ Target'[InWork(n, 1)] = t.work.task /\ Target'[InWork(n, 2)] = t.work.arg[1]
  <2>1. (\A i : i \in 1 .. n <=> i \in 1 .. Len(works) \/ i = n) /\ n \notin 1 .. Len(works)
    BY <1>5 DEF n
  <2>2. \A k : k \in 1 .. 2 <=> k = 1 \/ k = 2
    OBVIOUS
  <2>3. \A i, k : InWork(i, k) \in Pointers' <=> InWork(i, k) \in Pointers \/ (i = n /\ k \in {1, 2})
    BY <1>3, <1>4, <1>5, <2>1, <2>2 DEF PointersListed
  <2>4. \A i, k : InWork(i, k) \in Pointers => i # n /\ Target'[InWork(i, k)] = Target[InWork(i, k)]
    BY <1>3, <1>5, <2>1, <2>3 DEF PointersListed
  <2>5. \A k \in {1, 2} : Target'[InWork(n, k)] = <<t.work.task, t.work.arg[1]>>[k]
    BY <1>3, <1>4, <1>5, <2>3 DEF PointersListed
  <2> QED
    BY <2>3, <2>4, <2>5
<1>7. /\ InTimer(t, 1) \in Pointers /\ Target[InTimer(t, 1)] = t.timer
      /\ InTimer(t, 2) \in Pointers /\ Target[InTimer(t, 2)] = t.work.task
      /\ InTimer(t, 3) \in Pointers /\ Target[InTimer(t, 3)] = t.work.arg[1]
  BY <1>3, <1>4 DEF PointersListed
<1>8. \A k : InTimer(t, k) \notin Pointers'
  BY <1>1, <1>3, KindsKept
<1>9. \A k : InTimer(t, k) \in Pointers <=> k \in {1, 2, 3}
  BY <1>3, KindsKept
<1>10. /\ h[InWork(n, 1)] = InTimer(t, 2) /\ h[InWork(n, 2)] = InTimer(t, 3)
       /\ \A p \in Pointers' : p # InWork(n, 1) /\ p # InWork(n, 2) => h[p] = p
  BY <1>6, PointerKinds DEF h
<1>11. \A p : /\ \A k : p # InTimer(t, k)
              /\ \A k : p # InWork(n, k)
              => /\ p \in Pointers' <=> p \in Pointers
                 /\ p \in Pointers => Target'[p] = Target[p]
  <2> SUFFICES ASSUME NEW p, \A k : p # InTimer(t, k), \A k : p # InWork(n, k)
               PROVE  /\ p \in Pointers' <=> p \in Pointers
                      /\ p \in Pointers => Target'[p] = Target[p]
    OBVIOUS
  <2>1. CASE \E i, k : p = InWork(i, k)
    BY <1>6, <2>1
  <2>2. CASE \E s, k : p = InTimer(s, k)
    BY <1>1, <1>3, <2>2, KindsKept
  <2>3. CASE \E e, k : p = InUnacked(e, k)
    BY <1>2, <1>3, <2>3, KindsKept
  <2>4. CASE \E i, k : p = InMessage(i, k)
    BY <1>2, <1>3, <2>4, KindsKept
  <2>5. CASE \E k : p = InRunning(k)
    BY <1>2, <1>3, <2>5, KindsKept
  <2> QED
    BY <1>3, <2>1, <2>2, <2>3, <2>4, <2>5, FiveKinds
<1>12. \A p \in Pointers' : h[p] \in Pointers \ gone /\ Target'[p] = Target[h[p]]
  <2> SUFFICES ASSUME NEW p \in Pointers' PROVE h[p] \in Pointers \ gone /\ Target'[p] = Target[h[p]]
    OBVIOUS
  <2>1. CASE p = InWork(n, 1) \/ p = InWork(n, 2)
    BY <1>6, <1>7, <1>10, <2>1, PointerKinds
  <2>2. CASE p # InWork(n, 1) /\ p # InWork(n, 2)
    <3>1. \A k : p # InTimer(t, k) /\ p # InWork(n, k)
      BY <1>6, <1>8, <2>2
    <3> QED
      BY <1>10, <1>11, <2>2, <3>1
  <2> QED
    BY <2>1, <2>2
<1>13. \A p, q \in Pointers' : h[p] = h[q] => p = q
  BY <1>8, <1>10, PointerKinds
<1>14. \A p \in Pointers \ gone : \E q \in Pointers' : h[q] = p
  <2> SUFFICES ASSUME NEW p \in Pointers \ gone PROVE \E q \in Pointers' : h[q] = p
    OBVIOUS
  <2>1. CASE p = InTimer(t, 2)
    BY <1>6, <1>10, <2>1
  <2>2. CASE p = InTimer(t, 3)
    BY <1>6, <1>10, <2>2
  <2>3. CASE p # InTimer(t, 2) /\ p # InTimer(t, 3)
    <3>1. \A k : p # InTimer(t, k) /\ p # InWork(n, k)
      BY <1>6, <1>9, <2>3
    <3> QED
      BY <1>10, <1>11, <3>1
  <2> QED
    BY <2>1, <2>2, <2>3
<1>15. gone \subseteq Pointers /\ {Target[p] : p \in gone} = {t.timer}
  BY <1>7
<1> HIDE DEF gone
<1>16. Moved(Pointers, Target, used, lost, Pointers', Target', used', lost', {}, gone, h)
  <2>1. {Target'[p] : p \in {}} = {} /\ Pointers' \ {} = Pointers'
    OBVIOUS
  <2> QED
    BY <1>1, <1>2, <1>12, <1>13, <1>14, <1>15, <2>1 DEF Moved
<1> QED
  BY <1>3, <1>16, PointersMove, BuffersStep

\* The kernel task takes the first work.
LEMMA PopKeepsOwners ==
    ASSUME BuffersInv, [BuffersNext]_bufvars, KernelPops
    PROVE  BuffersInv'
<1>1. /\ running.at = "loop" /\ works # << >>
      /\ running' = [at |-> "func", work |-> Head(works)] /\ works' = Tail(works)
      /\ used' = used /\ lost' = lost /\ UNCHANGED <<armed, tx, rx>>
  BY DEF KernelPops
<1>3. BuffersTypeOK /\ PointersListed /\ PointersListed' /\ Apart(Pointers, Target, used, lost)
      /\ RunningListed
  BY BuffersStep, RunningStep
<1> DEFINE h == [p \in Pointers' |-> IF \E k : p = InRunning(k) THEN InWork(1, p[2])
                                     ELSE IF \E i, k : p = InWork(i, k) THEN InWork(p[1][2] + 1, p[2])
                                     ELSE p]
<1>5. /\ Len(works) \in Nat /\ Len(works) >= 1 /\ Len(works') = Len(works) - 1
      /\ \A i \in 1 .. Len(works') : works'[i] = works[i + 1]
      /\ running'.at = "func" /\ running'.work = works[1]
  <2>1. works \in Seq(AllWorks)
    BY <1>3 DEF BuffersTypeOK
  <2> QED
    BY <1>1, <2>1
<1>6. /\ \A k : InRunning(k) \in Pointers' <=> InWork(1, k) \in Pointers
      /\ \A k : InRunning(k) \in Pointers' => Target'[InRunning(k)] = Target[InWork(1, k)]
      /\ \A k : InRunning(k) \notin Pointers
  <2>1. RunningSize' = WorkSize(works[1])
    BY <1>5 DEF RunningSize
  <2>2. 1 \in 1 .. Len(works)
    BY <1>5
  <2>3. \A k : InRunning(k) \in Pointers' <=> InWork(1, k) \in Pointers
    BY <1>3, <2>1, <2>2 DEF PointersListed
  <2>4. \A k : InRunning(k) \in Pointers' => Target'[InRunning(k)] = Target[InWork(1, k)]
    BY <1>3, <1>5, <2>3 DEF PointersListed
  <2>5. \A k : InRunning(k) \notin Pointers
    BY <1>1, <1>3 DEF RunningListed
  <2> QED
    BY <2>3, <2>4, <2>5
<1>7. /\ \A i, k : InWork(i, k) \in Pointers' <=> i \in Nat /\ i >= 1 /\ InWork(i + 1, k) \in Pointers
      /\ \A i, k : InWork(i, k) \in Pointers' => Target'[InWork(i, k)] = Target[InWork(i + 1, k)]
      /\ \A i, k : InWork(i, k) \in Pointers => i \in Nat /\ i >= 1
  <2>1. \A i : i \in 1 .. Len(works') <=> i \in Nat /\ i >= 1 /\ i + 1 \in 1 .. Len(works)
    BY <1>5
  <2>2. \A i, k : InWork(i, k) \in Pointers' <=> i \in Nat /\ i >= 1 /\ InWork(i + 1, k) \in Pointers
    <3>1. \A i, k : InWork(i, k) \in Pointers' <=>
                     i \in 1 .. Len(works') /\ k \in 1 .. WorkSize(works'[i])
      BY <1>3 DEF PointersListed
    <3>2. \A i, k : InWork(i + 1, k) \in Pointers <=>
                     i + 1 \in 1 .. Len(works) /\ k \in 1 .. WorkSize(works[i + 1])
      BY <1>3 DEF PointersListed
    <3>3. \A i \in 1 .. Len(works') : WorkSize(works'[i]) = WorkSize(works[i + 1])
      BY <1>5
    <3> SUFFICES ASSUME NEW i, NEW k
                 PROVE  InWork(i, k) \in Pointers' <=> i \in Nat /\ i >= 1 /\ InWork(i + 1, k) \in Pointers
      OBVIOUS
    <3>4. CASE i \in 1 .. Len(works')
      BY <2>1, <3>1, <3>2, <3>3, <3>4
    <3>5. CASE i \notin 1 .. Len(works')
      BY <2>1, <3>1, <3>2, <3>5
    <3> QED
      BY <3>4, <3>5
  <2>3. \A i, k : InWork(i, k) \in Pointers' => i \in 1 .. Len(works')
    BY <1>3 DEF PointersListed
  <2>4. \A i, k : InWork(i, k) \in Pointers' => Target'[InWork(i, k)] = Target[InWork(i + 1, k)]
    BY <1>3, <1>5, <2>2, <2>3 DEF PointersListed
  <2>5. \A i, k : InWork(i, k) \in Pointers => i \in 1 .. Len(works)
    BY <1>3 DEF PointersListed
  <2>6. \A i : i \in 1 .. Len(works) => i \in Nat /\ i >= 1
    BY <1>5
  <2> QED
    BY <2>2, <2>4, <2>5, <2>6
<1>8. /\ \A k : InRunning(k) \in Pointers' => h[InRunning(k)] = InWork(1, k)
      /\ \A i, k : InWork(i, k) \in Pointers' => h[InWork(i, k)] = InWork(i + 1, k)
      /\ \A p \in Pointers' : (\A k : p # InRunning(k)) /\ (\A i, k : p # InWork(i, k)) => h[p] = p
  <2>1. \A i, k : InRunning(k)[2] = k /\ InWork(i, k)[2] = k /\ InWork(i, k)[1][2] = i
    BY DEF InRunning, InWork
  <2> QED
    BY <2>1, PointerKinds
<1> HIDE DEF h
<1>9. \A p : /\ \A k : p # InRunning(k)
             /\ \A i, k : p # InWork(i, k)
             => /\ p \in Pointers' <=> p \in Pointers
                /\ p \in Pointers => Target'[p] = Target[p]
  BY <1>1, <1>3, KindsKept, FiveKinds
<1>10. \A p \in Pointers' : h[p] \in Pointers /\ Target'[p] = Target[h[p]]
  <2> SUFFICES ASSUME NEW p \in Pointers' PROVE h[p] \in Pointers /\ Target'[p] = Target[h[p]]
    OBVIOUS
  <2>1. CASE \E k : p = InRunning(k)
    BY <1>6, <1>8, <2>1
  <2>2. CASE \E i, k : p = InWork(i, k)
    BY <1>7, <1>8, <2>2
  <2>3. CASE (\A k : p # InRunning(k)) /\ (\A i, k : p # InWork(i, k))
    BY <1>8, <1>9, <2>3
  <2> QED
    BY <2>1, <2>2, <2>3
<1>11. \A p, q \in Pointers' : h[p] = h[q] => p = q
  <2> SUFFICES ASSUME NEW p \in Pointers', NEW q \in Pointers', h[p] = h[q] PROVE p = q
    OBVIOUS
  <2> DEFINE R(x) == \E k : x = InRunning(k)
             W(x) == \E i, k : x = InWork(i, k)
  <2>1. CASE R(p) /\ R(q)
    BY <1>8, <2>1, PointerKinds
  <2>2. CASE W(p) /\ W(q)
    <3>1. PICK i, k : p = InWork(i, k)
      BY <2>2
    <3>2. PICK j, l : q = InWork(j, l)
      BY <2>2
    <3>3. i \in Nat /\ j \in Nat /\ i + 1 = j + 1 /\ k = l
      BY <1>7, <1>8, <3>1, <3>2, PointerKinds
    <3>4. i = j
      BY <3>3
    <3> QED
      BY <3>1, <3>2, <3>3, <3>4
  <2>3. CASE (R(p) /\ W(q)) \/ (W(p) /\ R(q))
    <3>1. ASSUME NEW i, NEW k, NEW l, InWork(i, k) \in Pointers', InRunning(l) \in Pointers'
          PROVE  h[InWork(i, k)] # h[InRunning(l)]
      <4>1. i \in Nat /\ i >= 1 /\ h[InWork(i, k)] = InWork(i + 1, k) /\ h[InRunning(l)] = InWork(1, l)
        BY <1>7, <1>8, <3>1
      <4>2. i + 1 # 1
        BY <4>1
      <4> QED
        BY <4>1, <4>2, PointerKinds
    <3> QED
      BY <2>3, <3>1
  <2>4. CASE (R(p) \/ W(p)) /\ ~(R(q) \/ W(q))
    BY <1>8, <2>4
  <2>5. CASE ~(R(p) \/ W(p)) /\ (R(q) \/ W(q))
    BY <1>8, <2>5
  <2>6. CASE ~(R(p) \/ W(p)) /\ ~(R(q) \/ W(q))
    BY <1>8, <2>6
  <2> QED
    BY <2>1, <2>2, <2>3, <2>4, <2>5, <2>6
<1>12. \A p \in Pointers : \E q \in Pointers' : h[q] = p
  <2> SUFFICES ASSUME NEW p \in Pointers PROVE \E q \in Pointers' : h[q] = p
    OBVIOUS
  <2>1. CASE \E i, k : p = InWork(i, k)
    <3>1. PICK i, k : p = InWork(i, k)
      BY <2>1
    <3>2. i \in Nat /\ i >= 1
      BY <1>7, <3>1
    <3>3. CASE i = 1
      BY <1>6, <1>8, <3>1, <3>3
    <3>4. CASE i > 1
      <4>1. i - 1 \in Nat /\ i - 1 >= 1 /\ (i - 1) + 1 = i
        BY <3>2, <3>4
      <4> QED
        BY <1>7, <1>8, <3>1, <4>1
    <3> QED
      BY <3>2, <3>3, <3>4
  <2>2. CASE (\A k : p # InRunning(k)) /\ (\A i, k : p # InWork(i, k))
    BY <1>8, <1>9, <2>2
  <2> QED
    BY <1>6, <2>1, <2>2
<1>13. Moved(Pointers, Target, used, lost, Pointers', Target', used', lost', {}, {}, h)
  <2>1. {Target'[p] : p \in {}} = {} /\ {Target[p] : p \in {}} = {}
        /\ Pointers' \ {} = Pointers' /\ Pointers \ {} = Pointers /\ used \ {} = used
    OBVIOUS
  <2> QED
    BY <1>1, <1>10, <1>11, <1>12, <2>1 DEF Moved
<1> QED
  BY <1>3, <1>13, PointersMove, BuffersStep

\* The program takes the first message, whose blocks are lost.
LEMMA TakeKeepsOwners ==
    ASSUME BuffersInv, [BuffersNext]_bufvars, RecvTakes
    PROVE  BuffersInv'
<1>1. /\ rx # << >> /\ rx' = Tail(rx) /\ lost' = lost \cup Range(Head(rx)) /\ used' = used
      /\ UNCHANGED <<works, running, armed, tx>>
  BY DEF RecvTakes
<1>3. BuffersTypeOK /\ PointersListed /\ PointersListed' /\ Apart(Pointers, Target, used, lost)
  BY BuffersStep
<1> DEFINE gone == {InMessage(1, 1), InMessage(1, 2)}
           h == [p \in Pointers' |-> IF \E i, k : p = InMessage(i, k) THEN InMessage(p[1][2] + 1, p[2])
                                     ELSE p]
           M(p) == \E i, k : p = InMessage(i, k)
<1>5. /\ Len(rx) \in Nat /\ Len(rx) >= 1 /\ Len(rx') = Len(rx) - 1
      /\ \A i \in 1 .. Len(rx') : rx'[i] = rx[i + 1]
      /\ Range(Head(rx)) = {rx[1][1], rx[1][2]}
  <2>1. rx \in Seq([1 .. 2 -> Blk])
    BY <1>3 DEF BuffersTypeOK
  <2>2. Head(rx) = rx[1] /\ rx[1] \in [1 .. 2 -> Blk]
    BY <1>1, <2>1
  <2>3. Range(rx[1]) = {rx[1][1], rx[1][2]}
    BY <2>2 DEF Range
  <2>4. Len(rx) \in Nat /\ Len(rx) >= 1 /\ Len(rx') = Len(rx) - 1
        /\ \A i \in 1 .. Len(rx') : rx'[i] = rx[i + 1]
    BY <1>1, <2>1
  <2> QED
    BY <2>2, <2>3, <2>4
<1>7. /\ \A i, k : InMessage(i, k) \in Pointers' <=> i \in Nat /\ i >= 1 /\ InMessage(i + 1, k) \in Pointers
      /\ \A i, k : InMessage(i, k) \in Pointers' => Target'[InMessage(i, k)] = Target[InMessage(i + 1, k)]
      /\ \A i, k : InMessage(i, k) \in Pointers => i \in Nat /\ i >= 1 /\ k \in {1, 2}
  <2>1. \A i : i \in 1 .. Len(rx') <=> i \in Nat /\ i >= 1 /\ i + 1 \in 1 .. Len(rx)
    BY <1>5
  <2>2. \A i, k : InMessage(i, k) \in Pointers' <=> i \in Nat /\ i >= 1 /\ InMessage(i + 1, k) \in Pointers
    BY <1>3, <2>1 DEF PointersListed
  <2>3. \A i, k : InMessage(i, k) \in Pointers' => i \in 1 .. Len(rx')
    BY <1>3 DEF PointersListed
  <2>4. \A i, k : InMessage(i, k) \in Pointers' => Target'[InMessage(i, k)] = Target[InMessage(i + 1, k)]
    BY <1>3, <1>5, <2>2, <2>3 DEF PointersListed
  <2>5. \A i, k : InMessage(i, k) \in Pointers => i \in 1 .. Len(rx) /\ k \in 1 .. 2
    BY <1>3 DEF PointersListed
  <2>6. /\ \A i : i \in 1 .. Len(rx) => i \in Nat /\ i >= 1
        /\ \A k : k \in 1 .. 2 => k \in {1, 2}
    BY <1>5
  <2> QED
    BY <2>2, <2>4, <2>5, <2>6
<1>8. /\ \A i, k : InMessage(i, k) \in Pointers' => h[InMessage(i, k)] = InMessage(i + 1, k)
      /\ \A p \in Pointers' : ~M(p) => h[p] = p
  <2>1. \A i, k : InMessage(i, k)[2] = k /\ InMessage(i, k)[1][2] = i
    BY DEF InMessage
  <2> QED
    BY <2>1, PointerKinds
<1> HIDE DEF h
<1>9. \A p : ~M(p) => /\ p \in Pointers' <=> p \in Pointers
                      /\ p \in Pointers => Target'[p] = Target[p]
  BY <1>1, <1>3, KindsKept, FiveKinds
<1>10. \A p \in Pointers' : h[p] \in Pointers \ gone /\ Target'[p] = Target[h[p]]
  <2> SUFFICES ASSUME NEW p \in Pointers' PROVE h[p] \in Pointers \ gone /\ Target'[p] = Target[h[p]]
    OBVIOUS
  <2>2. CASE M(p)
    <3>1. PICK i, k : p = InMessage(i, k)
      BY <2>2
    <3>2. i \in Nat /\ i >= 1 /\ h[p] = InMessage(i + 1, k) /\ h[p] \in Pointers
          /\ Target'[p] = Target[h[p]]
      BY <1>7, <1>8, <3>1
    <3> DEFINE j == i + 1
    <3>3. j # 1 /\ h[p] = InMessage(j, k)
      BY <3>2
    <3> HIDE DEF j
    <3>4. h[p] # InMessage(1, 1) /\ h[p] # InMessage(1, 2)
      BY <3>3, PointerKinds
    <3> QED
      BY <3>2, <3>4
  <2>3. CASE ~M(p)
    <3>1. p \notin gone
      BY <2>3
    <3>2. h[p] = p /\ p \in Pointers /\ Target'[p] = Target[p]
      <4> HIDE DEF M
      <4> QED
        BY <1>8, <1>9, <2>3
    <3> QED
      BY <3>1, <3>2
  <2> QED
    BY <2>2, <2>3
<1>11. \A p, q \in Pointers' : h[p] = h[q] => p = q
  <2> SUFFICES ASSUME NEW p \in Pointers', NEW q \in Pointers', h[p] = h[q] PROVE p = q
    OBVIOUS
  <2> DEFINE W(x) == \E i, k : x = InMessage(i, k)
  <2>1. CASE W(p) /\ W(q)
    <3>1. PICK i, k : p = InMessage(i, k)
      BY <2>1
    <3>2. PICK j, l : q = InMessage(j, l)
      BY <2>1
    <3>3. i \in Nat /\ j \in Nat /\ i + 1 = j + 1 /\ k = l
      BY <1>7, <1>8, <3>1, <3>2, PointerKinds
    <3>4. i = j
      BY <3>3
    <3> QED
      BY <3>1, <3>2, <3>3, <3>4
  <2>2. CASE W(p) /\ ~W(q)
    BY <1>8, <2>2
  <2>3. CASE ~W(p) /\ W(q)
    BY <1>8, <2>3
  <2>4. CASE ~W(p) /\ ~W(q)
    BY <1>8, <2>4
  <2> QED
    BY <2>1, <2>2, <2>3, <2>4
<1>12. \A p \in Pointers \ gone : \E q \in Pointers' : h[q] = p
  <2> SUFFICES ASSUME NEW p \in Pointers \ gone PROVE \E q \in Pointers' : h[q] = p
    OBVIOUS
  <2>1. CASE M(p)
    <3>1. PICK i, k : p = InMessage(i, k)
      BY <2>1
    <3>2. i \in Nat /\ i >= 1 /\ i # 1
      BY <1>7, <3>1
    <3> DEFINE j == i - 1
    <3>3. j \in Nat /\ j >= 1 /\ j + 1 = i
      BY <3>2
    <3> HIDE DEF j
    <3>4. InMessage(j, k) \in Pointers' /\ h[InMessage(j, k)] = p
      BY <1>7, <1>8, <3>1, <3>3
    <3> QED
      BY <3>4
  <2>2. CASE ~M(p)
    <3>1. p \in Pointers' /\ h[p] = p
      <4> HIDE DEF M
      <4> QED
        BY <1>8, <1>9, <2>2
    <3> QED
      BY <3>1
  <2> QED
    BY <2>1, <2>2
<1>13. gone \subseteq Pointers /\ {Target[p] : p \in gone} = Range(Head(rx))
  <2>1. 1 \in 1 .. Len(rx) /\ 1 \in 1 .. 2 /\ 2 \in 1 .. 2
    BY <1>5
  <2>2. InMessage(1, 1) \in Pointers /\ InMessage(1, 2) \in Pointers
    BY <1>3, <2>1 DEF PointersListed
  <2>3. Target[InMessage(1, 1)] = rx[1][1] /\ Target[InMessage(1, 2)] = rx[1][2]
    BY <1>3, <2>2 DEF PointersListed
  <2> QED
    BY <1>5, <2>2, <2>3
<1> HIDE DEF gone
<1>14. Moved(Pointers, Target, used, lost, Pointers', Target', used', lost', {}, gone, h)
  <2>1. {Target'[p] : p \in {}} = {} /\ Pointers' \ {} = Pointers' /\ used \cup {} = used
    OBVIOUS
  <2> QED
    BY <1>1, <1>10, <1>11, <1>12, <1>13, <2>1 DEF Moved
<1> QED
  BY <1>3, <1>14, PointersMove, BuffersStep

\* tcp_ack_timeout arms its argument again, with a new work and timer.
LEMMA RearmKeepsOwners ==
    ASSUME BuffersInv, [BuffersNext]_bufvars, tcp_ack_timeout,
           ~(closed \/ \A e \in tx : e.seq # running.work.arg[2]), Enough(2)
    PROVE  BuffersInv'
<1> DEFINE b == New(2)
           w == running.work
           t == [timer |-> b[2], work |-> Work(b[1], "ack_timeout", w.arg)]
           new == {InTimer(t, 1), InTimer(t, 2)}
           h == [p \in Pointers' |-> IF p = InTimer(t, 3) THEN InRunning(2) ELSE p]
<1>1. /\ running.at = "func" /\ w.func = "ack_timeout"
      /\ armed' = armed \cup {t} /\ used' = used \cup Range(b) /\ lost' = lost /\ FuncReturns
      /\ UNCHANGED <<works, tx, rx>>
  BY DEF tcp_ack_timeout, Arms, Runs
<1>2. BuffersTypeOK /\ PointersListed /\ PointersListed' /\ Apart(Pointers, Target, used, lost)
      /\ RunningListed /\ RunningListed' /\ \A p \in Pointers : Target[p] \in used
  BY BuffersStep, RunningStep
<1>3. /\ b[1] \notin used /\ b[2] \notin used /\ b[1] # b[2]
      /\ Range(b) = {b[1], b[2]}
  <2>1. /\ \A i \in 1 .. 2 : b[i] \notin used
        /\ \A i, j \in 1 .. 2 : b[i] = b[j] => i = j
        /\ Range(b) = {b[i] : i \in 1 .. 2}
    BY BlocksFresh
  <2> HIDE DEF b
  <2> QED
    BY <2>1
<1>4. TimerBlocks(t) = <<b[2], b[1], w.arg[1]>>
  BY DEF Work, TimerBlocks
<1>5. running'.at = "free" /\ running'.work = w
  BY <1>1, <1>2, RunningIs DEF FuncReturns
<1> HIDE DEF b, t, w
<1>6. t \notin armed
  <2> SUFFICES ASSUME t \in armed PROVE FALSE
    OBVIOUS
  <2>1. InTimer(t, 1) \in Pointers /\ Target[InTimer(t, 1)] = TimerBlocks(t)[1]
    BY <1>2 DEF PointersListed
  <2> QED
    BY <1>2, <1>3, <1>4, <2>1
<1>7. /\ \A k : InTimer(t, k) \notin Pointers
      /\ \A k : InTimer(t, k) \in Pointers' <=> k \in {1, 2, 3}
      /\ Target'[InTimer(t, 1)] = b[2] /\ Target'[InTimer(t, 2)] = b[1] /\ Target'[InTimer(t, 3)] = w.arg[1]
  <2>1. \A k \in 1 .. 3 : Target'[InTimer(t, k)] = <<b[2], b[1], w.arg[1]>>[k]
    BY <1>1, <1>2, <1>4 DEF PointersListed
  <2>2. /\ \A k : InTimer(t, k) \notin Pointers
        /\ \A k : InTimer(t, k) \in Pointers' <=> k \in 1 .. 3
    BY <1>1, <1>2, <1>6, KindsKept
  <2> QED
    BY <2>1, <2>2
<1>8. /\ \A k : InRunning(k) \in Pointers <=> k \in {1, 2}
      /\ \A k : InRunning(k) \in Pointers' <=> k = 1
      /\ Target[InRunning(2)] = w.arg[1]
      /\ Target'[InRunning(1)] = Target[InRunning(1)]
  BY <1>1, <1>2, <1>5, PointerKinds DEF RunningListed, w
<1>9. /\ h[InTimer(t, 3)] = InRunning(2)
      /\ \A p \in Pointers' : p # InTimer(t, 3) => h[p] = p
  BY <1>7
<1> HIDE DEF h
<1>10. \A p : /\ \A k : p # InTimer(t, k)
              /\ \A k : p # InRunning(k)
              => /\ p \in Pointers' <=> p \in Pointers
                 /\ p \in Pointers => Target'[p] = Target[p]
  <2> SUFFICES ASSUME NEW p, \A k : p # InTimer(t, k), \A k : p # InRunning(k)
               PROVE  /\ p \in Pointers' <=> p \in Pointers
                      /\ p \in Pointers => Target'[p] = Target[p]
    OBVIOUS
  <2>1. CASE \E i, k : p = InWork(i, k)
    BY <1>1, <1>2, <2>1, KindsKept
  <2>2. CASE \E s, k : p = InTimer(s, k)
    BY <1>1, <1>2, <2>2, KindsKept
  <2>3. CASE \E e, k : p = InUnacked(e, k)
    BY <1>1, <1>2, <2>3, KindsKept
  <2>4. CASE \E i, k : p = InMessage(i, k)
    BY <1>1, <1>2, <2>4, KindsKept
  <2> QED
    BY <1>2, <2>1, <2>2, <2>3, <2>4, FiveKinds
<1>11. \A p \in Pointers' \ new : h[p] \in Pointers /\ Target'[p] = Target[h[p]]
  <2> SUFFICES ASSUME NEW p \in Pointers' \ new PROVE h[p] \in Pointers /\ Target'[p] = Target[h[p]]
    OBVIOUS
  <2>1. CASE p = InTimer(t, 3)
    BY <1>7, <1>8, <1>9, <2>1
  <2>2. CASE p = InRunning(1)
    BY <1>8, <1>9, <2>2, PointerKinds
  <2>3. CASE p # InTimer(t, 3) /\ p # InRunning(1)
    <3>1. \A k : p # InTimer(t, k) /\ p # InRunning(k)
      BY <1>7, <1>8, <2>3
    <3> QED
      BY <1>9, <1>10, <2>3, <3>1
  <2> QED
    BY <2>1, <2>2, <2>3
<1>12. \A p, q \in Pointers' \ new : h[p] = h[q] => p = q
  <2>1. \A p \in Pointers' : p # InRunning(2)
    BY <1>8
  <2> QED
    BY <1>9, <2>1
<1>13. \A p \in Pointers : \E q \in Pointers' \ new : h[q] = p
  <2> SUFFICES ASSUME NEW p \in Pointers PROVE \E q \in Pointers' \ new : h[q] = p
    OBVIOUS
  <2>1. CASE p = InRunning(2)
    <3>1. InTimer(t, 3) \in Pointers' \ new
      BY <1>7, PointerKinds
    <3> QED
      BY <1>9, <2>1, <3>1
  <2>2. CASE p # InRunning(2)
    <3>1. p \in Pointers' /\ \A k : p # InTimer(t, k)
      <4>1. CASE p = InRunning(1)
        BY <1>7, <1>8, <4>1
      <4>2. CASE p # InRunning(1)
        BY <1>7, <1>8, <1>10, <2>2, <4>2
      <4> QED
        BY <4>1, <4>2
    <3> QED
      BY <1>9, <3>1
  <2> QED
    BY <2>1, <2>2
<1>14. /\ new \subseteq Pointers'
       /\ \A p \in new : Target'[p] \notin used
       /\ \A p, q \in new : Target'[p] = Target'[q] => p = q
       /\ {Target'[p] : p \in new} = Range(b)
  BY <1>3, <1>7
<1> HIDE DEF new
<1>15. Moved(Pointers, Target, used, lost, Pointers', Target', used', lost', new, {}, h)
  <2>1. {Target[p] : p \in {}} = {} /\ Pointers \ {} = Pointers /\ used \ {} = used
    OBVIOUS
  <2> QED
    BY <1>1, <1>11, <1>12, <1>13, <1>14, <2>1 DEF Moved
<1> QED
  BY <1>2, <1>15, PointersMove, BuffersStep

\* At the start nothing is in use.
LEMMA BuffersInitHolds == BuffersInit => BuffersInv
<1> SUFFICES ASSUME BuffersInit PROVE BuffersInv
  OBVIOUS
<1>1. BuffersTypeOK
  <2>1. << >> \in Seq(AllWorks) /\ << >> \in Seq([1 .. 2 -> Blk])
    OBVIOUS
  <2>2. [frame |-> 0, send |-> 0, recv |-> 0, copy |-> 0, expiry |-> 0]
          \in [{"frame", "send", "recv", "copy", "expiry"} -> Nat]
    OBVIOUS
  <2>3. [at |-> "loop"] \in [at : {"loop"}]
    OBVIOUS
  <2> QED
    BY <2>1, <2>2, <2>3 DEF BuffersInit, BuffersTypeOK, Idle
<1>2. Owners = {}
  <2>1. DOMAIN works = {} /\ DOMAIN rx = {} /\ armed = {} /\ tx = {} /\ running.at = "loop"
    BY DEF BuffersInit, Idle
  <2> QED
    BY <2>1 DEF Owners
<1>3. Pointers = {}
  BY <1>2 DEF Pointers
<1>4. used = {} /\ lost = {}
  BY DEF BuffersInit
<1>5. OneOwner
  BY <1>3, <1>4 DEF OneOwner
<1> QED
  BY <1>1, <1>5 DEF BuffersInv

\* The inductive invariant of the owners, for any number of blocks: every step
\* of the interrupts, the system calls and the kernel task moves a pointer, frees
\* or loses its block with it, or makes one to a block that was free.
THEOREM BuffersInvariant == BuffersSpec => []BuffersInv
<1>1. ASSUME BuffersInv, [BuffersNext]_bufvars PROVE BuffersInv'
  <2> USE <1>1
  <2>1. CASE NoMemory
    BY <2>1, OwnersUntouched DEF NoMemory
  <2>2. CASE receive_packet
    BY <2>1, <2>2, ReceiveKeepsOwners DEF receive_packet
  <2>3. CASE TimerExpires
    BY <2>3, ExpiryKeepsOwners
  <2>4. CASE RecvWaits
    BY <2>1, <2>4, WaitKeepsOwners DEF RecvWaits
  <2>5. CASE RecvTakes
    BY <2>5, TakeKeepsOwners
  <2>6. CASE SocketFreed
    BY <2>6, SocketFreeKeepsOwners
  <2>7. CASE tcp_send
    BY <2>1, <2>7, SendKeepsOwners DEF tcp_send
  <2>8. CASE Closes
    BY <2>8, OwnersUntouched DEF Closes
  <2>9. CASE KernelPops
    BY <2>9, PopKeepsOwners
  <2>10. CASE Deliver
    BY <2>1, <2>10, DeliverKeepsOwners, ForgetKeepsOwners DEF Deliver
  <2>11. CASE handle_ack
    BY <2>11, AckKeepsOwners
  <2>12. CASE ether_rx
    BY <2>12, EtherKeepsOwners
  <2>13. CASE recv_timeout
    BY <2>13, ArgKeepsOwners DEF recv_timeout, Runs
  <2>14. CASE tcp_ack_timeout
    <3>1. running.at = "func" /\ running.work.func = "ack_timeout"
          /\ UNCHANGED <<works, tx, rx, closed, lost, calls>>
      BY <2>14 DEF tcp_ack_timeout, Runs
    <3>2. CASE closed \/ \A e \in tx : e.seq # running.work.arg[2]
      <4>1. used' = used \ {running.work.arg[1]} /\ FuncReturns /\ armed' = armed
        BY <2>14, <3>2 DEF tcp_ack_timeout
      <4> QED
        BY <3>1, <4>1, ArgKeepsOwners
    <3>3. CASE ~(closed \/ \A e \in tx : e.seq # running.work.arg[2]) /\ ~Enough(2)
      <4>1. UNCHANGED <<used, armed, running>>
        BY <2>14, <3>3 DEF tcp_ack_timeout
      <4> QED
        BY <3>1, <4>1, OwnersUntouched
    <3>4. CASE ~(closed \/ \A e \in tx : e.seq # running.work.arg[2]) /\ Enough(2)
      BY <2>14, <3>4, RearmKeepsOwners
    <3> QED
      BY <3>2, <3>3, <3>4
  <2>15. CASE WorkFreed
    BY <2>15, FreeKeepsOwners
  <2>16. CASE UNCHANGED bufvars
    BY <2>16, OwnersUntouched DEF bufvars
  <2> QED
    BY <2>2, <2>3, <2>4, <2>5, <2>6, <2>7, <2>8, <2>9, <2>10, <2>11, <2>12, <2>13, <2>14, <2>15,
       <2>16 DEF BuffersNext
<1> QED
  BY <1>1, BuffersInitHolds, PTL DEF BuffersSpec

\* Every block in use has one owner, or is one of the received packets and
\* messages to which every pointer is dropped: works, timers, arguments and
\* packets that wait for an ack are freed at most once and not used afterwards,
\* however timeouts, acks and the kernel task interleave.  What tx_data_list of a
\* closed socket still holds is owned by that list, freed or not.
THEOREM BlocksFreedOnce == BuffersSpec => []OneOwner
<1>1. BuffersInv => OneOwner
  BY DEF BuffersInv
<1> QED
  BY <1>1, BuffersInvariant, PTL

-----------------------------------------------------------------------------
(* The linked lists, for any lists and items.                              *)

\* No item is twice in a sequence.
Distinct(q) == \A i, j \in 1 .. Len(q) : q[i] = q[j] => i = j

\* The links lead through the items of q, and the list's control block has its
\* ends and its length.  The tail of an empty list may be anything.
IsList(ctl, links, q) ==
    /\ q \in Seq(Items) /\ Distinct(q)
    /\ ctl.count = Len(q)
    /\ ctl.head = IF q = << >> THEN NULL ELSE q[1]
    /\ q # << >> => ctl.tail = q[Len(q)]
    /\ \A i \in 1 .. Len(q) : links[q[i]] = IF i < Len(q) THEN q[i + 1] ELSE NULL

ListTypes ==
    /\ listctl \in [Lists -> [count : Nat, head : Items \cup {NULL}, tail : Items \cup {NULL}]]
    /\ next \in [Items -> Items \cup {NULL}]

\* Every list is the chain of its links, and no item is in two lists.
ListInv ==
    /\ ListTypes
    /\ \A l \in Lists : IsList(listctl[l], next, Chain(l))
    /\ \A l, m \in Lists : \A i \in 1 .. Len(Chain(l)), j \in 1 .. Len(Chain(m)) :
          Chain(l)[i] = Chain(m)[j] => l = m

\* A sequence without repetition is not longer than there are items.
LEMMA DistinctIsShort ==
    ASSUME NEW q \in Seq(Items), Distinct(q)
    PROVE  /\ Len(q) \in Nat /\ Cardinality(Items) \in Nat /\ Len(q) <= Cardinality(Items)
           /\ Cardinality(1 .. Len(q)) = Len(q)
<1>1. IsFiniteSet(Items) /\ Cardinality(Items) \in Nat
  BY ListAssumption, FS_CardinalityType
<1>2. Len(q) \in Nat /\ q \in [1 .. Len(q) -> Items]
  OBVIOUS
<1>3. IsFiniteSet(1 .. Len(q)) /\ Cardinality(1 .. Len(q)) = Len(q)
  BY <1>2, FS_Interval
<1>4. q \in Injection(1 .. Len(q), Items)
  BY <1>2 DEF Distinct, Injection, IsInjective
<1>5. Cardinality(1 .. Len(q)) <= Cardinality(Items)
  BY <1>1, <1>4, FS_Injection
<1> QED
  BY <1>1, <1>2, <1>3, <1>5

\* A loop over a list whose links lead through q meets the items of q.
ChainsFollowLinks == \A l \in Lists : \A q : IsList(listctl[l], next, q) => Chain(l) = q

\* The loop over a list meets its items, in their order.
LEMMA ChainIs == ChainsFollowLinks
<1> SUFFICES ASSUME NEW l \in Lists, NEW q, IsList(listctl[l], next, q)
             PROVE  Chain(l) = q
  BY DEF ChainsFollowLinks
<1> DEFINE C == Cardinality(Items)
           D == 1 .. C + 1
           Step(f) == [n \in D |-> IF n = 1 THEN listctl[l].head ELSE list_next(f[n - 1])]
           at == CHOOSE f : f = Step(f)
           len == Cardinality({n \in DOMAIN at : at[n] # NULL})
           w == [n \in D |-> IF n <= Len(q) THEN q[n] ELSE NULL]
<1>1. Chain(l) = [n \in 1 .. len |-> at[n]]
  BY DEF Chain
<1>2. /\ q \in Seq(Items) /\ Len(q) \in Nat /\ C \in Nat /\ Len(q) <= C
      /\ \A i \in 1 .. Len(q) : q[i] \in Items /\ q[i] # NULL
  BY DistinctIsShort, ListAssumption DEF IsList
<1>3. w = Step(w)
  <2>1. ASSUME NEW n \in D
        PROVE  w[n] = IF n = 1 THEN listctl[l].head ELSE list_next(w[n - 1])
    <3>1. CASE n = 1
      BY <1>2, <3>1 DEF IsList
    <3>2. CASE n # 1 /\ n - 1 <= Len(q)
      <4>1. n - 1 \in 1 .. Len(q) /\ n - 1 \in D
        BY <1>2, <3>2
      <4>2. w[n - 1] = q[n - 1] /\ q[n - 1] # NULL
        BY <1>2, <4>1
      <4>3. next[q[n - 1]] = IF n - 1 < Len(q) THEN q[(n - 1) + 1] ELSE NULL
        BY <4>1 DEF IsList
      <4> QED
        BY <1>2, <3>2, <4>2, <4>3 DEF list_next
    <3>3. CASE n # 1 /\ ~(n - 1 <= Len(q))
      BY <1>2, <3>3 DEF list_next
    <3> QED
      BY <3>1, <3>2, <3>3
  <2> HIDE DEF D
  <2> QED
    BY <2>1
<1>4. at = Step(at)
  <2> HIDE DEF Step, w
  <2> QED
    BY <1>3
<1> HIDE DEF at
<1>5. \A n \in D : at[n] = w[n]
  <2> DEFINE T == {n \in D : at[n] # w[n]}
  <2> SUFFICES ASSUME T # {} PROVE FALSE
    OBVIOUS
  <2>1. T \in SUBSET Nat
    BY <1>2
  <2>2. PICK n \in T : \A m \in T : n <= m
    <3> HIDE DEF T
    <3> QED
      BY <2>1, LeastNat
  <2>3. n \in D /\ n # 1 => n - 1 \in D /\ n - 1 \notin T
    BY <1>2, <2>2
  <2>4. at[n] = IF n = 1 THEN listctl[l].head ELSE list_next(at[n - 1])
    <3>1. Step(at)[n] = IF n = 1 THEN listctl[l].head ELSE list_next(at[n - 1])
      OBVIOUS
    <3> HIDE DEF Step
    <3> QED
      BY <1>4, <3>1
  <2>5. w[n] = IF n = 1 THEN listctl[l].head ELSE list_next(w[n - 1])
    <3>1. Step(w)[n] = IF n = 1 THEN listctl[l].head ELSE list_next(w[n - 1])
      OBVIOUS
    <3> HIDE DEF Step, w
    <3> QED
      BY <1>3, <3>1
  <2> HIDE DEF w
  <2> QED
    BY <2>2, <2>3, <2>4, <2>5
<1>6. DOMAIN at = D
  <2>1. DOMAIN Step(at) = D
    OBVIOUS
  <2> HIDE DEF Step, D
  <2> QED
    BY <1>4, <2>1
<1>7. {n \in DOMAIN at : at[n] # NULL} = 1 .. Len(q)
  BY <1>2, <1>5, <1>6
<1>8. len = Len(q)
  <2>1. Cardinality(1 .. Len(q)) = Len(q)
    BY DistinctIsShort DEF IsList
  <2> QED
    BY <1>7, <2>1
<1>9. \A n \in 1 .. Len(q) : at[n] = q[n]
  BY <1>2, <1>5
<1>10. q = [n \in 1 .. Len(q) |-> q[n]]
  BY <1>2
<1> HIDE DEF len
<1> QED
  BY <1>1, <1>8, <1>9, <1>10

\* A list becomes q and the others are left alone, the item that moves being in none.
LEMMA ListBecomes ==
    ASSUME ListInv, NEW l \in Lists, NEW q,
           IsList(listctl'[l], next', q),
           ListTypes',
           \A m \in Lists : m # l =>
              /\ listctl'[m] = listctl[m]
              /\ \A i \in 1 .. Len(Chain(m)) : next'[Chain(m)[i]] = next[Chain(m)[i]]
              /\ \A i \in 1 .. Len(q), j \in 1 .. Len(Chain(m)) : q[i] # Chain(m)[j]
    PROVE  ListInv' /\ S!Becomes(l, q)
<1>1. ASSUME NEW m \in Lists, NEW c, IsList(listctl'[m], next', c)
      PROVE  Chain(m)' = c
  <2>1. ChainsFollowLinks'
    BY ChainIs, PTL
  <2> QED
    BY <1>1, <2>1 DEF ChainsFollowLinks, IsList
<1>2. Chain(l)' = q
  BY <1>1
<1>3. ASSUME NEW m \in Lists, m # l
      PROVE  Chain(m)' = Chain(m) /\ IsList(listctl'[m], next', Chain(m))
  <2>1. IsList(listctl[m], next, Chain(m))
    BY DEF ListInv
  <2>2. IsList(listctl'[m], next', Chain(m))
    BY <1>3, <2>1 DEF IsList
  <2> QED
    BY <1>1, <2>2
<1>4. ASSUME NEW m \in Lists PROVE IsList(listctl'[m], next', Chain(m)')
  BY <1>2, <1>3
<1>5. ASSUME NEW m \in Lists, NEW n \in Lists,
             NEW i \in 1 .. Len(Chain(m)'), NEW j \in 1 .. Len(Chain(n)'),
             Chain(m)'[i] = Chain(n)'[j]
      PROVE  m = n
  <2>1. CASE m = l /\ n # l
    BY <1>2, <1>3, <1>5, <2>1
  <2>2. CASE m # l /\ n = l
    BY <1>2, <1>3, <1>5, <2>2
  <2>3. CASE m # l /\ n # l
    BY <1>3, <1>5, <2>3 DEF ListInv
  <2> QED
    BY <2>1, <2>2, <2>3
<1>6. ListInv'
  BY <1>4, <1>5 DEF ListInv
<1>7. S!Becomes(l, q)
  <2>1. [m \in Lists |-> Chain(m)]' = [[m \in Lists |-> Chain(m)] EXCEPT ![l] = q]
    BY <1>2, <1>3
  <2> QED
    BY <2>1 DEF S!Becomes
<1> QED
  BY <1>6, <1>7

\* Nothing changes.
LEMMA ListStays ==
    ASSUME ListInv, UNCHANGED <<listctl, next>>
    PROVE  ListInv' /\ UNCHANGED [l \in Lists |-> Chain(l)]
<1>1. \A l \in Lists : Chain(l)' = Chain(l)
  BY DEF Chain, list_next
<1> QED
  BY <1>1 DEF ListInv, ListTypes

\* The places of a list.
LEMMA ListPlaces ==
    ASSUME ListInv, NEW l \in Lists
    PROVE  /\ IsList(listctl[l], next, Chain(l))
           /\ Chain(l) \in Seq(Items) /\ Len(Chain(l)) \in Nat
           /\ Distinct(Chain(l)) /\ DOMAIN Chain(l) = 1 .. Len(Chain(l))
           /\ \A i \in 1 .. Len(Chain(l)) : Chain(l)[i] \in Items /\ Chain(l)[i] # NULL
           /\ list_empty(l) <=> Chain(l) = << >>
<1>1. IsList(listctl[l], next, Chain(l))
  BY DEF ListInv
<1>2. Chain(l) \in Seq(Items) /\ Distinct(Chain(l)) /\ listctl[l].count = Len(Chain(l))
  BY <1>1 DEF IsList
<1> QED
  BY <1>1, <1>2, ListAssumption DEF list_empty

\* Items in no list.
LEMMA UnlistedIs ==
    ASSUME ListInv, NEW i \in Unlisted
    PROVE  /\ i \in Items /\ i # NULL
           /\ \A l \in Lists : \A k \in 1 .. Len(Chain(l)) : Chain(l)[k] # i
           /\ i \in S!Unlisted
<1>1. i \in Items /\ \A l \in Lists : \A k \in 1 .. Len(Chain(l)) : Chain(l)[k] # i
  BY ListPlaces DEF Unlisted
<1>2. ASSUME NEW l \in Lists PROVE i \notin S!ToSet(Chain(l))
  BY <1>1, ListPlaces DEF S!ToSet
<1>3. i \in S!Unlisted
  BY <1>1, <1>2 DEF S!Unlisted
<1> QED
  BY <1>1, <1>3, ListAssumption

\* Putting an item that is not in a sequence between its k - 1st and k-th.
LEMMA Inserted ==
    ASSUME NEW s \in Seq(Items), Distinct(s), NEW k \in 1 .. Len(s) + 1,
           NEW i \in Items, \A n \in 1 .. Len(s) : s[n] # i
    PROVE  /\ S!InsertAt(s, k, i) \in Seq(Items)
           /\ Len(S!InsertAt(s, k, i)) = Len(s) + 1
           /\ \A n \in 1 .. Len(s) + 1 : S!InsertAt(s, k, i)[n] =
                 IF n < k THEN s[n] ELSE IF n = k THEN i ELSE s[n - 1]
           /\ Distinct(S!InsertAt(s, k, i))
<1> DEFINE a == SubSeq(s, 1, k - 1)
           b == SubSeq(s, k, Len(s))
           q == S!InsertAt(s, k, i)
<1>1. q = a \o <<i>> \o b
  BY DEF S!InsertAt
<1>2. Len(s) \in Nat /\ k \in Nat /\ \A n \in 1 .. Len(s) : s[n] \in Items
  OBVIOUS
<1>3. a \in Seq(Items) /\ Len(a) = k - 1 /\ \A n \in 1 .. k - 1 : a[n] = s[n]
  BY <1>2
<1>4. b \in Seq(Items) /\ Len(b) = Len(s) - k + 1 /\ \A n \in 1 .. Len(s) - k + 1 : b[n] = s[k + n - 1]
  BY <1>2
<1> HIDE DEF a, b, q
<1>5. /\ a \o <<i>> \in Seq(Items) /\ Len(a \o <<i>>) = k
      /\ \A n \in 1 .. k : (a \o <<i>>)[n] = IF n < k THEN s[n] ELSE i
  BY <1>2, <1>3
<1> DEFINE c == a \o <<i>>
<1>6. q \in Seq(Items) /\ Len(q) = Len(s) + 1
  <2>1. q = c \o b /\ c \in Seq(Items) /\ Len(c) = k
    BY <1>1, <1>5
  <2> HIDE DEF c
  <2>2. q \in Seq(Items) /\ Len(q) = Len(c) + Len(b)
    BY <1>4, <2>1, ConcatProperties
  <2> QED
    BY <1>2, <1>4, <2>1, <2>2
<1>7. ASSUME NEW n \in 1 .. Len(s) + 1
      PROVE  q[n] = IF n < k THEN s[n] ELSE IF n = k THEN i ELSE s[n - 1]
  <2>1. CASE n <= k
    BY <1>1, <1>2, <1>4, <1>5, <2>1
  <2>2. CASE n > k
    <3> DEFINE j == n - k
    <3>1. q[n] = b[j]
      BY <1>1, <1>2, <1>4, <1>5, <2>2
    <3>2. j \in 1 .. Len(s) - k + 1 /\ k + j - 1 = n - 1
      BY <1>2, <2>2
    <3> HIDE DEF j
    <3>3. b[j] = s[k + j - 1]
      BY <1>4, <3>2
    <3> QED
      BY <1>2, <2>2, <3>1, <3>2, <3>3
  <2> QED
    BY <1>2, <2>1, <2>2
<1>8. Distinct(q)
  <2> SUFFICES ASSUME NEW m \in 1 .. Len(s) + 1, NEW n \in 1 .. Len(s) + 1, q[m] = q[n]
               PROVE  m = n
    BY <1>6 DEF Distinct
  <2> DEFINE At(x) == IF x < k THEN x ELSE x - 1
  <2>1. \A x \in 1 .. Len(s) + 1 : x # k => At(x) \in 1 .. Len(s) /\ q[x] = s[At(x)]
    BY <1>2, <1>7
  <2>2. q[k] = i
    BY <1>2, <1>7
  <2>3. m = k <=> n = k
    BY <2>1, <2>2
  <2>4. m # k /\ n # k => At(m) = At(n)
    <3> HIDE DEF At
    <3> QED
      BY <2>1 DEF Distinct
  <2> QED
    BY <1>2, <2>3, <2>4
<1> QED
  BY <1>6, <1>7, <1>8 DEF q

\* Taking out the k-th.
LEMMA Removed ==
    ASSUME NEW s \in Seq(Items), Distinct(s), NEW k \in 1 .. Len(s)
    PROVE  /\ S!RemoveAt(s, k) \in Seq(Items)
           /\ Len(S!RemoveAt(s, k)) = Len(s) - 1
           /\ \A n \in 1 .. Len(s) - 1 :
                 S!RemoveAt(s, k)[n] = IF n < k THEN s[n] ELSE s[n + 1]
           /\ Distinct(S!RemoveAt(s, k))
<1> DEFINE a == SubSeq(s, 1, k - 1)
           b == SubSeq(s, k + 1, Len(s))
           q == S!RemoveAt(s, k)
<1>1. q = a \o b
  BY DEF S!RemoveAt
<1>2. Len(s) \in Nat /\ k \in Nat /\ \A n \in 1 .. Len(s) : s[n] \in Items
  OBVIOUS
<1>3. a \in Seq(Items) /\ Len(a) = k - 1 /\ \A n \in 1 .. k - 1 : a[n] = s[n]
  BY <1>2
<1>4. b \in Seq(Items) /\ Len(b) = Len(s) - k /\ \A n \in 1 .. Len(s) - k : b[n] = s[k + n]
  BY <1>2
<1> HIDE DEF a, b, q
<1>5. q \in Seq(Items) /\ Len(q) = Len(s) - 1
  BY <1>1, <1>2, <1>3, <1>4
<1>6. ASSUME NEW n \in 1 .. Len(s) - 1
      PROVE  q[n] = IF n < k THEN s[n] ELSE s[n + 1]
  <2>1. CASE n < k
    BY <1>1, <1>2, <1>3, <1>4, <2>1
  <2>2. CASE n >= k
    <3> DEFINE j == n - (k - 1)
    <3>1. q[n] = b[j]
      BY <1>1, <1>2, <1>3, <1>4, <2>2
    <3>2. j \in 1 .. Len(s) - k /\ k + j = n + 1
      BY <1>2, <2>2
    <3> HIDE DEF j
    <3>3. b[j] = s[k + j]
      BY <1>4, <3>2
    <3> QED
      BY <1>2, <2>2, <3>1, <3>2, <3>3
  <2> QED
    BY <1>2, <2>1, <2>2
<1>7. Distinct(q)
  <2> SUFFICES ASSUME NEW m \in 1 .. Len(s) - 1, NEW n \in 1 .. Len(s) - 1, q[m] = q[n]
               PROVE  m = n
    BY <1>5 DEF Distinct
  <2> DEFINE At(x) == IF x < k THEN x ELSE x + 1
  <2>1. ASSUME NEW x \in 1 .. Len(s) - 1
        PROVE  At(x) \in 1 .. Len(s) /\ q[x] = s[At(x)]
    <3>1. q[x] = IF x < k THEN s[x] ELSE s[x + 1]
      BY <1>6
    <3> QED
      BY <1>2, <3>1
  <2>2. At(m) = At(n)
    <3> HIDE DEF At
    <3> QED
      BY <2>1 DEF Distinct
  <2> QED
    BY <1>2, <2>2
<1> QED
  BY <1>5, <1>6, <1>7 DEF q

\* In front, behind and without the first are special cases.
LEMMA Ends ==
    ASSUME NEW s \in Seq(Items), NEW i \in Items
    PROVE  /\ <<i>> \o s = S!InsertAt(s, 1, i)
           /\ Append(s, i) = S!InsertAt(s, Len(s) + 1, i)
           /\ s # << >> => Tail(s) = S!RemoveAt(s, 1)
<1>1. SubSeq(s, 1, 0) = << >> /\ SubSeq(s, 1, Len(s)) = s /\ SubSeq(s, Len(s) + 1, Len(s)) = << >>
  OBVIOUS
<1>2. << >> \o <<i>> = <<i>> /\ << >> \o Tail(s) = Tail(s)
  OBVIOUS
<1>3. Append(s, i) = s \o <<i>> \o << >>
  OBVIOUS
<1>4. Tail(s) = SubSeq(s, 2, Len(s))
  OBVIOUS
<1> QED
  BY <1>1, <1>2, <1>3, <1>4 DEF S!InsertAt, S!RemoveAt

\* An item goes into a list as its k-th: what list_pushfront, list_pushback and
\* list_insert have in common.
LEMMA ItemEnters ==
    ASSUME ListInv, ListTypes', NEW l \in Lists, NEW i \in Unlisted,
           NEW k \in 1 .. Len(Chain(l)) + 1,
           \A m \in Lists : m # l => listctl'[m] = listctl[m],
           listctl'[l].count = Len(Chain(l)) + 1,
           listctl'[l].head = IF k = 1 THEN i ELSE listctl[l].head,
           listctl'[l].tail = IF k = Len(Chain(l)) + 1 THEN i ELSE listctl[l].tail,
           next'[i] = IF k <= Len(Chain(l)) THEN Chain(l)[k] ELSE NULL,
           k > 1 => next'[Chain(l)[k - 1]] = i,
           \A j \in Items : j # i /\ (k > 1 => j # Chain(l)[k - 1]) => next'[j] = next[j]
    PROVE  ListInv' /\ S!Becomes(l, S!InsertAt(Chain(l), k, i))
<1> DEFINE s == Chain(l)
           q == S!InsertAt(s, k, i)
<1>1. /\ IsList(listctl[l], next, s) /\ s \in Seq(Items) /\ Len(s) \in Nat /\ Distinct(s)
      /\ \A n \in 1 .. Len(s) : s[n] \in Items /\ s[n] # i
      /\ i \in Items /\ k \in Nat
  BY ListPlaces, UnlistedIs
<1>2. /\ q \in Seq(Items) /\ Len(q) = Len(s) + 1 /\ Distinct(q)
      /\ \A n \in 1 .. Len(s) + 1 : q[n] = IF n < k THEN s[n] ELSE IF n = k THEN i ELSE s[n - 1]
  <2>1. \A n \in 1 .. Len(s) : s[n] # i
    BY <1>1
  <2>2. k \in 1 .. Len(s) + 1
    OBVIOUS
  <2> HIDE DEF s
  <2> QED
    BY <1>1, <2>1, <2>2, Inserted
<1>3. /\ s # << >> => listctl[l].head = s[1] /\ listctl[l].tail = s[Len(s)]
      /\ \A n \in 1 .. Len(s) : next[s[n]] = IF n < Len(s) THEN s[n + 1] ELSE NULL
  BY <1>1 DEF IsList
<1> HIDE DEF q
<1>4. q # << >> /\ s # << >> <=> Len(s) > 0
  BY <1>1, <1>2
<1>5. listctl'[l].head = q[1]
  <2>1. CASE k = 1
    BY <1>1, <1>2, <2>1
  <2>2. CASE k > 1
    <3>1. Len(s) > 0 /\ 1 \in 1 .. Len(s) + 1
      BY <1>1, <2>2
    <3> QED
      BY <1>1, <1>2, <1>3, <1>4, <2>2, <3>1
  <2> QED
    BY <1>1, <2>1, <2>2
<1>6. listctl'[l].tail = q[Len(q)]
  <2>1. Len(s) + 1 \in 1 .. Len(s) + 1
    BY <1>1
  <2>2. CASE k = Len(s) + 1
    BY <1>1, <1>2, <2>1, <2>2
  <2>3. CASE k < Len(s) + 1
    <3>1. Len(s) > 0 /\ (Len(s) + 1) - 1 = Len(s)
      BY <1>1, <2>3
    <3>2. q[Len(s) + 1] = s[Len(s)]
      BY <1>1, <1>2, <2>1, <2>3, <3>1
    <3> QED
      BY <1>1, <1>2, <1>3, <1>4, <2>3, <3>1, <3>2
  <2> QED
    BY <1>1, <2>2, <2>3
<1>7. ASSUME NEW n \in 1 .. Len(q)
      PROVE  next'[q[n]] = IF n < Len(q) THEN q[n + 1] ELSE NULL
  <2>0. n \in 1 .. Len(s) + 1 /\ (n < Len(q) <=> n <= Len(s))
        /\ (n < Len(q) => n + 1 \in 1 .. Len(s) + 1)
    BY <1>1, <1>2
  <2>1. CASE n = k
    <3>1. q[n] = i /\ (n <= Len(s) => q[n + 1] = s[(n + 1) - 1] /\ (n + 1) - 1 = n)
      BY <1>1, <1>2, <2>0, <2>1
    <3> QED
      BY <2>0, <2>1, <3>1
  <2>2. CASE n + 1 = k
    <3>1. n \in 1 .. Len(s) /\ n < k /\ k - 1 = n /\ n < Len(q) /\ q[n] = s[n] /\ q[n + 1] = i
      BY <1>1, <1>2, <2>0, <2>2
    <3> QED
      BY <1>1, <2>2, <3>1
  <2>3. CASE n + 1 < k
    <3>1. n \in 1 .. Len(s) /\ n + 1 \in 1 .. Len(s) /\ q[n] = s[n] /\ q[n + 1] = s[n + 1]
      BY <1>1, <1>2, <2>0, <2>3
    <3>2. k - 1 \in 1 .. Len(s) /\ s[n] # s[k - 1]
      BY <1>1, <2>3, <3>1 DEF Distinct
    <3>3. next'[s[n]] = next[s[n]]
      BY <1>1, <3>1, <3>2
    <3> QED
      BY <1>1, <1>2, <1>3, <3>1, <3>3
  <2>4. CASE n > k
    <3>1. /\ n - 1 \in 1 .. Len(s) /\ q[n] = s[n - 1]
          /\ n <= Len(s) => q[n + 1] = s[(n + 1) - 1] /\ (n + 1) - 1 = n
      BY <1>1, <1>2, <2>0, <2>4
    <3>2. k > 1 => k - 1 \in 1 .. Len(s) /\ s[n - 1] # s[k - 1]
      BY <1>1, <2>0, <2>4, <3>1 DEF Distinct
    <3>3. next'[s[n - 1]] = next[s[n - 1]]
      BY <1>1, <3>1, <3>2
    <3>4. next[s[n - 1]] = IF n <= Len(s) THEN s[n] ELSE NULL
      <4>1. (n - 1) + 1 = n /\ (n - 1 < Len(s) <=> n <= Len(s))
        BY <1>1, <2>0
      <4> QED
        BY <1>3, <3>1, <4>1
    <3> QED
      BY <2>0, <3>1, <3>3, <3>4
  <2> QED
    BY <1>1, <2>0, <2>1, <2>2, <2>3, <2>4
<1>8. IsList(listctl'[l], next', q)
  BY <1>2, <1>4, <1>5, <1>6, <1>7 DEF IsList
<1>9. ASSUME NEW m \in Lists, m # l
      PROVE  /\ listctl'[m] = listctl[m]
             /\ \A n \in 1 .. Len(Chain(m)) : next'[Chain(m)[n]] = next[Chain(m)[n]]
             /\ \A n \in 1 .. Len(q), j \in 1 .. Len(Chain(m)) : q[n] # Chain(m)[j]
  <2>1. ASSUME NEW j \in 1 .. Len(Chain(m))
        PROVE  /\ Chain(m)[j] \in Items /\ Chain(m)[j] # i
               /\ \A n \in 1 .. Len(s) : s[n] # Chain(m)[j]
    BY <1>9, ListPlaces, UnlistedIs DEF ListInv
  <2>2. ASSUME NEW j \in 1 .. Len(Chain(m)) PROVE next'[Chain(m)[j]] = next[Chain(m)[j]]
    <3>1. k > 1 => k - 1 \in 1 .. Len(s)
      BY <1>1
    <3> QED
      BY <2>1, <3>1
  <2>3. ASSUME NEW n \in 1 .. Len(q), NEW j \in 1 .. Len(Chain(m)) PROVE q[n] # Chain(m)[j]
    <3>1. q[n] = i \/ \E x \in 1 .. Len(s) : q[n] = s[x]
      BY <1>1, <1>2
    <3> QED
      BY <2>1, <3>1
  <2> QED
    BY <1>9, <2>2, <2>3
<1>10. ListInv' /\ S!Becomes(l, q)
  BY <1>8, <1>9, ListBecomes
<1> QED
  BY <1>10 DEF q

\* The k-th item leaves a list: what list_popfront and list_remove have in common.
LEMMA ItemLeaves ==
    ASSUME ListInv, ListTypes', NEW l \in Lists, NEW k \in 1 .. Len(Chain(l)),
           \A m \in Lists : m # l => listctl'[m] = listctl[m],
           listctl'[l].count = Len(Chain(l)) - 1,
           listctl'[l].head = IF k > 1 THEN listctl[l].head
                              ELSE IF Len(Chain(l)) > 1 THEN Chain(l)[2] ELSE NULL,
           Len(Chain(l)) > 1 => listctl'[l].tail = IF k < Len(Chain(l)) THEN listctl[l].tail
                                                   ELSE Chain(l)[k - 1],
           k > 1 => next'[Chain(l)[k - 1]] = IF k < Len(Chain(l)) THEN Chain(l)[k + 1] ELSE NULL,
           \A j \in Items : j # Chain(l)[k] /\ (k > 1 => j # Chain(l)[k - 1]) => next'[j] = next[j]
    PROVE  ListInv' /\ S!Becomes(l, S!RemoveAt(Chain(l), k))
<1> DEFINE s == Chain(l)
           q == S!RemoveAt(s, k)
<1>1. /\ IsList(listctl[l], next, s) /\ s \in Seq(Items) /\ Len(s) \in Nat /\ Distinct(s)
      /\ \A n \in 1 .. Len(s) : s[n] \in Items
      /\ k \in Nat /\ s # << >>
  BY ListPlaces
<1>2. /\ q \in Seq(Items) /\ Len(q) = Len(s) - 1 /\ Distinct(q)
      /\ \A n \in 1 .. Len(s) - 1 : q[n] = IF n < k THEN s[n] ELSE s[n + 1]
  BY <1>1, Removed
<1>3. /\ listctl[l].head = s[1] /\ listctl[l].tail = s[Len(s)]
      /\ \A n \in 1 .. Len(s) : next[s[n]] = IF n < Len(s) THEN s[n + 1] ELSE NULL
  BY <1>1 DEF IsList
<1> HIDE DEF q
<1>4. q # << >> <=> Len(s) > 1
  BY <1>1, <1>2
<1>5. listctl'[l].head = IF q = << >> THEN NULL ELSE q[1]
  BY <1>1, <1>2, <1>3, <1>4
<1>6. q # << >> => listctl'[l].tail = q[Len(q)]
  <2> SUFFICES ASSUME Len(s) > 1 PROVE listctl'[l].tail = q[Len(q)]
    BY <1>4
  <2>1. Len(s) - 1 \in 1 .. Len(s) - 1 /\ (Len(s) - 1) + 1 = Len(s)
    BY <1>1
  <2>2. CASE k < Len(s)
    BY <1>1, <1>2, <1>3, <2>1, <2>2
  <2>3. CASE k = Len(s)
    BY <1>1, <1>2, <2>1, <2>3
  <2> QED
    BY <1>1, <2>2, <2>3
<1>7. ASSUME NEW n \in 1 .. Len(q)
      PROVE  next'[q[n]] = IF n < Len(q) THEN q[n + 1] ELSE NULL
  <2>0. /\ n \in 1 .. Len(s) - 1 /\ n \in 1 .. Len(s) /\ n + 1 \in 1 .. Len(s)
        /\ n < Len(q) <=> n + 1 < Len(s)
        /\ n < Len(q) => n + 1 \in 1 .. Len(s) - 1
    BY <1>1, <1>2
  <2>1. CASE n + 1 < k
    <3>1. q[n] = s[n] /\ n < Len(q) /\ q[n + 1] = s[n + 1]
      BY <1>1, <1>2, <2>0, <2>1
    <3>2. k - 1 \in 1 .. Len(s) /\ s[n] # s[k - 1] /\ s[n] # s[k]
      BY <1>1, <2>0, <2>1 DEF Distinct
    <3>3. next'[s[n]] = next[s[n]]
      BY <1>1, <2>0, <3>2
    <3> QED
      BY <1>1, <1>3, <2>0, <3>1, <3>3
  <2>2. CASE n + 1 = k
    <3>1. q[n] = s[n] /\ k - 1 = n /\ k > 1
      BY <1>1, <1>2, <2>0, <2>2
    <3>2. n < Len(q) => q[n + 1] = s[k + 1]
      BY <1>1, <1>2, <2>0, <2>2
    <3> QED
      BY <1>1, <2>0, <2>2, <3>1, <3>2
  <2>3. CASE n >= k
    <3>1. q[n] = s[n + 1] /\ (n < Len(q) => q[n + 1] = s[(n + 1) + 1])
      BY <1>1, <1>2, <2>0, <2>3
    <3>2. s[n + 1] # s[k] /\ (k > 1 => s[n + 1] # s[k - 1])
      <4>1. n + 1 # k /\ n + 1 # k - 1 /\ (k > 1 => k - 1 \in 1 .. Len(s))
        BY <1>1, <2>0, <2>3
      <4> QED
        BY <1>1, <2>0, <4>1 DEF Distinct
    <3>3. next'[s[n + 1]] = next[s[n + 1]]
      BY <1>1, <2>0, <3>2
    <3> QED
      BY <1>1, <1>3, <2>0, <3>1, <3>3
  <2> QED
    BY <1>1, <2>0, <2>1, <2>2, <2>3
<1>8. IsList(listctl'[l], next', q)
  BY <1>2, <1>5, <1>6, <1>7 DEF IsList
<1>9. ASSUME NEW m \in Lists, m # l
      PROVE  /\ listctl'[m] = listctl[m]
             /\ \A n \in 1 .. Len(Chain(m)) : next'[Chain(m)[n]] = next[Chain(m)[n]]
             /\ \A n \in 1 .. Len(q), j \in 1 .. Len(Chain(m)) : q[n] # Chain(m)[j]
  <2>1. ASSUME NEW j \in 1 .. Len(Chain(m))
        PROVE  /\ Chain(m)[j] \in Items
               /\ \A n \in 1 .. Len(s) : s[n] # Chain(m)[j]
    BY <1>9, ListPlaces DEF ListInv
  <2>2. ASSUME NEW j \in 1 .. Len(Chain(m)) PROVE next'[Chain(m)[j]] = next[Chain(m)[j]]
    <3>1. k > 1 => k - 1 \in 1 .. Len(s)
      BY <1>1
    <3> QED
      BY <2>1, <3>1
  <2>3. ASSUME NEW n \in 1 .. Len(q), NEW j \in 1 .. Len(Chain(m)) PROVE q[n] # Chain(m)[j]
    <3>1. \E x \in 1 .. Len(s) : q[n] = s[x]
      BY <1>1, <1>2
    <3> QED
      BY <2>1, <3>1
  <2> QED
    BY <1>9, <2>2, <2>3
<1>10. ListInv' /\ S!Becomes(l, q)
  BY <1>8, <1>9, ListBecomes
<1> QED
  BY <1>10 DEF q

\* list_pushfront.
LEMMA PushFrontIs ==
    ASSUME ListInv, NEW l \in Lists, NEW i \in Unlisted, list_pushfront(l, i)
    PROVE  ListInv' /\ S!LPushFront(l, i)
<1> DEFINE s == Chain(l)
<1>1. /\ IsList(listctl[l], next, s) /\ s \in Seq(Items) /\ Len(s) \in Nat
      /\ list_empty(l) <=> s = << >>
      /\ i \in Items
  BY ListPlaces, UnlistedIs
<1>2. listctl[l].count = Len(s) /\ (s # << >> => listctl[l].head = s[1] /\ Len(s) > 0)
  BY <1>1 DEF IsList
<1>3. ListTypes
  BY DEF ListInv
<1>4. ret' = ret
  BY DEF list_pushfront
<1>5. /\ ListTypes' /\ \A m \in Lists : m # l => listctl'[m] = listctl[m]
      /\ listctl'[l].count = Len(s) + 1 /\ listctl'[l].head = i
      /\ listctl'[l].tail = IF 1 = Len(s) + 1 THEN i ELSE listctl[l].tail
      /\ next'[i] = IF 1 <= Len(s) THEN s[1] ELSE NULL
      /\ \A j \in Items : j # i => next'[j] = next[j]
  <2>1. CASE s = << >>
    <3>1. /\ listctl' = [listctl EXCEPT ![l] = [count |-> @.count + 1, head |-> i, tail |-> i]]
          /\ next' = [next EXCEPT ![i] = NULL]
      BY <1>1, <2>1 DEF list_pushfront, Sole
    <3> QED
      BY <1>1, <1>2, <1>3, <2>1, <3>1 DEF ListTypes
  <2>2. CASE s # << >>
    <3>1. /\ next' = [next EXCEPT ![i] = listctl[l].head]
          /\ listctl' = [listctl EXCEPT ![l].head = i, ![l].count = @ + 1]
      BY <1>1, <2>2 DEF list_pushfront
    <3>2. listctl[l].head \in Items \cup {NULL}
      BY <1>3 DEF ListTypes
    <3> QED
      BY <1>1, <1>2, <1>3, <2>2, <3>1, <3>2 DEF ListTypes
  <2> QED
    BY <2>1, <2>2
<1>6. ListInv' /\ S!Becomes(l, S!InsertAt(s, 1, i))
  <2>1. 1 \in 1 .. Len(s) + 1
    BY <1>1
  <2> QED
    BY <1>5, <2>1, ItemEnters
<1>7. <<i>> \o s = S!InsertAt(s, 1, i)
  BY <1>1, Ends
<1> QED
  BY <1>4, <1>6, <1>7 DEF S!LPushFront

\* list_pushback.
LEMMA PushBackIs ==
    ASSUME ListInv, NEW l \in Lists, NEW i \in Unlisted, list_pushback(l, i)
    PROVE  ListInv' /\ S!LPushBack(l, i)
<1> DEFINE s == Chain(l)
<1>1. /\ IsList(listctl[l], next, s) /\ s \in Seq(Items) /\ Len(s) \in Nat /\ Distinct(s)
      /\ list_empty(l) <=> s = << >>
      /\ i \in Items
      /\ \A n \in 1 .. Len(s) : s[n] \in Items /\ s[n] # i
  BY ListPlaces, UnlistedIs
<1>2. listctl[l].count = Len(s) /\ (s # << >> => listctl[l].tail = s[Len(s)] /\ Len(s) > 0)
  BY <1>1 DEF IsList
<1>3. ListTypes
  BY DEF ListInv
<1>4. ret' = ret
  BY DEF list_pushback
<1>5. /\ ListTypes' /\ \A m \in Lists : m # l => listctl'[m] = listctl[m]
      /\ listctl'[l].count = Len(s) + 1 /\ listctl'[l].tail = i
      /\ listctl'[l].head = IF Len(s) + 1 = 1 THEN i ELSE listctl[l].head
      /\ next'[i] = NULL
      /\ Len(s) + 1 > 1 => next'[s[(Len(s) + 1) - 1]] = i
      /\ \A j \in Items : j # i /\ (Len(s) + 1 > 1 => j # s[(Len(s) + 1) - 1]) => next'[j] = next[j]
  <2>1. CASE s = << >>
    <3>1. /\ listctl' = [listctl EXCEPT ![l] = [count |-> @.count + 1, head |-> i, tail |-> i]]
          /\ next' = [next EXCEPT ![i] = NULL]
      BY <1>1, <2>1 DEF list_pushback, Sole
    <3> QED
      BY <1>1, <1>2, <1>3, <2>1, <3>1 DEF ListTypes
  <2>2. CASE s # << >>
    <3>1. /\ next' = [next EXCEPT ![i] = NULL, ![listctl[l].tail] = i]
          /\ listctl' = [listctl EXCEPT ![l].tail = i, ![l].count = @ + 1]
      BY <1>1, <2>2 DEF list_pushback
    <3>2. Len(s) \in 1 .. Len(s) /\ (Len(s) + 1) - 1 = Len(s) /\ Len(s) + 1 > 1
      BY <1>1, <1>2, <2>2
    <3>3. listctl[l].tail = s[Len(s)] /\ s[Len(s)] \in Items /\ s[Len(s)] # i
      BY <1>1, <1>2, <2>2, <3>2
    <3>4. /\ next' \in [Items -> Items \cup {NULL}] /\ next'[i] = NULL /\ next'[s[Len(s)]] = i
          /\ \A j \in Items : j # i /\ j # s[Len(s)] => next'[j] = next[j]
      BY <1>1, <1>3, <3>1, <3>3 DEF ListTypes
    <3>5. /\ listctl' \in [Lists -> [count : Nat, head : Items \cup {NULL}, tail : Items \cup {NULL}]]
          /\ \A m \in Lists : m # l => listctl'[m] = listctl[m]
          /\ listctl'[l].count = Len(s) + 1 /\ listctl'[l].tail = i /\ listctl'[l].head = listctl[l].head
      BY <1>1, <1>2, <1>3, <3>1 DEF ListTypes
    <3> QED
      BY <3>2, <3>4, <3>5 DEF ListTypes
  <2> QED
    BY <2>1, <2>2
<1>6. ListInv' /\ S!Becomes(l, S!InsertAt(s, Len(s) + 1, i))
  <2>1. Len(s) + 1 \in 1 .. Len(s) + 1 /\ ~(Len(s) + 1 <= Len(s))
    BY <1>1
  <2> QED
    BY <1>5, <2>1, ItemEnters
<1>7. Append(s, i) = S!InsertAt(s, Len(s) + 1, i)
  BY <1>1, Ends
<1> QED
  BY <1>4, <1>6, <1>7 DEF S!LPushBack

\* list_insert, not behind the tail.
LEMMA InsertIs ==
    ASSUME ListInv, NEW l \in Lists, NEW i \in Unlisted, NEW n \in 1 .. Len(Chain(l)),
           Chain(l)[n] # listctl[l].tail, list_insert(l, Chain(l)[n], i)
    PROVE  ListInv' /\ n \in 1 .. Len(Chain(l)) - 1 /\ S!LInsert(l, n, i)
<1> DEFINE s == Chain(l)
<1>1. /\ IsList(listctl[l], next, s) /\ s \in Seq(Items) /\ Len(s) \in Nat /\ Distinct(s)
      /\ s # << >> /\ i \in Items
      /\ \A m \in 1 .. Len(s) : s[m] \in Items /\ s[m] # i
  BY ListPlaces, UnlistedIs
<1>2. /\ listctl[l].count = Len(s) /\ listctl[l].tail = s[Len(s)]
      /\ next[s[n]] = IF n < Len(s) THEN s[n + 1] ELSE NULL
  BY <1>1 DEF IsList
<1>3. ListTypes
  BY DEF ListInv
<1>4. n \in 1 .. Len(s) - 1
  BY <1>1, <1>2
<1>5. /\ next' = [next EXCEPT ![s[n]] = i, ![i] = next[s[n]]]
      /\ listctl' = [listctl EXCEPT ![l].count = @ + 1]
      /\ ret' = ret
  BY DEF list_insert
<1>6. /\ listctl' \in [Lists -> [count : Nat, head : Items \cup {NULL}, tail : Items \cup {NULL}]]
      /\ \A m \in Lists : m # l => listctl'[m] = listctl[m]
      /\ listctl'[l].count = Len(s) + 1
      /\ listctl'[l].head = listctl[l].head /\ listctl'[l].tail = listctl[l].tail
  <2>1. listctl' = [listctl EXCEPT ![l].count = Len(s) + 1] /\ Len(s) + 1 \in Nat
    BY <1>1, <1>2, <1>5
  <2> DEFINE n1 == Len(s) + 1
  <2> HIDE DEF n1
  <2>2. listctl' = [listctl EXCEPT ![l].count = n1] /\ n1 \in Nat
    BY <2>1 DEF n1
  <2>3. /\ listctl' \in [Lists -> [count : Nat, head : Items \cup {NULL}, tail : Items \cup {NULL}]]
        /\ \A m \in Lists : m # l => listctl'[m] = listctl[m]
        /\ listctl'[l].count = n1
        /\ listctl'[l].head = listctl[l].head /\ listctl'[l].tail = listctl[l].tail
    BY <1>3, <2>2 DEF ListTypes
  <2> QED
    BY <2>3 DEF n1
<1>7. next[s[n]] = s[n + 1] /\ s[n] \in Items /\ s[n + 1] \in Items /\ s[n] # i
  BY <1>1, <1>2, <1>4
<1>8. /\ next' \in [Items -> Items \cup {NULL}]
      /\ next'[s[n]] = i /\ next'[i] = s[n + 1]
      /\ \A j \in Items : j # i /\ j # s[n] => next'[j] = next[j]
  BY <1>1, <1>3, <1>5, <1>7 DEF ListTypes
<1>9. ListInv' /\ S!Becomes(l, S!InsertAt(s, n + 1, i))
  <2>1. /\ n + 1 \in 1 .. Len(s) + 1 /\ n + 1 # 1 /\ n + 1 # Len(s) + 1 /\ n + 1 <= Len(s)
        /\ n + 1 > 1 /\ (n + 1) - 1 = n
    BY <1>1, <1>4
  <2>2. ListTypes'
    BY <1>6, <1>8 DEF ListTypes
  <2> QED
    BY <1>6, <1>8, <2>1, <2>2, ItemEnters
<1> QED
  BY <1>4, <1>5, <1>9 DEF S!LInsert

\* list_remove of the item behind the n-th; of nothing, behind the last.
LEMMA RemoveIs ==
    ASSUME ListInv, NEW l \in Lists, NEW n \in 1 .. Len(Chain(l)), list_remove(l, Chain(l)[n])
    PROVE  \/ UNCHANGED listvars
           \/ ListInv' /\ n \in 1 .. Len(Chain(l)) - 1 /\ S!LRemove(l, n)
<1> DEFINE s == Chain(l)
           item == next[s[n]]
<1>1. /\ IsList(listctl[l], next, s) /\ s \in Seq(Items) /\ Len(s) \in Nat /\ Distinct(s)
      /\ s # << >>
      /\ \A m \in 1 .. Len(s) : s[m] \in Items /\ s[m] # NULL
  BY ListPlaces
<1>2. /\ listctl[l].count = Len(s) /\ listctl[l].tail = s[Len(s)]
      /\ \A m \in 1 .. Len(s) : next[s[m]] = IF m < Len(s) THEN s[m + 1] ELSE NULL
  BY <1>1 DEF IsList
<1>3. ListTypes
  BY DEF ListInv
<1>4. CASE n = Len(s)
  <2>1. item = NULL
    BY <1>2, <1>4
  <2> QED
    BY <2>1 DEF list_remove, listvars
<1>5. CASE n < Len(s)
  <2>1. n + 1 \in 1 .. Len(s) /\ item = s[n + 1] /\ item \in Items /\ item # NULL
    BY <1>1, <1>2, <1>5
  <2>2. next[item] = IF n + 1 < Len(s) THEN s[(n + 1) + 1] ELSE NULL
    BY <1>2, <2>1
  <2>3. /\ next' = [next EXCEPT ![s[n]] = next[item], ![item] = NULL]
        /\ listctl' = [listctl EXCEPT ![l].count = @ - 1,
                                      ![l].tail = IF next[item] = NULL THEN s[n] ELSE @]
        /\ ret' = ret
    BY <2>1 DEF list_remove
  <2>4. next[item] = NULL <=> n + 1 = Len(s)
    <3>1. n + 1 < Len(s) => (n + 1) + 1 \in 1 .. Len(s)
      BY <1>1, <2>1
    <3> QED
      BY <1>1, <2>1, <2>2, <3>1
  <2>5. s[n] \in Items /\ s[n] # item /\ Len(s) - 1 \in Nat /\ next[item] \in Items \cup {NULL}
    <3>1. s[n] # s[n + 1]
      BY <1>1, <2>1 DEF Distinct
    <3> QED
      BY <1>1, <1>3, <1>5, <2>1, <3>1 DEF ListTypes
  <2> HIDE DEF item
  <2>6. /\ listctl' \in [Lists -> [count : Nat, head : Items \cup {NULL}, tail : Items \cup {NULL}]]
        /\ \A m \in Lists : m # l => listctl'[m] = listctl[m]
        /\ listctl'[l].count = Len(s) - 1
        /\ listctl'[l].head = listctl[l].head
        /\ listctl'[l].tail = IF n + 1 < Len(s) THEN listctl[l].tail ELSE s[n]
    <3>1. n + 1 < Len(s) <=> ~(next[item] = NULL)
      BY <1>1, <2>1, <2>4
    <3> QED
      BY <1>2, <1>3, <2>3, <2>5, <3>1 DEF ListTypes
  <2>7. /\ next' \in [Items -> Items \cup {NULL}]
        /\ next'[s[n]] = IF n + 1 < Len(s) THEN s[(n + 1) + 1] ELSE NULL
        /\ \A j \in Items : j # s[n + 1] /\ j # s[n] => next'[j] = next[j]
    BY <1>3, <2>1, <2>2, <2>3, <2>5 DEF ListTypes
  <2>8. ListInv' /\ S!Becomes(l, S!RemoveAt(s, n + 1))
    <3>1. n + 1 > 1 /\ (n + 1) - 1 = n
      OBVIOUS
    <3>2. ListTypes'
      BY <2>6, <2>7 DEF ListTypes
    <3> QED
      BY <2>1, <2>6, <2>7, <3>1, <3>2, ItemLeaves
  <2>9. n \in 1 .. Len(s) - 1
    BY <1>1, <1>5
  <2> QED
    BY <2>3, <2>8, <2>9 DEF S!LRemove
<1> QED
  BY <1>1, <1>4, <1>5

\* list_popfront.
LEMMA PopFrontIs ==
    ASSUME ListInv, NEW l \in Lists, list_popfront(l)
    PROVE  ListInv' /\ S!LPopFront(l)
<1> DEFINE s == Chain(l)
<1>1. /\ IsList(listctl[l], next, s) /\ s \in Seq(Items) /\ Len(s) \in Nat /\ Distinct(s)
      /\ list_empty(l) <=> s = << >>
      /\ \A m \in 1 .. Len(s) : s[m] \in Items /\ s[m] # NULL
  BY ListPlaces
<1>2. ListTypes
  BY DEF ListInv
<1>3. CASE s = << >>
  <2>1. ret' = NULL /\ UNCHANGED <<listctl, next>>
    BY <1>1, <1>3 DEF list_popfront
  <2> QED
    <3>1. ListInv' /\ UNCHANGED [m \in Lists |-> Chain(m)]
      BY <2>1, ListStays
    <3>2. [m \in Lists |-> Chain(m)][l] = << >>
      BY <1>3
    <3> QED
      BY <2>1, <3>1, <3>2 DEF S!LPopFront
<1>4. CASE s # << >>
  <2>1. /\ listctl[l].count = Len(s) /\ Len(s) > 0 /\ 1 \in 1 .. Len(s)
        /\ listctl[l].head = s[1] /\ listctl[l].tail = s[Len(s)]
        /\ next[s[1]] = IF 1 < Len(s) THEN s[2] ELSE NULL
    BY <1>1, <1>4 DEF IsList
  <2>2. /\ listctl' = [listctl EXCEPT ![l].count = @ - 1, ![l].head = next[s[1]]]
        /\ next' = [next EXCEPT ![s[1]] = NULL]
        /\ ret' = s[1]
    BY <1>1, <1>4, <2>1 DEF list_popfront
  <2>3. Len(s) - 1 \in Nat /\ s[1] \in Items /\ next[s[1]] \in Items \cup {NULL}
    BY <1>1, <1>2, <2>1 DEF ListTypes
  <2>4. /\ listctl' \in [Lists -> [count : Nat, head : Items \cup {NULL}, tail : Items \cup {NULL}]]
        /\ \A m \in Lists : m # l => listctl'[m] = listctl[m]
        /\ listctl'[l].count = Len(s) - 1
        /\ listctl'[l].head = IF Len(s) > 1 THEN s[2] ELSE NULL
        /\ listctl'[l].tail = listctl[l].tail
    BY <1>1, <1>2, <2>1, <2>2, <2>3 DEF ListTypes
  <2>5. /\ next' \in [Items -> Items \cup {NULL}]
        /\ \A j \in Items : j # s[1] => next'[j] = next[j]
    BY <1>2, <2>2, <2>3 DEF ListTypes
  <2>6. ListInv' /\ S!Becomes(l, S!RemoveAt(s, 1))
    <3>1. ListTypes' /\ (Len(s) > 1 => 1 < Len(s))
      BY <1>1, <2>4, <2>5 DEF ListTypes
    <3> QED
      BY <2>1, <2>4, <2>5, <3>1, ItemLeaves
  <2>7. Tail(s) = S!RemoveAt(s, 1)
    BY <1>1, <1>4, <2>3, Ends
  <2> QED
    <3>1. [m \in Lists |-> Chain(m)][l] = s /\ Head(s) = s[1]
      BY <1>1
    <3> HIDE DEF s
    <3> QED
      BY <1>4, <2>2, <2>6, <2>7, <3>1 DEF S!LPopFront
<1> QED
  BY <1>3, <1>4

\* Initially all lists are empty.
LEMMA ListInitHolds == ListInit => ListInv /\ S!LInit
<1> SUFFICES ASSUME ListInit PROVE ListInv /\ S!LInit
  OBVIOUS
<1>1. ListTypes
  BY DEF ListInit, ListTypes
<1>2. ASSUME NEW l \in Lists PROVE IsList(listctl[l], next, << >>) /\ Chain(l) = << >>
  <2>1. IsList(listctl[l], next, << >>)
    BY DEF ListInit, IsList, Distinct
  <2> QED
    BY <2>1, ChainIs DEF ChainsFollowLinks
<1>3. ListInv
  BY <1>1, <1>2 DEF ListInv
<1>4. S!LInit
  BY <1>2 DEF S!LInit, ListInit
<1> QED
  BY <1>3, <1>4

\* Every step is one of the sequences or none.
LEMMA ListStepRefines ==
    ListInv /\ [ListNext]_listvars => ListInv' /\ [S!LChange]_(S!lvars)
<1> SUFFICES ASSUME ListInv, [ListNext]_listvars
             PROVE  ListInv' /\ (S!LNext \/ UNCHANGED S!lvars)
  BY DEF S!LChange
<1>1. ASSUME UNCHANGED listvars PROVE ListInv' /\ UNCHANGED S!lvars
  BY <1>1, ListStays DEF listvars, S!lvars
<1>2. ASSUME NEW l \in Lists, NEW i \in Unlisted, list_pushfront(l, i) \/ list_pushback(l, i)
      PROVE  ListInv' /\ S!LNext
  BY <1>2, UnlistedIs, PushFrontIs, PushBackIs DEF S!LNext
<1>3. ASSUME NEW l \in Lists, list_popfront(l) PROVE ListInv' /\ S!LNext
  BY <1>3, PopFrontIs DEF S!LNext
<1>4. ASSUME NEW l \in Lists, NEW n \in DOMAIN Chain(l), list_remove(l, Chain(l)[n])
      PROVE  ListInv' /\ (S!LNext \/ UNCHANGED S!lvars)
  <2>1. n \in 1 .. Len(Chain(l))
    BY ListPlaces
  <2>2. CASE UNCHANGED listvars
    BY <1>1, <2>2
  <2>3. CASE ListInv' /\ n \in 1 .. Len(Chain(l)) - 1 /\ S!LRemove(l, n)
    <3>1. n \in 1 .. Len([m \in Lists |-> Chain(m)][l]) - 1
      BY <2>3
    <3> QED
      BY <2>3, <3>1 DEF S!LNext
  <2> QED
    BY <1>4, <2>1, <2>2, <2>3, RemoveIs
<1>5. ASSUME NEW l \in Lists, NEW n \in DOMAIN Chain(l), NEW i \in Unlisted,
             Chain(l)[n] # listctl[l].tail, list_insert(l, Chain(l)[n], i)
      PROVE  ListInv' /\ S!LNext
  <2>1. n \in 1 .. Len(Chain(l))
    BY ListPlaces
  <2>2. ListInv' /\ n \in 1 .. Len(Chain(l)) - 1 /\ S!LInsert(l, n, i)
    BY <1>5, <2>1, InsertIs
  <2>3. n \in 1 .. Len([m \in Lists |-> Chain(m)][l]) - 1 /\ i \in S!Unlisted
    BY <2>2, UnlistedIs
  <2> QED
    BY <2>2, <2>3 DEF S!LNext
<1> QED
  BY <1>1, <1>2, <1>3, <1>4, <1>5 DEF ListNext

\* In every reachable state the links of a list lead through as many items as it
\* counts, from its head to its tail, and no item is in two lists (list.c).
THEOREM ListInvariant == ListSpec => []ListInv
  BY ListInitHolds, ListStepRefines, PTL DEF ListSpec

\* The linked lists implement sequences, for any lists and items: every operation
\* changes one list, as the operation on sequences does, and no other, although
\* they share the links and list_popfront leaves a tail dangling (list.c:17-104).
THEOREM ListsImplementSequences == ListSpec => ListsAreSequences
  BY ListInitHolds, ListStepRefines, PTL DEF ListSpec, ListsAreSequences, S!LSpec

-----------------------------------------------------------------------------
(* The checksum, for every size of a byte and every length.                *)

\* Sums of any words exist.
LEMMA SumsExist ==
    ASSUME NEW n \in Nat, NEW w
    PROVE  \E f : f = [m \in 0 .. n |-> IF m = 0 THEN 0 ELSE f[m - 1] + w[m]]
<1> DEFINE Sums(f, k) == f = [m \in 0 .. k |-> IF m = 0 THEN 0 ELSE f[m - 1] + w[m]]
           T == {k \in Nat : ~ \E f : Sums(f, k)}
<1> SUFFICES T = {}
  <2>1. n \notin T
    OBVIOUS
  <2> QED
    BY <2>1
<1> SUFFICES ASSUME T # {} PROVE FALSE
  OBVIOUS
<1>1. PICK k \in T : \A m \in T : k <= m
  <2> HIDE DEF Sums
  <2>1. T \in SUBSET Nat
    OBVIOUS
  <2> HIDE DEF T
  <2> QED
    BY <2>1, LeastNat
<1>2. k \in Nat /\ ~ \E f : Sums(f, k)
  <2> HIDE DEF Sums
  <2> QED
    OBVIOUS
<1>3. CASE k = 0
  <2> DEFINE g == [m \in 0 .. 0 |-> 0]
  <2>1. Sums(g, 0)
    OBVIOUS
  <2> QED
    BY <1>2, <1>3, <2>1
<1>4. CASE k > 0
  <2>1. k - 1 \in Nat /\ k - 1 \notin T
    <3>1. k - 1 \in Nat /\ ~(k <= k - 1)
      BY <1>2, <1>4
    <3> HIDE DEF T
    <3> QED
      BY <1>1, <3>1
  <2>2. PICK f : Sums(f, k - 1)
    <3> HIDE DEF Sums
    <3> QED
      BY <2>1
  <2> DEFINE g == [m \in 0 .. k |-> IF m = k THEN f[k - 1] + w[k] ELSE f[m]]
  <2>3. \A m \in 0 .. k : g[m] = IF m = 0 THEN 0 ELSE g[m - 1] + w[m]
    <3> SUFFICES ASSUME NEW m \in 0 .. k PROVE g[m] = IF m = 0 THEN 0 ELSE g[m - 1] + w[m]
      OBVIOUS
    <3>1. CASE m = k
      <4>1. k - 1 \in 0 .. k /\ k - 1 # k
        BY <1>2, <1>4
      <4> QED
        BY <1>4, <3>1, <4>1
    <3>2. CASE m # k
      <4>1. m \in 0 .. k - 1
        BY <1>2, <3>2
      <4>2. f[m] = IF m = 0 THEN 0 ELSE f[m - 1] + w[m]
        BY <2>2, <4>1
      <4>3. m # 0 => m - 1 \in 0 .. k /\ m - 1 # k
        BY <1>2, <4>1
      <4> QED
        BY <3>2, <4>2, <4>3
    <3> QED
      BY <3>1, <3>2
  <2>4. Sums(g, k)
    <3> DEFINE h == [m \in 0 .. k |-> IF m = 0 THEN 0 ELSE g[m - 1] + w[m]]
    <3>1. \A m \in 0 .. k : g[m] = h[m]
      <4> HIDE DEF g
      <4> QED
        BY <2>3
    <3>2. g = h
      BY <3>1
    <3> HIDE DEF g
    <3> QED
      BY <3>2
  <2> QED
    BY <1>2, <2>4
<1> QED
  BY <1>2, <1>3, <1>4

\* The constants are numbers, and a word is two bytes.
LEMMA ChecksumConstants ==
    /\ BYTE \in Nat /\ BYTE > 1 /\ MaxLen \in Nat
    /\ WORD = BYTE * BYTE /\ WORD \in Nat /\ WORD > 1
<1>1. BYTE \in Nat /\ BYTE > 1 /\ MaxLen \in Nat
  BY ChecksumAssumption
<1>2. BYTE * BYTE \in Nat /\ BYTE * BYTE > 1
  BY <1>1
<1> QED
  BY <1>1, <1>2 DEF WORD

\* NetworkSum adds up the words.
LEMMA NetworkSums ==
    /\ NetworkSum[0] = 0
    /\ \A n \in 1 .. MaxLen : NetworkSum[n] = NetworkSum[n - 1] + NetworkWord(n)
<1> DEFINE w == [m \in 0 .. MaxLen |-> NetworkWord(m)]
           Step(f) == [m \in 0 .. MaxLen |-> IF m = 0 THEN 0 ELSE f[m - 1] + NetworkWord(m)]
<1>1. \E f : f = [m \in 0 .. MaxLen |-> IF m = 0 THEN 0 ELSE f[m - 1] + w[m]]
  <2> HIDE DEF w
  <2> QED
    BY ChecksumConstants, SumsExist
<1>2. \A f : [m \in 0 .. MaxLen |-> IF m = 0 THEN 0 ELSE f[m - 1] + w[m]] = Step(f)
  OBVIOUS
<1>3. \E f : f = Step(f)
  <2> HIDE DEF w, Step
  <2> QED
    BY <1>1, <1>2
<1>4. NetworkSum = CHOOSE f : f = Step(f)
  BY DEF NetworkSum
<1>5. NetworkSum = Step(NetworkSum)
  <2> HIDE DEF Step
  <2> QED
    BY <1>3, <1>4
<1>6. \A n \in 0 .. MaxLen : NetworkSum[n] = IF n = 0 THEN 0 ELSE NetworkSum[n - 1] + NetworkWord(n)
  <2> SUFFICES ASSUME NEW n \in 0 .. MaxLen
               PROVE  NetworkSum[n] = IF n = 0 THEN 0 ELSE NetworkSum[n - 1] + NetworkWord(n)
    OBVIOUS
  <2>1. Step(NetworkSum)[n] = IF n = 0 THEN 0 ELSE NetworkSum[n - 1] + NetworkWord(n)
    OBVIOUS
  <2> HIDE DEF Step
  <2> QED
    BY <1>5, <2>1
<1> QED
  BY <1>6, ChecksumConstants

Bytes == 0 .. BYTE - 1

\* The loop: sum is a word; in the byte order of the network it is the sum of the
\* words so far, up to a multiple of WORD - 1; and it is 0 only if all bytes were.
ChecksumInv ==
    /\ data \in Seq(Bytes) /\ Len(data) <= MaxLen
    /\ idx \in Nat /\ 2 * idx <= Len(data) + 1
    /\ sum \in 0 .. WORD - 1
    /\ \E q \in Int : NetworkSum[idx] = BYTE * sum - q * (WORD - 1)
    /\ sum = 0 => \A k \in 1 .. Len(data) : k <= 2 * idx => data[k] = 0

\* The carry of a sum of two words is added back by one fold.
LEMMA FoldedIs ==
    ASSUME NEW s \in Nat, s <= (WORD - 1) + (WORD - 1)
    PROVE  /\ Folded(s) \in 0 .. WORD - 1
           /\ \E c \in {0, 1} : Folded(s) = s - c * (WORD - 1)
           /\ Folded(s) = 0 => s = 0
<1>1. WORD \in Nat /\ WORD > 1
  BY ChecksumConstants
<1>2. CASE s < WORD
  <2>1. s \div WORD = 0
    BY <1>1, <1>2
  <2> QED
    BY <1>1, <1>2, <2>1 DEF Folded
<1>3. CASE ~(s < WORD)
  <2>1. s \div WORD = 1 /\ s % WORD = s - WORD
    BY <1>1, <1>3
  <2>2. Folded(s) = s - WORD + 1
    BY <2>1 DEF Folded
  <2> QED
    BY <1>1, <1>3, <2>2
<1> QED
  BY <1>2, <1>3

\* A number is a multiple and its remainder.
LEMMA DivMod ==
    ASSUME NEW d \in Nat, d > 0, NEW x \in Int
    PROVE  x = d * (x \div d) + (x % d) /\ x \div d \in Int /\ x % d \in Int
OBVIOUS


\* A multiple of d leaves no remainder.
LEMMA MultipleOf ==
    ASSUME NEW d \in Nat, d > 0, NEW q \in Int
    PROVE  (q * d) % d = 0
<1> DEFINE x == q * d
           r == x % d
           v == x \div d
<1>1. x \in Int
  OBVIOUS
<1>2. x = d * v + r /\ 0 <= r /\ r < d /\ v \in Int /\ r \in Int
  <2> HIDE DEF x
  <2> QED
    BY <1>1
<1> HIDE DEF r, v
<1>3. (q - v) * d = r
  BY <1>2
<1> DEFINE u == q - v
<1>4. u \in Int /\ u * d = r
  BY <1>2, <1>3
<1> HIDE DEF u
<1>5. u = 0
  <2>1. ASSUME u >= 1 PROVE FALSE
    <3>1. u * d >= d
      BY <1>4, <2>1
    <3> QED
      BY <1>2, <1>4, <3>1
  <2>2. ASSUME u <= -1 PROVE FALSE
    <3>1. u * d <= -d
      BY <1>4, <2>2
    <3> QED
      BY <1>2, <1>4, <3>1
  <2> QED
    BY <1>4, <2>1, <2>2
<1>6. r = 0
  BY <1>4, <1>5
<1> QED
  BY <1>6 DEF r

\* One word more, low byte a and high byte b.
LEMMA WordAdded ==
    ASSUME NEW a \in 0 .. BYTE - 1, NEW b \in 0 .. BYTE - 1,
           NEW s \in 0 .. WORD - 1, NEW N \in Int, NEW q \in Int,
           BYTE * s = N + q * (WORD - 1)
    PROVE  /\ Folded(s + (a + BYTE * b)) \in 0 .. WORD - 1
           /\ Folded(s + (a + BYTE * b)) = 0 => s = 0 /\ a = 0 /\ b = 0
           /\ \E p \in Int : BYTE * Folded(s + (a + BYTE * b)) = N + (BYTE * a + b) + p * (WORD - 1)
<1>1. BYTE \in Nat /\ BYTE > 1 /\ WORD = BYTE * BYTE /\ WORD \in Nat /\ WORD > 1
  BY ChecksumConstants
<1>2. a \in Nat /\ b \in Nat /\ a <= BYTE - 1 /\ b <= BYTE - 1 /\ s \in Nat /\ s <= WORD - 1
  BY <1>1
<1> DEFINE l == a + BYTE * b
<1>3. l \in Nat /\ l <= WORD - 1 /\ (l = 0 => a = 0 /\ b = 0)
  <2>1. BYTE * b \in Nat /\ BYTE * b <= BYTE * (BYTE - 1)
    BY <1>1, <1>2
  <2>2. BYTE * (BYTE - 1) = WORD - BYTE
    BY <1>1
  <2>3. b > 0 => BYTE * b > 0
    BY <1>1, <1>2
  <2> DEFINE m == BYTE * b
  <2>4. m \in Nat /\ m <= WORD - BYTE /\ (b > 0 => m > 0)
    BY <2>1, <2>2, <2>3
  <2> HIDE DEF m
  <2>5. a + m \in Nat /\ a + m <= WORD - 1 /\ (a + m = 0 => a = 0 /\ b = 0)
    BY <1>1, <1>2, <2>4
  <2> QED
    BY <2>5 DEF m
<1>4. BYTE * l = (BYTE * a + b) + b * (WORD - 1)
  BY <1>1, <1>2
<1> DEFINE n == BYTE * a + b
<1>5. n \in Int
  BY <1>1, <1>2
<1> HIDE DEF l, n
<1>6. PICK c \in {0, 1} : Folded(s + l) = (s + l) - c * (WORD - 1)
  BY <1>1, <1>2, <1>3, FoldedIs
<1>7. Folded(s + l) \in 0 .. WORD - 1 /\ (Folded(s + l) = 0 => s + l = 0)
  BY <1>1, <1>2, <1>3, FoldedIs
<1> DEFINE p == q + b - BYTE * c
<1>8. p \in Int
  BY <1>1, <1>2
<1>9. BYTE * Folded(s + l) = N + n + p * (WORD - 1)
  <2>1. BYTE * ((s + l) - c * (WORD - 1)) = BYTE * s + BYTE * l - (BYTE * c) * (WORD - 1)
    BY <1>1, <1>2, <1>3
  <2>2. BYTE * l = n + b * (WORD - 1)
    BY <1>4 DEF n
  <2>3. BYTE * Folded(s + l) = (N + q * (WORD - 1)) + (n + b * (WORD - 1)) - (BYTE * c) * (WORD - 1)
    BY <1>6, <2>1, <2>2
  <2>4. (N + q * (WORD - 1)) + (n + b * (WORD - 1)) - (BYTE * c) * (WORD - 1)
          = N + n + (q + b - BYTE * c) * (WORD - 1)
    BY <1>1, <1>2, <1>5
  <2> QED
    BY <2>3, <2>4
<1> HIDE DEF p
<1>10. \E p0 \in Int : BYTE * Folded(s + l) = N + n + p0 * (WORD - 1)
  BY <1>8, <1>9
<1> QED
  BY <1>2, <1>3, <1>7, <1>10 DEF l, n

\* The data and the words do not change.
LEMMA DataFixed ==
    data' = data => NetworkSum' = NetworkSum
  BY DEF NetworkSum, NetworkWord, ByteAt

\* The invariant holds at the start.
LEMMA ChecksumInitHolds == ChecksumInit => ChecksumInv
<1> SUFFICES ASSUME ChecksumInit PROVE ChecksumInv
  OBVIOUS
<1>1. BYTE \in Nat /\ BYTE > 1 /\ WORD \in Nat /\ WORD > 1 /\ MaxLen \in Nat
  BY ChecksumConstants
<1>2. PICK n \in 0 .. MaxLen : data \in [1 .. n -> Bytes]
  BY DEF ChecksumInit, Bytes
<1>3. data \in Seq(Bytes) /\ Len(data) = n
  <2>1. n \in Nat /\ DOMAIN data = 1 .. n
    BY <1>1, <1>2
  <2>2. data \in Seq(Bytes)
    BY <1>2, <2>1, SeqDef
  <2>3. Len(data) \in Nat /\ DOMAIN data = 1 .. Len(data)
    BY <2>2
  <2>4. 1 .. n = 1 .. Len(data) => n = Len(data)
    BY <2>1, <2>3
  <2> QED
    BY <2>1, <2>2, <2>3, <2>4
<1>4. idx = 0 /\ sum = 0
  BY DEF ChecksumInit
<1>5. NetworkSum[idx] = BYTE * sum - 0 * (WORD - 1)
  BY <1>1, <1>4, NetworkSums
<1>6. \E q \in Int : NetworkSum[idx] = BYTE * sum - q * (WORD - 1)
  BY <1>5
<1>7. 2 * idx <= Len(data) + 1 /\ sum \in 0 .. WORD - 1 /\ Len(data) <= MaxLen /\ idx \in Nat
  BY <1>1, <1>2, <1>3, <1>4
<1>8. \A k \in 1 .. Len(data) : ~(k <= 2 * idx)
  BY <1>3, <1>4
<1> QED
  BY <1>3, <1>6, <1>7, <1>8 DEF ChecksumInv

\* A word with the bytes 2 idx + 1 and 2 idx + 2 is added, the second one 0 if
\* there is none.
LEMMA WordKeeps ==
    ASSUME ChecksumInv, data' = data, idx' = idx + 1, 2 * idx < Len(data),
           sum' = Folded(sum + (ByteAt(2 * idx + 1) + BYTE * ByteAt(2 * idx + 2)))
    PROVE  ChecksumInv'
<1> DEFINE a == ByteAt(2 * idx + 1)
           b == ByteAt(2 * idx + 2)
<1>1. BYTE \in Nat /\ BYTE > 1 /\ WORD \in Nat /\ WORD > 1 /\ MaxLen \in Nat
  BY ChecksumConstants
<1>2. /\ data \in Seq(Bytes) /\ Len(data) <= MaxLen /\ Len(data) \in Nat
      /\ idx \in Nat /\ sum \in 0 .. WORD - 1
      /\ sum = 0 => \A k \in 1 .. Len(data) : k <= 2 * idx => data[k] = 0
  BY DEF ChecksumInv
<1>3. a \in Bytes /\ b \in Bytes
  <2>1. \A k \in 1 .. Len(data) : data[k] \in Bytes
    BY <1>2
  <2>2. \A k \in Nat : k >= 1 => ByteAt(k) \in Bytes
    <3>1. 0 \in Bytes
      BY <1>1 DEF Bytes
    <3>2. \A k \in Nat : k >= 1 /\ k <= Len(data) => k \in 1 .. Len(data)
      BY <1>2
    <3> QED
      BY <2>1, <3>1, <3>2 DEF ByteAt
  <2>3. 2 * idx + 1 \in Nat /\ 2 * idx + 1 >= 1 /\ 2 * idx + 2 \in Nat /\ 2 * idx + 2 >= 1
    BY <1>2
  <2> QED
    BY <2>2, <2>3
<1>4. idx + 1 \in 1 .. MaxLen /\ idx \in 0 .. MaxLen
  BY <1>1, <1>2
<1>5. NetworkSum[idx + 1] = NetworkSum[idx] + (BYTE * a + b)
  <2>1. NetworkWord(idx + 1) = BYTE * a + b
    <3>1. 2 * (idx + 1) - 1 = 2 * idx + 1 /\ 2 * (idx + 1) = 2 * idx + 2
      BY <1>2
    <3> QED
      BY <3>1 DEF NetworkWord
  <2>2. (idx + 1) - 1 = idx
    BY <1>2
  <2> QED
    BY <1>4, <2>1, <2>2, NetworkSums
<1>6. PICK q \in Int : NetworkSum[idx] = BYTE * sum - q * (WORD - 1)
  BY DEF ChecksumInv
<1> DEFINE N == BYTE * sum - q * (WORD - 1)
<1>7. N \in Int /\ BYTE * sum = N + q * (WORD - 1)
  BY <1>1, <1>2
<1>8. NetworkSum' = NetworkSum
  BY DataFixed
<1> HIDE DEF a, b, N
<1>9. /\ Folded(sum + (a + BYTE * b)) \in 0 .. WORD - 1
      /\ Folded(sum + (a + BYTE * b)) = 0 => sum = 0 /\ a = 0 /\ b = 0
      /\ \E p \in Int : BYTE * Folded(sum + (a + BYTE * b)) = N + (BYTE * a + b) + p * (WORD - 1)
  BY <1>2, <1>3, <1>7, WordAdded DEF Bytes
<1>10. sum' = Folded(sum + (a + BYTE * b))
  BY DEF a, b
<1>11. \E q0 \in Int : NetworkSum'[idx'] = BYTE * sum' - q0 * (WORD - 1)
  <2>1. PICK p \in Int : BYTE * sum' = N + (BYTE * a + b) + p * (WORD - 1)
    BY <1>9, <1>10
  <2>2. N = NetworkSum[idx]
    BY <1>6 DEF N
  <2>3. NetworkSum[idx + 1] = N + (BYTE * a + b)
    BY <1>5, <2>2
  <2>4. BYTE * a + b \in Int /\ BYTE * sum' \in Int /\ p * (WORD - 1) \in Int
    BY <1>1, <1>3, <1>9, <1>10 DEF Bytes
  <2> DEFINE m == BYTE * a + b
             x == BYTE * sum'
             y == p * (WORD - 1)
  <2>5. m \in Int /\ x \in Int /\ y \in Int /\ x = N + m + y /\ NetworkSum[idx + 1] = N + m
    BY <2>1, <2>3, <2>4
  <2> HIDE DEF m, x, y
  <2>6. NetworkSum[idx + 1] = x - y
    BY <1>7, <2>5
  <2> QED
    BY <1>8, <2>6 DEF x, y
<1>12. sum' = 0 => \A k \in 1 .. Len(data) : k <= 2 * (idx + 1) => data[k] = 0
  <2> SUFFICES ASSUME sum' = 0, NEW k \in 1 .. Len(data), k <= 2 * (idx + 1) PROVE data[k] = 0
    OBVIOUS
  <2>1. sum = 0 /\ a = 0 /\ b = 0
    BY <1>9, <1>10
  <2>2. CASE k <= 2 * idx
    BY <1>2, <2>1, <2>2
  <2>3. CASE k = 2 * idx + 1
    BY <2>1, <2>3 DEF a, ByteAt
  <2>4. CASE k = 2 * idx + 2
    BY <2>1, <2>4 DEF b, ByteAt
  <2> QED
    BY <1>2, <2>2, <2>3, <2>4
<1>13. idx' \in Nat /\ 2 * idx' <= Len(data) + 1
  BY <1>2
<1> QED
  BY <1>2, <1>9, <1>10, <1>11, <1>12, <1>13 DEF ChecksumInv

\* Every step of the loop keeps the invariant: AddOddByte adds a word whose
\* second byte is 0.
LEMMA ChecksumKeeps ==
    ASSUME ChecksumInv, [ChecksumNext]_sumvars
    PROVE  ChecksumInv'
<1>1. /\ data \in Seq(Bytes) /\ Len(data) \in Nat /\ idx \in Nat
      /\ BYTE \in Nat
  BY ChecksumConstants DEF ChecksumInv
<1>2. CASE AddWord
  <2>1. 2 * idx + 2 <= Len(data)
    BY <1>1, <1>2 DEF AddWord
  <2>2. ByteAt(2 * idx + 1) = data[2 * idx + 1] /\ ByteAt(2 * idx + 2) = data[2 * idx + 2]
    BY <1>1, <2>1 DEF ByteAt
  <2>3. sum' = Folded(sum + (ByteAt(2 * idx + 1) + BYTE * ByteAt(2 * idx + 2)))
    BY <1>2, <2>2 DEF AddWord, LoadWord
  <2>4. 2 * idx < Len(data)
    BY <1>1, <2>1
  <2> QED
    BY <1>2, <2>3, <2>4, WordKeeps DEF AddWord
<1>3. CASE AddOddByte
  <2>1. 2 * idx + 1 = Len(data)
    BY <1>1, <1>3 DEF AddOddByte
  <2>2. ByteAt(2 * idx + 1) = data[Len(data)] /\ ByteAt(2 * idx + 2) = 0
    BY <1>1, <2>1 DEF ByteAt
  <2>3. data[Len(data)] + BYTE * 0 = data[Len(data)]
    <3>1. Len(data) \in 1 .. Len(data)
      BY <1>1, <2>1
    <3>2. data[Len(data)] \in Bytes
      BY <1>1, <3>1
    <3>3. data[Len(data)] \in Int
      BY <1>1, <3>2 DEF Bytes
    <3> QED
      BY <1>1, <3>3
  <2>4. sum' = Folded(sum + (ByteAt(2 * idx + 1) + BYTE * ByteAt(2 * idx + 2)))
    BY <1>3, <2>2, <2>3 DEF AddOddByte
  <2>5. 2 * idx < Len(data)
    BY <1>1, <2>1
  <2> QED
    BY <1>3, <2>4, <2>5, WordKeeps DEF AddOddByte
<1>4. CASE UNCHANGED sumvars
  <2>1. data' = data /\ idx' = idx /\ sum' = sum /\ NetworkSum' = NetworkSum
    BY <1>4, DataFixed DEF sumvars
  <2> QED
    BY <2>1 DEF ChecksumInv
<1> QED
  BY <1>2, <1>3, <1>4 DEF ChecksumNext

\* The complement of sum, its bytes swapped, complements the sum of the words.
LEMMA ComplementAccepted ==
    ASSUME ChecksumInv
    PROVE  /\ (NetworkSum[idx] + reverse16(checksum)) % (WORD - 1) = 0
           /\ checksum = WORD - 1 => sum = 0
<1>1. BYTE \in Nat /\ BYTE > 1 /\ WORD = BYTE * BYTE /\ WORD \in Nat /\ WORD > 1
  BY ChecksumConstants
<1>2. sum \in 0 .. WORD - 1
  BY DEF ChecksumInv
<1>3. PICK q \in Int : NetworkSum[idx] = BYTE * sum - q * (WORD - 1)
  BY DEF ChecksumInv
<1>4. checksum = WORD - 1 - sum
  <2>1. sum % WORD = sum
    BY <1>1, <1>2
  <2> QED
    BY <2>1 DEF checksum
<1> DEFINE c == checksum
           h == c \div BYTE
           l == c % BYTE
<1>5. c \in Nat /\ c = WORD - 1 - sum
  BY <1>1, <1>2, <1>4
<1> HIDE DEF c
<1>6. c = BYTE * h + l /\ h \in Int /\ l \in Int
  <2>1. BYTE \in Nat /\ BYTE > 0 /\ c \in Int
    BY <1>1, <1>5
  <2> QED
    BY <2>1, DivMod
<1>7. reverse16(c) = h + BYTE * l
  BY DEF reverse16
<1> HIDE DEF h, l
<1>8. BYTE * c = reverse16(c) + h * (WORD - 1)
  <2>1. BYTE * (BYTE * h + l) = (h + BYTE * l) + h * (BYTE * BYTE - 1)
    BY <1>1, <1>6
  <2> QED
    BY <1>1, <1>6, <1>7, <2>1
<1>9. BYTE * c = BYTE * (WORD - 1) - BYTE * sum
  BY <1>1, <1>2, <1>5
<1> DEFINE n == NetworkSum[idx]
           m == reverse16(c)
           bs == BYTE * sum
           d == WORD - 1
           k == BYTE - q - h
<1>10. /\ n \in Int /\ m \in Int /\ bs \in Int /\ d \in Nat /\ d > 0 /\ h \in Int /\ k \in Int
       /\ n = bs - q * d /\ BYTE * d - bs = m + h * d
  BY <1>1, <1>2, <1>3, <1>5, <1>6, <1>7, <1>8, <1>9
<1> HIDE DEF n, m, bs, d
<1>11. n + m = k * d
  <2>1. BYTE \in Int /\ q \in Int
    BY <1>1
  <2>2. n + m = (bs - q * d) + (BYTE * d - bs - h * d)
    BY <1>10, <2>1
  <2>3. (bs - q * d) + (BYTE * d - bs - h * d) = (BYTE - q - h) * d
    BY <1>10, <2>1
  <2> QED
    BY <2>2, <2>3
<1>12. (n + m) % d = 0
  <2> HIDE DEF k
  <2>1. (k * d) % d = 0
    BY <1>10, MultipleOf
  <2> QED
    BY <1>11, <2>1
<1>13. c = WORD - 1 => sum = 0
  BY <1>1, <1>2, <1>5
<1> QED
  BY <1>12, <1>13 DEF c, n, m, d

\* Every stored checksum is accepted, for every size of a byte and every length,
\* although it was summed in the byte order of the machine and the carry folded
\* once per word (netutil.c:40-60).
THEOREM ChecksumAccepted == ChecksumSpec => []ReceiverAccepts
<1>1. ChecksumInv => ReceiverAccepts
  <2> SUFFICES ASSUME ChecksumInv, Finished
               PROVE  /\ (NetworkSum[idx] + reverse16(checksum)) % (WORD - 1) = 0
                      /\ checksum = WORD - 1 => \A k \in DOMAIN data : data[k] = 0
    BY DEF ReceiverAccepts
  <2>1. /\ data \in Seq(Bytes) /\ Len(data) \in Nat /\ idx \in Nat
        /\ sum = 0 => \A k \in 1 .. Len(data) : k <= 2 * idx => data[k] = 0
    BY DEF ChecksumInv
  <2>2. \A k \in 1 .. Len(data) : k <= 2 * idx
    BY <2>1 DEF Finished
  <2>3. DOMAIN data = 1 .. Len(data)
    BY <2>1
  <2> QED
    BY <2>1, <2>2, <2>3, ComplementAccepted
<1> QED
  BY <1>1, ChecksumInitHolds, ChecksumKeeps, PTL DEF ChecksumSpec

=============================================================================
