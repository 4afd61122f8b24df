----------------------------- MODULE R8169Proofs -----------------------------
(***************************************************************************)
(* The rings of the network driver, for rings of any size and any number   *)
(* of frames and packets: no received frame is lost, doubled or reordered  *)
(* behind the card's back; and, while one party at a time is in r8169_tx,  *)
(* descriptors are sent in the order they are given to the card.           *)
(***************************************************************************)
EXTENDS R8169, SequenceTheorems, TLAPS

\* An index that has gone round a ring of n descriptors once.
Wrap(x, n) == IF x < n THEN x ELSE x - n

-----------------------------------------------------------------------------
(* Receiving.                                                              *)

RxTypeOK ==
    /\ rx_ring \in [RxRing -> [own : BOOLEAN, size : Nat, frame : Nat]]
    /\ cur_rx \in RxRing /\ nic_rx \in RxRing
    /\ accepted \in Nat /\ wq \in Seq(Nat)

\* FramesConserved, with Wrap for the remainder.
RxStretch ==
    LET waiting == accepted - Len(wq)
    IN  /\ waiting \in 0 .. RX_RING_SIZE
        /\ nic_rx = Wrap(cur_rx + waiting, RX_RING_SIZE)
        /\ \A i \in 1 .. Len(wq) : wq[i] = i
        /\ \A k \in RxRing :
             LET d == rx_ring[Wrap(cur_rx + k, RX_RING_SIZE)]
             IN  IF k < waiting THEN ~d.own /\ d.frame = Len(wq) + k + 1
                 ELSE d.own

RxInv == RxTypeOK /\ RxStretch

-----------------------------------------------------------------------------
(* Sending.                                                                *)

Labels == {"idle", "copy", "give", "advance", "end"}

TxDesc == [own : BOOLEAN, end : BOOLEAN, len : Nat]

TxTypeOK ==
    /\ load \in Loads
    /\ tx_ring \in [TxRing -> TxDesc] /\ mem \in [{0} -> Nat]
    /\ cur_tx \in TxRing /\ nic_tx \in Nat
    /\ pc \in [Senders -> Labels] /\ desc \in [Senders -> TxRing] /\ pkt \in [Senders -> Nat]
    /\ npkt \in Nat /\ queued \in Seq(Nat) /\ sent \in Seq([len : Nat, data : Nat])

\* r8169_tx fills the descriptor at cur_tx, which the card does not own; the
\* packet is copied before the descriptor is given away; only the last
\* descriptor is marked as the end.
SenderInv ==
    /\ \A s \in Senders :
         /\ pc[s] # "idle" => s \in load.senders
         /\ pc[s] \in {"copy", "give", "advance"} => desc[s] = cur_tx
         /\ pc[s] \in {"copy", "give"} => ~tx_ring[cur_tx].own
         /\ pc[s] = "copy" => mem[0] <= pkt[s]
         /\ pc[s] = "give" => mem[0] = pkt[s]
         /\ pc[s] = "end" => desc[s] = TX_RING_SIZE - 1
         /\ pkt[s] <= npkt
    /\ mem[0] <= npkt
    /\ \A i \in 1 .. Len(queued) : queued[i] <= mem[0]
    /\ \A d \in TxRing : tx_ring[d].end => d = TX_RING_SIZE - 1

\* The place of the descriptor that is given to the card next.
NextPlace ==
    IF \E s \in Senders : pc[s] = "advance" THEN Wrap(cur_tx + 1, TX_RING_SIZE) ELSE cur_tx

\* The card owns the stretch of the ring between its place and the driver's, which
\* holds the packets it has not sent yet, in order.
TxStretch ==
    nic_tx \in TxRing =>
      LET owned == Len(queued) - Len(sent)
      IN  /\ owned \in 0 .. TX_RING_SIZE
          /\ NextPlace = Wrap(nic_tx + owned, TX_RING_SIZE)
          /\ \A i \in 1 .. Len(sent) : sent[i].len = queued[i] /\ sent[i].data >= sent[i].len
          /\ \A k \in TxRing :
               LET d == tx_ring[Wrap(nic_tx + k, TX_RING_SIZE)]
               IN  IF k < owned THEN d.own /\ d.len = queued[Len(sent) + k + 1]
                   ELSE ~d.own

TxInv == TxTypeOK /\ SenderInv /\ TxStretch

-----------------------------------------------------------------------------
\* The remainder of an index that is less than twice round.
LEMMA ModIsWrap ==
    ASSUME NEW n \in Nat \ {0}, NEW x \in Nat, x < n + n
    PROVE  x % n = Wrap(x, n) /\ Wrap(x, n) \in 0 .. n - 1
<1>1. CASE x < n
  BY <1>1 DEF Wrap
<1>2. CASE ~(x < n)
  BY <1>2 DEF Wrap
<1> QED
  BY <1>1, <1>2

\* Counting from the next place is counting one further.
LEMMA WrapNext ==
    ASSUME NEW n \in Nat \ {0}, NEW x \in 0 .. n - 1, NEW k \in 0 .. n - 1, k # n - 1
    PROVE  /\ k + 1 \in 0 .. n - 1
           /\ Wrap(Wrap(x + 1, n) + k, n) = Wrap(x + (k + 1), n)
           /\ Wrap(x + (k + 1), n) \in 0 .. n - 1
           /\ Wrap(x + (k + 1), n) # x
<1>1. k + 1 \in 0 .. n - 1
  OBVIOUS
<1>2. CASE x = n - 1
  BY <1>1, <1>2 DEF Wrap
<1>3. CASE x # n - 1 /\ x + (k + 1) < n
  BY <1>1, <1>3 DEF Wrap
<1>4. CASE x # n - 1 /\ ~(x + (k + 1) < n)
  BY <1>1, <1>4 DEF Wrap
<1> QED
  BY <1>1, <1>2, <1>3, <1>4

\* The receive ring has a descriptor.
LEMMA RxSize == RX_RING_SIZE \in Nat \ {0} /\ RX_RING_SIZE > 0
  BY R8169Assumption

\* FramesConserved and RxStretch say the same of a well-typed ring.
LEMMA StretchIsConserved ==
    ASSUME RxTypeOK
    PROVE  RxStretch <=> FramesConserved
<1> DEFINE waiting == accepted - Len(wq)
<1>1. \A k \in RxRing :
        (cur_rx + k) % RX_RING_SIZE = Wrap(cur_rx + k, RX_RING_SIZE)
  <2> TAKE k \in RxRing
  <2>1. cur_rx + k \in Nat /\ cur_rx + k < RX_RING_SIZE + RX_RING_SIZE
    BY RxSize DEF RxTypeOK, RxRing
  <2> QED
    BY <2>1, RxSize, ModIsWrap
<1>2. waiting \in 0 .. RX_RING_SIZE =>
        (cur_rx + waiting) % RX_RING_SIZE = Wrap(cur_rx + waiting, RX_RING_SIZE)
  <2> SUFFICES ASSUME waiting \in 0 .. RX_RING_SIZE
               PROVE  (cur_rx + waiting) % RX_RING_SIZE = Wrap(cur_rx + waiting, RX_RING_SIZE)
    OBVIOUS
  <2>1. cur_rx + waiting \in Nat /\ cur_rx + waiting < RX_RING_SIZE + RX_RING_SIZE
    <3> HIDE DEF waiting
    <3> QED
      BY RxSize DEF RxTypeOK, RxRing
  <2> QED
    BY <2>1, RxSize, ModIsWrap
<1> QED
  BY <1>1, <1>2 DEF RxStretch, FramesConserved, RxRing

\* A frame goes into the descriptor behind the waiting ones.
LEMMA ReceivesKeeps ==
    ASSUME RxInv, NEW len \in Frames, NicReceives(len)
    PROVE  RxInv'
<1> DEFINE N == RX_RING_SIZE
           waiting == accepted - Len(wq)
<1>1. N \in Nat /\ N > 0
  BY RxSize
<1>2. /\ cur_rx \in 0 .. N - 1 /\ nic_rx \in 0 .. N - 1 /\ accepted \in Nat
      /\ wq \in Seq(Nat) /\ Len(wq) \in Nat
      /\ waiting \in 0 .. N /\ nic_rx = Wrap(cur_rx + waiting, N)
  BY DEF RxInv, RxTypeOK, RxRing, RxStretch
<1>3. CASE ~(rx_ring[nic_rx].own /\ len <= rx_ring[nic_rx].size)
  <2>1. UNCHANGED <<rx_ring, cur_rx, nic_rx, accepted, wq>>
    BY <1>3 DEF NicReceives
  <2> QED
    BY <2>1 DEF RxInv, RxTypeOK, RxStretch
<1>4. CASE rx_ring[nic_rx].own /\ len <= rx_ring[nic_rx].size
  <2> DEFINE e == [own |-> FALSE, size |-> len, frame |-> accepted + 1]
  <2>1. /\ rx_ring' = [rx_ring EXCEPT ![nic_rx] = e]
        /\ nic_rx' = (nic_rx + 1) % N /\ accepted' = accepted + 1
        /\ cur_rx' = cur_rx /\ wq' = wq
    BY <1>4 DEF NicReceives
  <2>2. e \in [own : BOOLEAN, size : Nat, frame : Nat]
    BY <1>2, R8169Assumption
  <2>3. nic_rx' = Wrap(nic_rx + 1, N) /\ Wrap(nic_rx + 1, N) \in 0 .. N - 1
    <3>1. nic_rx + 1 \in Nat /\ nic_rx + 1 < N + N
      BY <1>1, <1>2
    <3> QED
      BY <2>1, <3>1, RxSize, ModIsWrap
  <2>4. RxTypeOK'
    BY <1>2, <2>1, <2>2, <2>3 DEF RxInv, RxTypeOK, RxRing
  <2>5. waiting < N
    <3> HIDE DEF waiting
    <3>1. SUFFICES ASSUME waiting = N PROVE FALSE
      BY <1>1, <1>2
    <3>2. nic_rx = cur_rx /\ Wrap(cur_rx + 0, N) = cur_rx /\ 0 \in RxRing /\ 0 < waiting
      BY <1>1, <1>2, <3>1 DEF Wrap, RxRing
    <3>3. ~rx_ring[Wrap(cur_rx + 0, N)].own
      BY <3>2 DEF RxInv, RxStretch, waiting
    <3> QED
      BY <1>4, <3>2, <3>3
  <2>6. (accepted' - Len(wq')) = waiting + 1 /\ waiting + 1 \in 0 .. N
    BY <1>1, <1>2, <2>1, <2>5
  <2>7. nic_rx' = Wrap(cur_rx + (waiting + 1), N)
    <3> HIDE DEF waiting
    <3> QED
      BY <1>1, <1>2, <2>3, <2>5 DEF Wrap
  <2>8. ASSUME NEW k \in RxRing
        PROVE  LET d == rx_ring'[Wrap(cur_rx + k, N)]
               IN  IF k < waiting + 1 THEN ~d.own /\ d.frame = Len(wq) + k + 1 ELSE d.own
    <3>1. Wrap(cur_rx + k, N) \in RxRing /\ (Wrap(cur_rx + k, N) = nic_rx <=> k = waiting)
      <4> HIDE DEF waiting
      <4> QED
        BY <1>1, <1>2, <2>5, <2>8 DEF Wrap, RxRing
    <3>2. CASE k = waiting
      <4>1. rx_ring'[Wrap(cur_rx + k, N)] = e
        BY <2>1, <3>1, <3>2 DEF RxInv, RxTypeOK
      <4>2. accepted + 1 = Len(wq) + k + 1 /\ k < waiting + 1
        BY <1>2, <3>2
      <4> QED
        BY <4>1, <4>2
    <3>3. CASE k # waiting
      <4>1. rx_ring'[Wrap(cur_rx + k, N)] = rx_ring[Wrap(cur_rx + k, N)]
        BY <2>1, <3>1, <3>3 DEF RxInv, RxTypeOK
      <4>2. k < waiting + 1 <=> k < waiting
        BY <1>2, <2>8, <3>3 DEF RxRing
      <4> HIDE DEF waiting
      <4>3. IF k < waiting THEN ~rx_ring[Wrap(cur_rx + k, N)].own
                                /\ rx_ring[Wrap(cur_rx + k, N)].frame = Len(wq) + k + 1
            ELSE rx_ring[Wrap(cur_rx + k, N)].own
        BY <2>8 DEF RxInv, RxStretch, waiting
      <4> QED
        BY <4>1, <4>2, <4>3
    <3> QED
      BY <3>2, <3>3
  <2>9. RxStretch'
    <3> HIDE DEF waiting
    <3> QED
      BY <2>1, <2>6, <2>7, <2>8 DEF RxInv, RxStretch
  <2> QED
    BY <2>4, <2>9 DEF RxInv
<1> QED
  BY <1>3, <1>4

\* receive_packet takes the first waiting frame and gives its descriptor back.
LEMMA ReceivePacketKeeps ==
    ASSUME RxInv, ReceivePacket
    PROVE  RxInv'
<1> DEFINE N == RX_RING_SIZE
           waiting == accepted - Len(wq)
<1>1. N \in Nat /\ N > 0
  BY RxSize
<1>2. /\ cur_rx \in 0 .. N - 1 /\ nic_rx \in 0 .. N - 1 /\ accepted \in Nat
      /\ wq \in Seq(Nat) /\ Len(wq) \in Nat
      /\ waiting \in 0 .. N /\ nic_rx = Wrap(cur_rx + waiting, N)
  BY DEF RxInv, RxTypeOK, RxRing, RxStretch
<1>3. CASE rx_ring[cur_rx].own
  <2>1. UNCHANGED <<rx_ring, cur_rx, nic_rx, accepted, wq>>
    BY <1>3 DEF ReceivePacket
  <2> QED
    BY <2>1 DEF RxInv, RxTypeOK, RxStretch
<1>4. CASE ~rx_ring[cur_rx].own
  <2> DEFINE e == [rx_ring[cur_rx] EXCEPT !.own = TRUE]
             f == rx_ring[cur_rx].frame
  <2>1. /\ rx_ring' = [rx_ring EXCEPT ![cur_rx] = e] /\ wq' = Append(wq, f)
        /\ cur_rx' = Wrap(cur_rx + 1, N)
        /\ nic_rx' = nic_rx /\ accepted' = accepted
    <3>1. cur_rx' = Wrap(cur_rx + 1, N)
      BY <1>1, <1>2, <1>4 DEF ReceivePacket, Wrap
    <3> QED
      BY <1>4, <3>1 DEF ReceivePacket, Rearmed
  <2>2. rx_ring[cur_rx] \in [own : BOOLEAN, size : Nat, frame : Nat]
    BY <1>2 DEF RxInv, RxTypeOK, RxRing
  <2>3. e \in [own : BOOLEAN, size : Nat, frame : Nat] /\ e.own /\ f \in Nat
    BY <2>2
  <2> HIDE DEF e, f
  <2>4. Wrap(cur_rx + 1, N) \in 0 .. N - 1
    BY <1>1, <1>2 DEF Wrap
  <2>5. /\ wq' \in Seq(Nat) /\ Len(wq') = Len(wq) + 1
        /\ \A i \in 1 .. Len(wq) : wq'[i] = wq[i]
        /\ wq'[Len(wq) + 1] = f
    BY <1>2, <2>1, <2>3, AppendProperties
  <2>6. RxTypeOK'
    BY <1>2, <2>1, <2>3, <2>4, <2>5 DEF RxInv, RxTypeOK, RxRing
  <2>7. waiting > 0 /\ f = Len(wq) + 1
    <3>1. Wrap(cur_rx + 0, N) = cur_rx /\ 0 \in RxRing
      BY <1>1, <1>2 DEF Wrap, RxRing
    <3>2. IF 0 < waiting THEN f = Len(wq) + 0 + 1 ELSE rx_ring[cur_rx].own
      BY <3>1 DEF RxInv, RxStretch, f
    <3> QED
      BY <1>2, <1>4, <3>2
  <2>8. (accepted' - Len(wq')) = waiting - 1 /\ waiting - 1 \in 0 .. N
    BY <1>1, <1>2, <2>1, <2>5, <2>7
  <2>9. nic_rx' = Wrap(Wrap(cur_rx + 1, N) + (waiting - 1), N)
    <3> HIDE DEF waiting
    <3> QED
      BY <1>1, <1>2, <2>1, <2>7 DEF Wrap
  <2>10. \A i \in 1 .. Len(wq) + 1 : wq'[i] = i
    <3> TAKE i \in 1 .. Len(wq) + 1
    <3>1. CASE i = Len(wq) + 1
      BY <2>5, <2>7, <3>1
    <3>2. CASE i \in 1 .. Len(wq)
      BY <2>5, <3>2 DEF RxInv, RxStretch
    <3> QED
      BY <1>2, <3>1, <3>2
  <2>11. ASSUME NEW k \in RxRing
         PROVE  LET d == rx_ring'[Wrap(Wrap(cur_rx + 1, N) + k, N)]
                IN  IF k < waiting - 1 THEN ~d.own /\ d.frame = Len(wq) + 1 + k + 1 ELSE d.own
    <3> DEFINE j == Wrap(Wrap(cur_rx + 1, N) + k, N)
    <3>1. CASE k = N - 1
      <4>1. j = cur_rx
        BY <1>1, <1>2, <3>1 DEF Wrap
      <4>2. rx_ring'[j] = e
        BY <1>2, <2>1, <4>1 DEF RxInv, RxTypeOK, RxRing
      <4>3. ~(k < waiting - 1)
        BY <1>1, <1>2, <3>1
      <4> QED
        BY <2>3, <4>2, <4>3
    <3>2. CASE k # N - 1
      <4>1. /\ k + 1 \in RxRing /\ j = Wrap(cur_rx + (k + 1), N) /\ j # cur_rx /\ j \in RxRing
        BY <1>1, <1>2, <2>11, <3>2 DEF Wrap, RxRing
      <4>2. rx_ring'[j] = rx_ring[j]
        BY <2>1, <4>1 DEF RxInv, RxTypeOK
      <4>3. IF k + 1 < waiting THEN ~rx_ring[j].own /\ rx_ring[j].frame = Len(wq) + (k + 1) + 1
            ELSE rx_ring[j].own
        BY <4>1 DEF RxInv, RxStretch
      <4>4. k + 1 < waiting <=> k < waiting - 1
        BY <1>2, <2>11 DEF RxRing
      <4>5. Len(wq) + (k + 1) + 1 = Len(wq) + 1 + k + 1
        BY <1>2, <2>11 DEF RxRing
      <4> HIDE DEF j, waiting
      <4> QED
        BY <4>2, <4>3, <4>4, <4>5 DEF j
    <3> QED
      BY <3>1, <3>2
  <2>12. RxStretch'
    <3> HIDE DEF waiting
    <3> QED
      BY <2>1, <2>5, <2>8, <2>9, <2>10, <2>11 DEF RxStretch
  <2> QED
    BY <2>6, <2>12 DEF RxInv
<1> QED
  BY <1>3, <1>4

\* Every frame the card accepted is handed over once and in order or waits in
\* the ring (FramesConserved), whatever the interleaving of the card, the
\* handler and the senders (r8169.c:134-166).
THEOREM FramesKept == R8169Spec => []FramesConserved
<1>1. R8169Init => RxInv
  <2> SUFFICES ASSUME R8169Init PROVE RxInv
    OBVIOUS
  <2> USE RxSize
  <2>1. [own |-> TRUE, size |-> RX_BUF_SIZE, frame |-> 0] \in [own : BOOLEAN, size : Nat, frame : Nat]
    BY R8169Assumption
  <2>2. RxTypeOK
    BY <2>1 DEF R8169Init, RxTypeOK, RxRing
  <2>3. Len(wq) = 0 /\ accepted = 0 /\ cur_rx = 0 /\ nic_rx = 0
    BY DEF R8169Init
  <2>4. \A k \in RxRing : Wrap(0 + k, RX_RING_SIZE) \in RxRing
    BY DEF Wrap, RxRing
  <2>5. \A k \in RxRing : rx_ring[Wrap(cur_rx + k, RX_RING_SIZE)].own /\ ~(k < 0)
    BY <2>3, <2>4 DEF R8169Init, RxRing
  <2>6. RxStretch
    BY <2>3, <2>5 DEF RxStretch, Wrap
  <2> QED
    BY <2>2, <2>6 DEF RxInv
<1>2. RxInv /\ [R8169Next]_vars => RxInv'
  <2> SUFFICES ASSUME RxInv, [R8169Next]_vars PROVE RxInv'
    OBVIOUS
  <2>1. CASE UNCHANGED rxvars
    BY <2>1 DEF rxvars, RxInv, RxTypeOK, RxStretch
  <2>2. CASE \E len \in Frames : NicReceives(len)
    BY <2>2, ReceivesKeeps
  <2>3. CASE ReceivePacket
    BY <2>3, ReceivePacketKeeps
  <2>4. CASE IntBegin \/ IntAck \/ NicSends
    BY <2>1, <2>4 DEF IntBegin, IntAck, NicSends
  <2>5. CASE \E s \in Senders : r8169_tx(s)
    BY <2>1, <2>5 DEF r8169_tx, TxBegin, TxCopy, TxGive, TxAdvance, TxRingEnd
  <2>6. CASE UNCHANGED vars
    BY <2>1, <2>6 DEF vars, rxvars
  <2> QED
    BY <2>2, <2>3, <2>4, <2>5, <2>6 DEF R8169Next
<1>3. RxInv => FramesConserved
  BY StretchIsConserved DEF RxInv
<1> QED
  BY <1>1, <1>2, <1>3, PTL DEF R8169Spec

-----------------------------------------------------------------------------
\* One party at a time is in r8169_tx.
OneSender == \A l \in Loads : \A s, t \in l.senders : s = t

\* The transmit ring has a descriptor.
LEMMA TxSize == TX_RING_SIZE \in Nat /\ TX_RING_SIZE > 0
  BY R8169Assumption

\* While a sender is in r8169_tx, or may enter it, the other is not.
LEMMA OthersIdle ==
    ASSUME TxInv, OneSender, NEW s \in Senders, s \in load.senders
    PROVE  \A t \in Senders : t # s => pc[t] = "idle"
<1> TAKE t \in Senders
<1>1. pc[t] # "idle" => t \in load.senders
  BY DEF TxInv, SenderInv
<1>2. load \in Loads
  BY DEF TxInv, TxTypeOK
<1> QED
  BY <1>1, <1>2 DEF OneSender

\* The card's stretch is kept by a step that touches neither the rings nor the
\* place of the next descriptor.
LEMMA StretchKept ==
    ASSUME TxInv, UNCHANGED <<queued, sent, nic_tx>>, NextPlace' = NextPlace,
           \A d \in TxRing : tx_ring'[d].own = tx_ring[d].own /\ tx_ring'[d].len = tx_ring[d].len
    PROVE  TxStretch'
<1> SUFFICES ASSUME nic_tx \in TxRing PROVE TxStretch'
  BY DEF TxStretch
<1>1. \A k \in TxRing : Wrap(nic_tx + k, TX_RING_SIZE) \in TxRing
  BY TxSize DEF Wrap, TxRing
<1> QED
  BY <1>1 DEF TxInv, TxStretch

\* r8169_tx begins: the packet is given up, or its descriptor chosen.
LEMMA TxBeginKeeps ==
    ASSUME TxInv, OneSender, NEW s \in Senders, TxBegin(s)
    PROVE  TxInv'
<1>1. /\ s \in load.senders /\ npkt' = npkt + 1 /\ pc[s] = "idle"
      /\ UNCHANGED <<load, tx_ring, mem, cur_tx, queued, nic_tx, sent>>
  BY DEF TxBegin, At
<1>2. \A t \in Senders : pc[t] = "idle"
  BY <1>1, OthersIdle
<1>3. TxTypeOK
  BY DEF TxInv
<1>4. CASE tx_ring[cur_tx].own
  <2>1. pc' = pc /\ desc' = desc /\ pkt' = pkt
    <3>1. pc' = [pc EXCEPT ![s] = "idle"] /\ desc' = desc /\ pkt' = pkt
      BY <1>4 DEF TxBegin, At
    <3> QED
      BY <1>1, <1>3, <3>1 DEF TxTypeOK
  <2>2. TxTypeOK'
    BY <1>1, <1>3, <2>1 DEF TxTypeOK
  <2>3. SenderInv'
    BY <1>1, <1>2, <1>3, <2>1 DEF TxInv, SenderInv, TxTypeOK
  <2>4. NextPlace' = NextPlace
    BY <1>1, <2>1 DEF NextPlace
  <2> QED
    BY <1>1, <2>2, <2>3, <2>4, StretchKept DEF TxInv
<1>5. CASE ~tx_ring[cur_tx].own
  <2>1. /\ pc' = [pc EXCEPT ![s] = "copy"] /\ desc' = [desc EXCEPT ![s] = cur_tx]
        /\ pkt' = [pkt EXCEPT ![s] = npkt + 1]
    BY <1>5 DEF TxBegin, At
  <2>2. TxTypeOK'
    BY <1>1, <1>3, <2>1 DEF TxTypeOK, Labels
  <2>3. /\ pc'[s] = "copy" /\ desc'[s] = cur_tx /\ pkt'[s] = npkt + 1
        /\ \A t \in Senders : t # s => pc'[t] = "idle" /\ pkt'[t] = pkt[t]
    BY <1>2, <1>3, <2>1 DEF TxTypeOK
  <2>4. SenderInv'
    <3>1. mem[0] \in Nat /\ npkt \in Nat /\ mem[0] <= npkt /\ \A t \in Senders : pkt[t] \in Nat
      BY <1>3 DEF TxInv, SenderInv, TxTypeOK
    <3> QED
      BY <1>1, <1>5, <2>3, <3>1 DEF TxInv, SenderInv
  <2>5. NextPlace' = NextPlace
    BY <1>1, <1>2, <2>3 DEF NextPlace
  <2> QED
    BY <1>1, <2>2, <2>4, <2>5, StretchKept DEF TxInv
<1> QED
  BY <1>4, <1>5

\* The packet is copied into the one buffer.
LEMMA TxCopyKeeps ==
    ASSUME TxInv, OneSender, NEW s \in Senders, TxCopy(s)
    PROVE  TxInv'
<1>1. /\ pc[s] = "copy" /\ pc' = [pc EXCEPT ![s] = "give"] /\ mem' = [mem EXCEPT ![0] = pkt[s]]
      /\ UNCHANGED <<load, tx_ring, cur_tx, desc, pkt, npkt, queued, nic_tx, sent>>
  BY DEF TxCopy, At, BufAddr
<1>2. TxTypeOK /\ SenderInv /\ s \in load.senders
  BY <1>1 DEF TxInv, SenderInv
<1>3. \A t \in Senders : t # s => pc[t] = "idle"
  BY <1>2, OthersIdle
<1>4. /\ pc'[s] = "give" /\ mem'[0] = pkt[s] /\ \A t \in Senders : t # s => pc'[t] = "idle"
  BY <1>1, <1>2, <1>3 DEF TxTypeOK
<1>5. TxTypeOK'
  BY <1>1, <1>2 DEF TxTypeOK, Labels
<1>6. SenderInv'
  <2>1. /\ mem[0] \in Nat /\ pkt[s] \in Nat /\ npkt \in Nat /\ mem[0] <= pkt[s] /\ pkt[s] <= npkt
        /\ \A i \in 1 .. Len(queued) : queued[i] \in Nat /\ queued[i] <= mem[0]
    BY <1>1, <1>2 DEF SenderInv, TxTypeOK
  <2>2. \A i \in 1 .. Len(queued) : queued[i] <= pkt[s]
    BY <2>1
  <2> QED
    BY <1>1, <1>2, <1>4, <2>1, <2>2 DEF SenderInv
<1>7. NextPlace' = NextPlace
  BY <1>1, <1>3, <1>4 DEF NextPlace
<1> QED
  BY <1>1, <1>5, <1>6, <1>7, StretchKept DEF TxInv

\* The descriptor is given to the card: its stretch grows by one.
LEMMA TxGiveKeeps ==
    ASSUME TxInv, OneSender, NEW s \in Senders, TxGive(s)
    PROVE  TxInv'
<1> DEFINE N == TX_RING_SIZE
           e == [own |-> TRUE, end |-> FALSE, len |-> pkt[s]]
<1>1. /\ pc[s] = "give" /\ pc' = [pc EXCEPT ![s] = "advance"]
      /\ queued' = Append(queued, pkt[s])
      /\ tx_ring' = [tx_ring EXCEPT ![desc[s]] = e]
      /\ UNCHANGED <<load, mem, cur_tx, desc, pkt, npkt, nic_tx, sent>>
  BY DEF TxGive, At
<1>2. TxTypeOK /\ SenderInv /\ s \in load.senders
  BY <1>1 DEF TxInv, SenderInv
<1>3. \A t \in Senders : t # s => pc[t] = "idle"
  BY <1>2, OthersIdle
<1>4. pc'[s] = "advance" /\ \A t \in Senders : t # s => pc'[t] = "idle"
  BY <1>1, <1>2, <1>3 DEF TxTypeOK
<1>5. /\ desc[s] = cur_tx /\ cur_tx \in TxRing /\ ~tx_ring[cur_tx].own
      /\ pkt[s] \in Nat /\ mem[0] = pkt[s]
  BY <1>1, <1>2 DEF SenderInv, TxTypeOK
<1>6. /\ queued' \in Seq(Nat) /\ Len(queued') = Len(queued) + 1 /\ Len(queued) \in Nat
      /\ \A i \in 1 .. Len(queued) : queued'[i] = queued[i]
      /\ queued'[Len(queued) + 1] = pkt[s]
  BY <1>1, <1>2, <1>5, AppendProperties, LenProperties DEF TxTypeOK
<1>7. e \in TxDesc /\ e.own /\ ~e.end /\ e.len = pkt[s]
  BY <1>5 DEF TxDesc
<1> HIDE DEF e
<1>8. /\ tx_ring' \in [TxRing -> TxDesc] /\ tx_ring'[cur_tx] = e
      /\ \A d \in TxRing : d # cur_tx => tx_ring'[d] = tx_ring[d]
  BY <1>1, <1>2, <1>5, <1>7 DEF TxTypeOK
<1>9. TxTypeOK'
  BY <1>1, <1>2, <1>6, <1>8 DEF TxTypeOK, Labels
<1>10. SenderInv'
  <2>1. \A i \in 1 .. Len(queued') : queued'[i] <= mem[0]
    <3> TAKE i \in 1 .. Len(queued')
    <3>1. CASE i = Len(queued) + 1
      BY <1>5, <1>6, <3>1
    <3>2. CASE i \in 1 .. Len(queued)
      BY <1>2, <1>6, <3>2 DEF SenderInv
    <3> QED
      BY <1>6, <3>1, <3>2
  <2>2. \A d \in TxRing : tx_ring'[d].end => d = TX_RING_SIZE - 1
    BY <1>2, <1>7, <1>8 DEF SenderInv
  <2> QED
    BY <1>1, <1>2, <1>4, <1>5, <2>1, <2>2 DEF SenderInv
<1>11. ASSUME nic_tx \in TxRing PROVE TxStretch'
  <2> DEFINE owned == Len(queued) - Len(sent)
  <2>1. /\ owned \in 0 .. N /\ cur_tx = Wrap(nic_tx + owned, N)
        /\ sent \in Seq([len : Nat, data : Nat]) /\ Len(sent) \in Nat
    <3>1. NextPlace = cur_tx
      BY <1>1, <1>3 DEF NextPlace
    <3> QED
      BY <1>2, <1>11, <3>1, LenProperties DEF TxInv, TxStretch, TxTypeOK
  <2>2. \A k \in TxRing :
          IF k < owned THEN /\ tx_ring[Wrap(nic_tx + k, N)].own
                            /\ tx_ring[Wrap(nic_tx + k, N)].len = queued[Len(sent) + k + 1]
          ELSE ~tx_ring[Wrap(nic_tx + k, N)].own
    BY <1>11 DEF TxInv, TxStretch
  <2>3. Len(queued') - Len(sent) = owned + 1 /\ owned = Len(queued) - Len(sent)
    BY <1>6, <2>1
  <2> HIDE DEF owned
  <2>4. owned < N
    <3>1. SUFFICES ASSUME owned = N PROVE FALSE
      BY <2>1, TxSize
    <3>2. Wrap(nic_tx + 0, N) = cur_tx /\ 0 \in TxRing /\ 0 < owned
      BY <1>11, <2>1, <3>1, TxSize DEF Wrap, TxRing
    <3> QED
      BY <1>5, <2>2, <3>2
  <2>5. owned + 1 \in 0 .. N
    BY <2>1, <2>4, TxSize
  <2>6. NextPlace' = Wrap(nic_tx + (owned + 1), N)
    <3>1. NextPlace' = Wrap(cur_tx + 1, N)
      BY <1>1, <1>4 DEF NextPlace
    <3> QED
      BY <1>11, <2>1, <2>4, <3>1, TxSize DEF Wrap, TxRing
  <2>7. \A i \in 1 .. Len(sent) : i \in 1 .. Len(queued)
    BY <1>6, <2>1, <2>3
  <2>8. \A i \in 1 .. Len(sent) : sent[i].len = queued'[i] /\ sent[i].data >= sent[i].len
    BY <1>6, <1>11, <2>7 DEF TxInv, TxStretch
  <2>9. ASSUME NEW k \in TxRing
        PROVE  IF k < owned + 1
               THEN /\ tx_ring'[Wrap(nic_tx + k, N)].own
                    /\ tx_ring'[Wrap(nic_tx + k, N)].len = queued'[Len(sent) + k + 1]
               ELSE ~tx_ring'[Wrap(nic_tx + k, N)].own
    <3>1. Wrap(nic_tx + k, N) \in TxRing /\ (Wrap(nic_tx + k, N) = cur_tx <=> k = owned)
      BY <1>11, <2>1, <2>4, <2>9, TxSize DEF Wrap, TxRing
    <3>2. CASE k = owned
      <4>1. Len(sent) + k + 1 = Len(queued) + 1 /\ k < owned + 1
        BY <1>6, <2>1, <2>3, <3>2
      <4> QED
        BY <1>6, <1>7, <1>8, <3>1, <3>2, <4>1
    <3>3. CASE k # owned
      <4>1. tx_ring'[Wrap(nic_tx + k, N)] = tx_ring[Wrap(nic_tx + k, N)]
        BY <1>8, <3>1, <3>3
      <4>2. k < owned + 1 <=> k < owned
        BY <2>1, <2>9, <3>3, TxSize DEF TxRing
      <4>3. k < owned => Len(sent) + k + 1 \in 1 .. Len(queued)
        BY <1>6, <2>1, <2>3, <2>9, TxSize DEF TxRing
      <4> QED
        BY <1>6, <2>2, <2>9, <4>1, <4>2, <4>3
    <3> QED
      BY <3>2, <3>3
  <2> QED
    BY <1>1, <2>3, <2>5, <2>6, <2>8, <2>9 DEF TxStretch
<1>12. TxStretch'
  <2>1. CASE nic_tx \in TxRing
    BY <1>11, <2>1
  <2>2. CASE nic_tx \notin TxRing
    BY <1>1, <2>2 DEF TxStretch
  <2> QED
    BY <2>1, <2>2
<1> QED
  BY <1>9, <1>10, <1>12 DEF TxInv

\* cur_tx advances past the descriptor just given away.
LEMMA TxAdvanceKeeps ==
    ASSUME TxInv, OneSender, NEW s \in Senders, TxAdvance(s)
    PROVE  TxInv'
<1> DEFINE N == TX_RING_SIZE
           l == IF cur_tx + 1 >= N THEN "end" ELSE "idle"
<1>1. /\ pc[s] = "advance" /\ pc' = [pc EXCEPT ![s] = l]
      /\ cur_tx' = IF cur_tx + 1 >= N THEN cur_tx + 1 - N ELSE cur_tx + 1
      /\ UNCHANGED <<load, tx_ring, mem, desc, pkt, npkt, queued, nic_tx, sent>>
  BY DEF TxAdvance, At
<1>2. TxTypeOK /\ SenderInv /\ s \in load.senders
  BY <1>1 DEF TxInv, SenderInv
<1>3. \A t \in Senders : t # s => pc[t] = "idle"
  BY <1>2, OthersIdle
<1>4. /\ pc'[s] = l /\ l \in {"end", "idle"} /\ \A t \in Senders : t # s => pc'[t] = "idle"
  BY <1>1, <1>2, <1>3 DEF TxTypeOK
<1>5. /\ desc[s] = cur_tx /\ cur_tx \in TxRing
      /\ cur_tx' = Wrap(cur_tx + 1, N) /\ cur_tx' \in TxRing
      /\ l = "end" => cur_tx = N - 1
  <2>1. desc[s] = cur_tx /\ cur_tx \in TxRing
    BY <1>1, <1>2 DEF SenderInv, TxTypeOK
  <2>2. cur_tx \in 0 .. N - 1 /\ N \in Nat \ {0}
    BY <2>1, TxSize DEF TxRing
  <2>3. cur_tx + 1 >= N <=> cur_tx = N - 1
    BY <2>2
  <2>4. cur_tx' = IF cur_tx = N - 1 THEN 0 ELSE cur_tx + 1
    BY <1>1, <2>2, <2>3
  <2>5. cur_tx' = Wrap(cur_tx + 1, N) /\ cur_tx' \in 0 .. N - 1
    BY <2>2, <2>4 DEF Wrap
  <2> QED
    BY <2>1, <2>3, <2>5 DEF TxRing
<1> HIDE DEF l
<1>6. TxTypeOK'
  BY <1>1, <1>2, <1>4, <1>5 DEF TxTypeOK, Labels
<1>7. SenderInv'
  BY <1>1, <1>2, <1>4, <1>5 DEF SenderInv
<1>8. NextPlace' = NextPlace
  BY <1>1, <1>4, <1>5 DEF NextPlace
<1> QED
  BY <1>1, <1>6, <1>7, <1>8, StretchKept DEF TxInv

\* The last descriptor is marked.
LEMMA TxRingEndKeeps ==
    ASSUME TxInv, OneSender, NEW s \in Senders, TxRingEnd(s)
    PROVE  TxInv'
<1>1. /\ pc[s] = "end" /\ pc' = [pc EXCEPT ![s] = "idle"]
      /\ tx_ring' = [tx_ring EXCEPT ![desc[s]].end = TRUE]
      /\ UNCHANGED <<load, mem, cur_tx, desc, pkt, npkt, queued, nic_tx, sent>>
  BY DEF TxRingEnd, At
<1>2. TxTypeOK /\ SenderInv /\ s \in load.senders
  BY <1>1 DEF TxInv, SenderInv
<1>3. \A t \in Senders : t # s => pc[t] = "idle"
  BY <1>2, OthersIdle
<1>4. \A t \in Senders : pc'[t] = "idle"
  BY <1>1, <1>2, <1>3 DEF TxTypeOK
<1>5. /\ desc[s] = TX_RING_SIZE - 1 /\ desc[s] \in TxRing
  BY <1>1, <1>2 DEF SenderInv, TxTypeOK
<1>6. /\ tx_ring' \in [TxRing -> TxDesc]
      /\ \A d \in TxRing : tx_ring'[d].own = tx_ring[d].own /\ tx_ring'[d].len = tx_ring[d].len
      /\ \A d \in TxRing : tx_ring'[d].end => tx_ring[d].end \/ d = desc[s]
  BY <1>1, <1>2, <1>5 DEF TxTypeOK, TxDesc
<1>7. TxTypeOK'
  BY <1>1, <1>2, <1>6 DEF TxTypeOK, Labels
<1>8. SenderInv'
  BY <1>1, <1>2, <1>4, <1>5, <1>6 DEF SenderInv, TxTypeOK
<1>9. NextPlace' = NextPlace
  BY <1>1, <1>3, <1>4 DEF NextPlace
<1> QED
  BY <1>1, <1>6, <1>7, <1>8, <1>9, StretchKept DEF TxInv

\* The card sends the first packet of its stretch.
LEMMA NicSendsKeeps ==
    ASSUME TxInv, NicSends
    PROVE  TxInv'
<1> DEFINE N == TX_RING_SIZE
           e == [len |-> tx_ring[nic_tx].len, data |-> mem[0]]
           owned == Len(queued) - Len(sent)
<1>1. /\ nic_tx \in TxRing /\ tx_ring[nic_tx].own /\ sent' = Append(sent, e)
      /\ tx_ring' = [tx_ring EXCEPT ![nic_tx].own = FALSE]
      /\ nic_tx' = IF tx_ring[nic_tx].end THEN 0 ELSE nic_tx + 1
      /\ UNCHANGED <<load, mem, cur_tx, pc, desc, pkt, npkt, queued>>
  BY DEF NicSends, BufAddr
<1>2. TxTypeOK /\ SenderInv /\ TxStretch
  BY DEF TxInv
<1>3. /\ tx_ring' \in [TxRing -> TxDesc] /\ ~tx_ring'[nic_tx].own
      /\ \A d \in TxRing : d # nic_tx => tx_ring'[d] = tx_ring[d]
      /\ \A d \in TxRing : tx_ring'[d].own => tx_ring[d].own
      /\ \A d \in TxRing : tx_ring'[d].end = tx_ring[d].end
  BY <1>1, <1>2 DEF TxTypeOK, TxDesc
<1>4. e \in [len : Nat, data : Nat] /\ e.len = tx_ring[nic_tx].len /\ e.data = mem[0]
  BY <1>1, <1>2 DEF TxTypeOK, TxDesc
<1> HIDE DEF e
<1>5. /\ sent' \in Seq([len : Nat, data : Nat]) /\ Len(sent') = Len(sent) + 1
      /\ Len(sent) \in Nat /\ Len(queued) \in Nat
      /\ \A i \in 1 .. Len(sent) : sent'[i] = sent[i]
      /\ sent'[Len(sent) + 1] = e
  BY <1>1, <1>2, <1>4, AppendProperties, LenProperties DEF TxTypeOK
<1>6. TxTypeOK'
  <2>1. nic_tx' \in Nat
    BY <1>1 DEF TxRing
  <2> QED
    BY <1>1, <1>2, <1>3, <1>5, <2>1 DEF TxTypeOK
<1>7. SenderInv'
  BY <1>1, <1>2, <1>3 DEF SenderInv, TxTypeOK
<1>8. ASSUME nic_tx' \in TxRing PROVE TxStretch'
  <2>1. /\ owned \in 0 .. N /\ NextPlace = Wrap(nic_tx + owned, N)
        /\ \A i \in 1 .. Len(sent) : sent[i].len = queued[i] /\ sent[i].data >= sent[i].len
    BY <1>1, <1>2 DEF TxStretch
  <2>2. \A k \in TxRing :
          IF k < owned THEN /\ tx_ring[Wrap(nic_tx + k, N)].own
                            /\ tx_ring[Wrap(nic_tx + k, N)].len = queued[Len(sent) + k + 1]
          ELSE ~tx_ring[Wrap(nic_tx + k, N)].own
    BY <1>1, <1>2 DEF TxStretch
  <2>3. Len(queued') - Len(sent') = owned - 1 /\ owned = Len(queued) - Len(sent)
    BY <1>1, <1>5
  <2> HIDE DEF owned
  <2>4. owned > 0 /\ e.len = queued[Len(sent) + 1]
    <3>1. Wrap(nic_tx + 0, N) = nic_tx /\ 0 \in TxRing
      BY <1>1, TxSize DEF Wrap, TxRing
    <3>2. Len(sent) + 0 + 1 = Len(sent) + 1
      BY <1>5
    <3> QED
      BY <1>1, <1>4, <2>1, <2>2, <3>1, <3>2
  <2>5. owned - 1 \in 0 .. N
    BY <2>1, <2>4, TxSize
  <2>6. nic_tx' = Wrap(nic_tx + 1, N)
    BY <1>1, <1>2, <1>8, TxSize DEF SenderInv, Wrap, TxRing
  <2>7. NextPlace' = Wrap(nic_tx' + (owned - 1), N)
    <3>1. NextPlace' = NextPlace
      BY <1>1 DEF NextPlace
    <3> QED
      BY <1>1, <2>1, <2>4, <2>6, <3>1, TxSize DEF Wrap, TxRing
  <2>8. \A i \in 1 .. Len(sent') : sent'[i].len = queued[i] /\ sent'[i].data >= sent'[i].len
    <3> TAKE i \in 1 .. Len(sent')
    <3>1. CASE i = Len(sent) + 1
      <4>1. Len(sent) + 1 \in 1 .. Len(queued)
        BY <1>5, <2>1, <2>3, <2>4, TxSize
      <4>2. queued[Len(sent) + 1] <= mem[0] /\ queued[Len(sent) + 1] \in Nat /\ mem[0] \in Nat
        BY <1>2, <4>1 DEF SenderInv, TxTypeOK
      <4> QED
        BY <1>4, <1>5, <2>4, <3>1, <4>2
    <3>2. CASE i \in 1 .. Len(sent)
      BY <1>5, <2>1, <3>2
    <3> QED
      BY <1>5, <3>1, <3>2
  <2>9. ASSUME NEW k \in TxRing
        PROVE  IF k < owned - 1
               THEN /\ tx_ring'[Wrap(nic_tx' + k, N)].own
                    /\ tx_ring'[Wrap(nic_tx' + k, N)].len = queued[Len(sent') + k + 1]
               ELSE ~tx_ring'[Wrap(nic_tx' + k, N)].own
    <3>1. CASE k = N - 1
      <4>1. Wrap(nic_tx' + k, N) = nic_tx
        BY <1>1, <2>6, <3>1, TxSize DEF Wrap, TxRing
      <4>2. ~(k < owned - 1)
        BY <2>1, <3>1, TxSize
      <4> QED
        BY <1>3, <4>1, <4>2
    <3>2. CASE k # N - 1
      <4>1. /\ k + 1 \in TxRing /\ Wrap(nic_tx' + k, N) = Wrap(nic_tx + (k + 1), N)
            /\ Wrap(nic_tx' + k, N) # nic_tx /\ Wrap(nic_tx' + k, N) \in TxRing
        <5>1. nic_tx \in 0 .. N - 1 /\ k \in 0 .. N - 1 /\ N \in Nat \ {0}
          BY <1>1, <2>9, TxSize DEF TxRing
        <5> HIDE DEF N
        <5>2. /\ k + 1 \in 0 .. N - 1
              /\ Wrap(Wrap(nic_tx + 1, N) + k, N) = Wrap(nic_tx + (k + 1), N)
              /\ Wrap(nic_tx + (k + 1), N) \in 0 .. N - 1
              /\ Wrap(nic_tx + (k + 1), N) # nic_tx
          BY <3>2, <5>1, WrapNext
        <5>3. TxRing = 0 .. N - 1
          BY DEF TxRing, N
        <5> QED
          BY <2>6, <5>2, <5>3
      <4>2. k + 1 < owned <=> k < owned - 1
        BY <2>1, <2>9, TxSize DEF TxRing
      <4>3. Len(sent) + (k + 1) + 1 = Len(sent') + k + 1
        BY <1>5, <2>9 DEF TxRing
      <4>4. tx_ring'[Wrap(nic_tx' + k, N)] = tx_ring[Wrap(nic_tx + (k + 1), N)]
        BY <1>3, <4>1
      <4> QED
        BY <2>2, <4>1, <4>2, <4>3, <4>4
    <3> QED
      BY <3>1, <3>2
  <2> QED
    BY <1>1, <2>3, <2>5, <2>7, <2>8, <2>9 DEF TxStretch
<1>9. TxStretch'
  <2>1. CASE nic_tx' \in TxRing
    BY <1>8, <2>1
  <2>2. CASE nic_tx' \notin TxRing
    BY <2>2 DEF TxStretch
  <2> QED
    BY <2>1, <2>2
<1> QED
  BY <1>6, <1>7, <1>9 DEF TxInv

\* Receiving does not touch the transmit ring.
LEMMA TxUntouched ==
    ASSUME TxInv, UNCHANGED <<load, tx_ring, mem, cur_tx, pc, desc, pkt, npkt, queued, nic_tx, sent>>
    PROVE  TxInv'
<1>1. TxTypeOK' /\ SenderInv'
  BY DEF TxInv, TxTypeOK, SenderInv
<1>2. NextPlace' = NextPlace
  BY DEF NextPlace
<1> QED
  BY <1>1, <1>2, StretchKept DEF TxInv

\* r8169_init leaves the transmit ring as TxInv says.
LEMMA TxInitHolds == R8169Init => TxInv
<1> SUFFICES ASSUME R8169Init PROVE TxInv
  OBVIOUS
<1> USE TxSize
<1>1. [own |-> FALSE, end |-> FALSE, len |-> 0] \in TxDesc /\ 0 \in TxRing
  BY DEF TxDesc, TxRing
<1>2. {BufAddr(d) : d \in TxRing} = {0}
  BY <1>1 DEF BufAddr
<1>3. TxTypeOK
  <2>1. tx_ring \in [TxRing -> TxDesc] /\ mem \in [{0} -> Nat]
    BY <1>1, <1>2 DEF R8169Init
  <2>2. /\ cur_tx \in TxRing /\ nic_tx \in Nat /\ desc \in [Senders -> TxRing]
        /\ pc \in [Senders -> Labels] /\ pkt \in [Senders -> Nat]
    BY <1>1 DEF R8169Init, Labels
  <2>3. load \in Loads /\ npkt \in Nat
    BY DEF R8169Init
  <2>4. queued \in Seq(Nat) /\ sent \in Seq([len : Nat, data : Nat])
    BY EmptySeq DEF R8169Init
  <2> QED
    BY <2>1, <2>2, <2>3, <2>4 DEF TxTypeOK
<1>4. mem[0] = 0 /\ (\A s \in Senders : pc[s] = "idle" /\ pkt[s] = 0)
      /\ (\A d \in TxRing : ~tx_ring[d].end /\ ~tx_ring[d].own)
  BY <1>2 DEF R8169Init
<1>5. SenderInv
  BY <1>4 DEF R8169Init, SenderInv
<1>6. NextPlace = 0 /\ Len(queued) = 0 /\ Len(sent) = 0 /\ nic_tx = 0
  BY <1>4 DEF NextPlace, R8169Init
<1>7. \A k \in TxRing : Wrap(nic_tx + k, TX_RING_SIZE) \in TxRing /\ ~(k < 0)
  BY <1>6 DEF Wrap, TxRing
<1>8. Wrap(nic_tx + 0, TX_RING_SIZE) = 0 /\ 0 \in 0 .. TX_RING_SIZE
  BY <1>6 DEF Wrap
<1>9. TxStretch
  <2>1. Len(queued) - Len(sent) = 0 /\ 1 .. Len(sent) = {}
    BY <1>6
  <2> QED
    BY <1>4, <1>6, <1>7, <1>8, <2>1 DEF TxStretch
<1> QED
  BY <1>3, <1>5, <1>9 DEF TxInv

\* One step of anybody.
LEMMA TxStep ==
    ASSUME OneSender, TxInv, [R8169Next]_vars
    PROVE  TxInv'
<1>1. CASE \E len \in Frames : NicReceives(len)
  BY <1>1, TxUntouched DEF NicReceives, txvars
<1>2. CASE IntBegin \/ ReceivePacket \/ IntAck \/ UNCHANGED vars
  BY <1>2, TxUntouched DEF IntBegin, ReceivePacket, IntAck, txvars, vars
<1>3. ASSUME NEW s \in Senders, r8169_tx(s) PROVE TxInv'
  BY <1>3, TxBeginKeeps, TxCopyKeeps, TxGiveKeeps, TxAdvanceKeeps, TxRingEndKeeps DEF r8169_tx
<1>4. CASE NicSends
  BY <1>4, NicSendsKeeps
<1> QED
  BY <1>1, <1>2, <1>3, <1>4 DEF R8169Next

\* With one party at a time in r8169_tx, the card sends the descriptors in the
\* order they were given to it, each once (SentInOrder), however far the card
\* runs ahead or falls behind (r8169.c:90-126).
THEOREM SendsInOrder ==
    ASSUME OneSender
    PROVE  R8169Spec => []SentInOrder
<1>1. TxInv /\ [R8169Next]_vars => TxInv'
  BY OneSender, TxStep
<1>2. TxInv => SentInOrder
  <2> SUFFICES ASSUME TxInv, nic_tx \in TxRing PROVE SentInOrder
    BY DEF SentInOrder
  <2> DEFINE owned == Len(queued) - Len(sent)
  <2>1. /\ owned \in 0 .. TX_RING_SIZE /\ Len(queued) \in Nat /\ Len(sent) \in Nat
        /\ \A i \in 1 .. Len(sent) : sent[i].len = queued[i] /\ sent[i].data >= sent[i].len
    BY LenProperties DEF TxInv, TxStretch, TxTypeOK
  <2>2. Wrap(nic_tx + 0, TX_RING_SIZE) = nic_tx /\ 0 \in TxRing
    BY TxSize DEF Wrap, TxRing
  <2>3. 0 < owned => tx_ring[nic_tx].own
    BY <2>2 DEF TxInv, TxStretch
  <2> QED
    BY <2>1, <2>3, TxSize DEF SentInOrder
<1> QED
  BY <1>1, <1>2, TxInitHolds, PTL DEF R8169Spec

\* With one party at a time in r8169_tx, no descriptor is filled again while
\* the card owns it (OwnedUntouched), which fails when the kernel task and a
\* system call send at once (r8169.c:99-118).
THEOREM OwnedKept ==
    ASSUME OneSender
    PROVE  R8169Spec => OwnedUntouched
<1> DEFINE Untouched == \A d \in TxRing : tx_ring[d].own /\ tx_ring'[d].own
                                            => tx_ring'[d].len = tx_ring[d].len
<1>1. TxInv /\ [R8169Next]_vars => TxInv'
  BY OneSender, TxStep
<1>2. TxInv /\ [R8169Next]_vars => [Untouched]_vars
  <2> SUFFICES ASSUME TxInv, R8169Next, NEW d \in TxRing, tx_ring[d].own, tx_ring'[d].own
               PROVE  tx_ring'[d].len = tx_ring[d].len
    BY DEF vars
  <2>1. TxTypeOK /\ SenderInv
    BY DEF TxInv
  <2>2. CASE tx_ring' = tx_ring
    BY <2>2
  <2>3. ASSUME NEW s \in Senders, TxGive(s) PROVE tx_ring'[d].len = tx_ring[d].len
    <3>1. d # desc[s]
      BY <2>1, <2>3 DEF SenderInv, TxGive, At
    <3> QED
      BY <2>1, <2>3, <3>1 DEF TxGive, TxTypeOK
  <2>4. ASSUME NEW s \in Senders, TxRingEnd(s) PROVE tx_ring'[d].len = tx_ring[d].len
    BY <2>1, <2>4 DEF TxRingEnd, TxTypeOK, TxDesc
  <2>5. CASE NicSends
    BY <2>1, <2>5 DEF NicSends, TxTypeOK, TxDesc
  <2>6. CASE \E len \in Frames : NicReceives(len)
    BY <2>2, <2>6 DEF NicReceives, txvars
  <2>7. CASE IntBegin \/ ReceivePacket \/ IntAck
    BY <2>2, <2>7 DEF IntBegin, ReceivePacket, IntAck, txvars
  <2>8. ASSUME NEW s \in Senders, TxBegin(s) \/ TxCopy(s) \/ TxAdvance(s)
        PROVE  tx_ring'[d].len = tx_ring[d].len
    BY <2>2, <2>8 DEF TxBegin, TxCopy, TxAdvance
  <2> QED
    BY <2>3, <2>4, <2>5, <2>6, <2>7, <2>8 DEF R8169Next, r8169_tx
<1> QED
  BY <1>1, <1>2, TxInitHolds, PTL DEF R8169Spec, OwnedUntouched

=============================================================================
