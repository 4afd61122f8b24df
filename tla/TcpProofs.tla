------------------------------ MODULE TcpProofs ------------------------------
(***************************************************************************)
(* The socket of Tcp, for any number of connects, calls, segments and      *)
(* faults of the network: it implements Connection; what a sleeping call   *)
(* waits for is still to come; the calls panic only in a race with the     *)
(* peer, or when httpget sends without a connection; and both streams      *)
(* arrive in order, but for the end of a segment that a receive was too    *)
(* short for, with every piece of data the peer has not received kept for  *)
(* another transmission.                                                   *)
(***************************************************************************)
EXTENDS Tcp, SequenceTheorems, FiniteSetTheorems, WellFoundedInduction, TLAPS

TxEntries == [send_seq_num : Nat, wait_ack_num : Nat, dup_ack_num : Nat, pkt : Segments]

Sockets == [state : TCP_STATE, seq_num : Nat, ack_num : Nat, wait_id : Nat,
            sport : Nat, rx : Seq(Nat), tx : Seq(TxEntries)]

Peers == [state : {"IDLE", "LISTEN", "SYN_SENT", "OPEN"}, syn : {SYN, SYN \cup ACK},
          sent : Nat, fin : BOOLEAN, una : Nat, rcv : Nat]

Labels == {"connect", "connect_sleep", "refused", "bind", "accept", "accept_sleep", "open",
           "recv_sleep", "close_sleep", "done"}

Calls == [connect : Nat, send : Nat, empty : Nat, recv : Nat]

\* What a receive has taken: all of a segment, or as much as was asked for.
Reads == {r \in [data : Nat, len : Nat] : r.len < DataLen => r.len \in Sizes}

Works == [call : Nat, wait_id : Nat]

TypeInv ==
    /\ sk \in Sockets /\ upc \in Labels /\ woken \in BOOLEAN
    /\ ackt \subseteq Nat /\ connt \in Nat /\ recvt \subseteq Works /\ matched \in BOOLEAN
    /\ ncall \in Calls
    /\ read \in Seq(Reads) /\ eof \in BOOLEAN /\ panicked \in BOOLEAN
    /\ toPeer \in Seq(Segments) /\ toUs \in Seq(Segments) /\ nfault \in Nat
    /\ peer \in Peers /\ peergot \in Seq(Nat)

-----------------------------------------------------------------------------
(* Control: where the program is, the state of the socket, the timers.     *)

\* Only a sleeper is woken; before the first receive no receive has timed out.
SleepInv ==
    /\ woken => Sleeping
    /\ upc \in {"connect", "connect_sleep", "bind", "accept", "accept_sleep"} =>
          recvt = {} /\ ~matched

\* The states the socket can be in when the program is somewhere.
PlaceInv ==
    /\ upc = "connect" => sk.state \in {"CLOSED", "CLOSING"}
    /\ upc = "bind" => sk.state = "CLOSED"
    /\ upc \in {"accept", "accept_sleep"} => sk.state \notin {"SYN_SENT", "FIN_WAIT_1", "CLOSE_WAIT"}
    /\ upc \in {"connect_sleep", "accept_sleep"} /\ woken =>
          sk.state \in {"ESTABLISHED", "CLOSING", "CLOSED"}
    /\ upc \in {"open", "recv_sleep"} => sk.state \in {"ESTABLISHED", "CLOSING", "CLOSED"}
    /\ upc = "refused" => sk.state \in {"CLOSING", "CLOSED"} /\ ncall.connect >= MaxConnect

\* The socket is closed under the program by the peer only.
FinInv ==
    /\ sk.state = "CLOSING" => peer.fin
    /\ upc \in {"accept", "accept_sleep", "open", "recv_sleep"} /\ sk.state = "CLOSED" => peer.fin
    /\ peer.state = "IDLE" => toUs = << >> /\ ~peer.fin /\ sk.state \in {"CLOSED", "LISTEN"}

\* Where a sleeper sleeps.
WaitInv ==
    ~woken =>
      /\ upc = "connect_sleep" => sk.state = "SYN_SENT" /\ connt > 0
      /\ upc = "recv_sleep" => sk.rx = << >> /\ (sk.wait_id < TICK_HALF => TimeoutAhead)
      /\ upc = "accept_sleep" => sk.state \in {"LISTEN", "SYN_RCVD"}
      /\ upc = "close_sleep" => sk.state \in {"FIN_WAIT_1", "CLOSING"}

ControlInv == SleepInv /\ PlaceInv /\ FinInv /\ WaitInv /\ PanicOnlyOnRace

\* The SYN|ACK and the FIN that are to be answered are repeated until they are.
RepeatInv ==
    /\ sk.state = "SYN_RCVD" => Repeated("SYN")
    /\ sk.state = "CLOSING" => Repeated("FIN")

-----------------------------------------------------------------------------
(* What we send and what the peer has received.                            *)

\* The sequence number of the first data byte: every SYN has taken one.
Base == IF ncall.connect = 0 THEN 1 ELSE ncall.connect

Ending == {"FIN_WAIT_1", "CLOSING", "CLOSED"}

\* A segment of the current port is numbered by what it carries.
Numbered(m) ==
    /\ m.data # 0 => m.flags = ACK /\ m.data <= ncall.send /\ m.seq + 1 = Base + m.data
    /\ "SYN" \in m.flags => m.seq + 1 = Base
    /\ "FIN" \in m.flags => m.seq = Base + ncall.send /\ sk.state \in Ending

EntryInv(e) ==
    /\ e.pkt.port <= sk.sport
    /\ e.pkt.port = sk.sport => Numbered(e.pkt)
    /\ e.pkt.data # 0 => e.pkt.data <= ncall.send /\ e.wait_ack_num = Base + e.pkt.data

SentInv ==
    /\ \A m \in Range(toPeer) : Numbered(m)
    /\ \A e \in Range(sk.tx) : EntryInv(e)

CountInv ==
    /\ upc \in {"connect", "connect_sleep"} =>
          sk.seq_num = ncall.connect /\ ncall.send = 0 /\ sk.sport = ncall.connect
    /\ upc = "connect_sleep" => ncall.connect > 0
    /\ upc \in {"bind", "accept", "accept_sleep"} => ncall.connect = 0 /\ ncall.send = 0
    /\ upc = "bind" \/ sk.state = "LISTEN" =>
          sk.seq_num = 0 /\ sk.tx = << >> /\ toPeer = << >> /\ peer.state # "OPEN"
    /\ sk.state \in {"LISTEN", "SYN_RCVD"} => ncall.connect = 0
    /\ sk.state \in {"LISTEN", "SYN_RCVD", "SYN_SENT"} => ncall.send = 0
    /\ sk.state \in {"SYN_SENT", "SYN_RCVD", "ESTABLISHED", "CLOSING"} =>
          sk.seq_num = Base + ncall.send

PeerInv ==
    /\ peer.state # "OPEN" => peergot = << >>
    /\ peer.state = "OPEN" =>
          \/ peer.rcv = Base + Len(peergot)
          \/ /\ peer.rcv = Base + ncall.send + 1
             /\ Len(peergot) = ncall.send /\ sk.state \in Ending

StreamInv == SentInv /\ CountInv /\ PeerInv /\ PeerStreamInOrder

-----------------------------------------------------------------------------
(* What the peer sends and what we have received.                          *)

\* Byte d of the peer has the sequence number d, its SYN the number 0; it sends
\* FIN after all of them and acknowledges no more than it has received.
Proper(m, p) ==
    /\ m \in Segments
    /\ m.data # 0 => m.data = m.seq /\ m.data <= p.sent
    /\ "SYN" \in m.flags => m.seq = 0
    /\ "FIN" \in m.flags => p.fin
    /\ m.ack <= p.rcv

WireInv ==
    /\ \A m \in Range(toUs) : Proper(m, peer)
    /\ peer.state # "OPEN" => peer.rcv = 0

RecvInv ==
    /\ ncall.connect = 0 /\ upc = "connect" => Taken = << >> /\ sk.rx = << >>
    /\ ncall.connect = 1 =>
          /\ sk.state \notin {"LISTEN", "SYN_RCVD"}
          /\ sk.state = "SYN_SENT" => Taken = << >> /\ sk.rx = << >>
          /\ sk.state = "ESTABLISHED" => sk.ack_num = Len(Taken) + Len(sk.rx) + 1

\* The order of the segments taken.
OrderInv ==
    ncall.connect = 1 =>
      /\ Len(Received) <= peer.sent
      /\ \A i \in 1 .. Len(Received) : Received[i] = i

-----------------------------------------------------------------------------
(* Queues and lists.                                                       *)

\* The tail of a list holds all but its first member.
LEMMA TailKeeps ==
    ASSUME NEW S, NEW s \in Seq(S), s # << >>
    PROVE  /\ Tail(s) \in Seq(S) /\ Len(Tail(s)) = Len(s) - 1
           /\ Range(Tail(s)) \subseteq Range(s)
           /\ \A j \in 2 .. Len(s) : s[j] \in Range(Tail(s))
<1>1. Tail(s) \in Seq(S) /\ Len(Tail(s)) = Len(s) - 1
  OBVIOUS
<1>2. \A i \in 1 .. Len(Tail(s)) : Tail(s)[i] = s[i + 1] /\ i + 1 \in 1 .. Len(s)
  OBVIOUS
<1>3. Range(Tail(s)) \subseteq Range(s)
  BY <1>1, <1>2 DEF Range
<1>4. \A j \in 2 .. Len(s) : s[j] \in Range(Tail(s))
  <2> TAKE j \in 2 .. Len(s)
  <2> DEFINE r == Tail(s)
             k == j - 1
  <2>1. k \in 1 .. Len(r) /\ r[k] = s[k + 1] /\ k + 1 = j
    BY <1>1, <1>2
  <2>2. DOMAIN r = 1 .. Len(r)
    BY <1>1
  <2> HIDE DEF r, k
  <2>3. s[j] \in Range(r)
    BY <2>1, <2>2 DEF Range
  <2> QED
    BY <2>3 DEF r
<1> QED
  BY <1>1, <1>3, <1>4

\* A list without its i-th member holds all the others.
LEMMA RemoveAtKeeps ==
    ASSUME NEW S, NEW s \in Seq(S), NEW i \in 1 .. Len(s)
    PROVE  /\ RemoveAt(s, i) \in Seq(S) /\ Len(RemoveAt(s, i)) = Len(s) - 1
           /\ Range(RemoveAt(s, i)) \subseteq Range(s)
           /\ \A j \in 1 .. Len(s) : j # i => s[j] \in Range(RemoveAt(s, i))
<1> DEFINE r == RemoveAt(s, i)
<1>1. /\ r \in Seq(S) /\ Len(r) = Len(s) - 1
      /\ \A j \in 1 .. Len(r) : r[j] = IF j < i THEN s[j] ELSE s[j + 1]
  <2> DEFINE n == Len(s)
             a == SubSeq(s, 1, i - 1)
             b == SubSeq(s, i + 1, n)
  <2>1. a \in Seq(S) /\ Len(a) = i - 1 /\ \A j \in 1 .. i - 1 : a[j] = s[j]
    OBVIOUS
  <2>2. b \in Seq(S) /\ Len(b) = n - i /\ \A j \in 1 .. n - i : b[j] = s[i + j]
    OBVIOUS
  <2>3. r = a \o b /\ n \in Nat /\ i \in 1 .. n
    BY DEF RemoveAt
  <2> HIDE DEF r, a, b, n
  <2>4. /\ r \in Seq(S) /\ Len(r) = n - 1
        /\ \A j \in 1 .. n - 1 : r[j] = IF j <= i - 1 THEN a[j] ELSE b[j - (i - 1)]
    <3>1. /\ a \o b \in Seq(S) /\ Len(a \o b) = Len(a) + Len(b)
          /\ \A j \in 1 .. Len(a) + Len(b) :
                (a \o b)[j] = IF j <= Len(a) THEN a[j] ELSE b[j - Len(a)]
      BY <2>1, <2>2, ConcatProperties
    <3>2. Len(a) = i - 1 /\ Len(a) + Len(b) = n - 1
      BY <2>1, <2>2, <2>3
    <3> QED
      BY <2>3, <3>1, <3>2
  <2>5. ASSUME NEW j \in 1 .. n - 1
        PROVE  r[j] = IF j < i THEN s[j] ELSE s[j + 1]
    <3>1. CASE j < i
      BY <2>1, <2>3, <2>4, <3>1
    <3>2. CASE ~(j < i)
      <4>1. j - (i - 1) \in 1 .. n - i /\ i + (j - (i - 1)) = j + 1
        BY <2>3, <3>2
      <4>2. b[j - (i - 1)] = s[i + (j - (i - 1))]
        BY <2>2, <4>1
      <4> QED
        BY <2>3, <2>4, <3>2, <4>1, <4>2
    <3> QED
      BY <3>1, <3>2
  <2> QED
    BY <2>4, <2>5 DEF n
<1> HIDE DEF r
<1>2. Range(r) \subseteq Range(s)
  BY <1>1 DEF Range
<1>3. \A j \in 1 .. Len(s) : j # i => s[j] \in Range(r)
  <2> SUFFICES ASSUME NEW j \in 1 .. Len(s), j # i
               PROVE  s[j] \in Range(r)
    OBVIOUS
  <2>1. CASE j < i
    <3>1. j \in 1 .. Len(r) /\ r[j] = s[j]
      BY <1>1, <2>1
    <3> QED
      BY <1>1, <3>1 DEF Range
  <2>2. CASE j > i
    <3>1. j - 1 \in 1 .. Len(r) /\ r[j - 1] = s[j]
      BY <1>1, <2>2
    <3> QED
      BY <1>1, <3>1 DEF Range
  <2> QED
    BY <2>1, <2>2
<1> QED
  BY <1>1, <1>2, <1>3 DEF r

\* A list with one more member at its end.
LEMMA AppendKeeps ==
    ASSUME NEW S, NEW s \in Seq(S), NEW x \in S
    PROVE  /\ Append(s, x) \in Seq(S) /\ Append(s, x) # << >>
           /\ Len(Append(s, x)) = Len(s) + 1
           /\ Range(Append(s, x)) = Range(s) \cup {x}
<1> DEFINE r == Append(s, x)
<1>1. /\ r \in Seq(S) /\ Len(r) = Len(s) + 1
      /\ \A i \in 1 .. Len(s) : r[i] = s[i]
      /\ r[Len(s) + 1] = x /\ r # << >>
  OBVIOUS
<1> HIDE DEF r
<1>2. Range(r) = Range(s) \cup {x}
  BY <1>1 DEF Range
<1> QED
  BY <1>1, <1>2 DEF r

\* Two lists in a row hold what either holds.
LEMMA ConcatKeeps ==
    ASSUME NEW S, NEW s \in Seq(S), NEW t \in Seq(S)
    PROVE  s \o t \in Seq(S) /\ Range(s \o t) \subseteq Range(s) \cup Range(t)
<1> DEFINE r == s \o t
<1>1. /\ r \in Seq(S) /\ Len(r) = Len(s) + Len(t)
      /\ \A i \in 1 .. Len(r) : r[i] = IF i <= Len(s) THEN s[i] ELSE t[i - Len(s)]
  OBVIOUS
<1> HIDE DEF r
<1>2. Range(r) \subseteq Range(s) \cup Range(t)
  BY <1>1 DEF Range
<1> QED
  BY <1>1, <1>2 DEF r

\* A list over S holds members of S.
LEMMA RangeTyped ==
    ASSUME NEW S, NEW s \in Seq(S)
    PROVE  Range(s) \subseteq S
  BY DEF Range

\* A finite set put into some order.
LEMMA SetToSeqKeeps ==
    ASSUME NEW S, IsFiniteSet(S)
    PROVE  SetToSeq(S) \in Seq(S) /\ Range(SetToSeq(S)) \subseteq S
<1> DEFINE n == Cardinality(S)
<1>1. n \in Nat /\ ExistsBijection(1 .. n, S)
  BY FS_CardinalityType
<1> HIDE DEF n
<1>2. \E f \in [1 .. n -> S] : IsInjective(f)
  <2>1. PICK f \in Bijection(1 .. n, S) : TRUE
    BY <1>1 DEF ExistsBijection
  <2>2. f \in [1 .. n -> S]
    BY <2>1 DEF Bijection, Injection
  <2>3. \A a, b \in 1 .. n : f[a] = f[b] => a = b
    BY <2>1 DEF Bijection, Injection, IsInjective
  <2> QED
    BY <2>2, <2>3 DEF IsInjective
<1>3. SetToSeq(S) \in [1 .. n -> S]
  BY <1>2 DEF SetToSeq, n
<1> QED
  BY <1>1, <1>3 DEF Range

\* The packets of tx_data_list.
TxPackets(tx) == {tx[i].pkt : i \in 1 .. Len(tx)}

OfPort(packets, port) == {m \in packets : m.port = port}

\* What Sends adds to the network: again of the current port, and segs.
LEMMA SendsAdds ==
    ASSUME NEW q \in Seq(Segments), NEW tx \in Seq(TxEntries),
           NEW again \in SUBSET TxPackets(tx), NEW port, NEW segs \in Seq(Segments)
    PROVE  LET r == q \o SetToSeq(OfPort(again, port)) \o segs
           IN  /\ r \in Seq(Segments)
               /\ \A m \in Range(r) :
                    m \in Range(q) \/ (m \in again /\ m.port = port) \/ m \in Range(segs)
<1> DEFINE T == OfPort(again, port)
<1>1. IsFiniteSet(TxPackets(tx)) /\ TxPackets(tx) \subseteq Segments
  <2> DEFINE f == [i \in 1 .. Len(tx) |-> tx[i].pkt]
  <2>1. f \in Surjection(1 .. Len(tx), TxPackets(tx))
    BY DEF Surjection, TxPackets
  <2>2. IsFiniteSet(1 .. Len(tx))
    BY FS_Interval
  <2>3. TxPackets(tx) \subseteq Segments
    <3>1. \A i \in 1 .. Len(tx) : tx[i] \in TxEntries
      OBVIOUS
    <3>2. \A e \in TxEntries : e.pkt \in Segments
      BY DEF TxEntries
    <3> QED
      BY <3>1, <3>2 DEF TxPackets
  <2> QED
    BY <2>1, <2>2, <2>3, FS_Surjection DEF ExistsSurjection
<1>2. IsFiniteSet(T) /\ T \subseteq Segments
  BY <1>1, FS_Subset DEF OfPort
<1>3. SetToSeq(T) \in Seq(T) /\ Range(SetToSeq(T)) \subseteq T
  BY <1>2, SetToSeqKeeps
<1>4. SetToSeq(T) \in Seq(Segments)
  BY <1>2, <1>3
<1> DEFINE t == SetToSeq(T)
<1> HIDE DEF t, T
<1>5. q \o t \in Seq(Segments) /\ Range(q \o t) \subseteq Range(q) \cup Range(t)
  BY <1>4, ConcatKeeps DEF t
<1>6. /\ (q \o t) \o segs \in Seq(Segments)
      /\ Range((q \o t) \o segs) \subseteq Range(q \o t) \cup Range(segs)
  BY <1>5, ConcatKeeps
<1>7. \A m \in Range((q \o t) \o segs) : m \in Range(q) \/ m \in T \/ m \in Range(segs)
  BY <1>3, <1>5, <1>6 DEF t
<1> QED
  BY <1>6, <1>7 DEF t, T, OfPort

-----------------------------------------------------------------------------
(* handle_ack.                                                             *)

\* Entries that differ in dup_ack_num only.
Alike(e, f) ==
    e.send_seq_num = f.send_seq_num /\ e.wait_ack_num = f.wait_ack_num /\ e.pkt = f.pkt

\* new is old without entries that ack acknowledges.
Acked(new, old, ack) ==
    /\ new \in Seq(TxEntries)
    /\ \A e \in Range(new) : \E f \in Range(old) : Alike(e, f)
    /\ \A f \in Range(old) : f.wait_ack_num > ack => \E e \in Range(new) : Alike(e, f)

\* What the acknowledgement leaves behind the head of tx_data_list: every
\* entry it does not cover.
LEMMA BehindHeadKeeps ==
    ASSUME NEW tx \in Seq(TxEntries), NEW ack \in Nat
    PROVE  /\ RemoveBehindHead(tx, ack) \in Seq(TxEntries)
           /\ Range(RemoveBehindHead(tx, ack)) \subseteq Range(tx)
           /\ \A f \in Range(tx) : f.wait_ack_num > ack => f \in Range(RemoveBehindHead(tx, ack))
<1> DEFINE found == {i \in 2 .. Len(tx) : tx[i].wait_ack_num <= ack}
<1>1. CASE found = {}
  <2>1. RemoveBehindHead(tx, ack) = tx
    BY <1>1 DEF RemoveBehindHead
  <2> QED
    BY <2>1
<1>2. CASE found # {}
  <2> DEFINE k == Min(found)
  <2>1. k \in found
    <3>1. found \subseteq Nat
      OBVIOUS
    <3> HIDE DEF found
    <3>2. PICK x \in found : \A y \in found : ~(<<y, x>> \in OpToRel(<, Nat))
      BY <1>2, <3>1, NatLessThanWellFounded, WFMin
    <3>3. \A y \in found : ~(y < x)
      BY <3>1, <3>2 DEF OpToRel
    <3>4. \A y \in found : x <= y
      BY <3>1, <3>3
    <3> QED
      BY <3>4 DEF Min
  <2>2. RemoveBehindHead(tx, ack) = RemoveAt(tx, k)
    BY <1>2 DEF RemoveBehindHead
  <2>3. k \in 1 .. Len(tx) /\ ~(tx[k].wait_ack_num > ack)
    <3>1. k \in 2 .. Len(tx) /\ tx[k].wait_ack_num <= ack
      BY <2>1
    <3> HIDE DEF k
    <3>2. tx[k] \in TxEntries
      BY <3>1
    <3>3. tx[k].wait_ack_num \in Nat
      BY <3>2 DEF TxEntries
    <3> QED
      BY <3>1, <3>3
  <2> HIDE DEF k, found
  <2>4. /\ RemoveAt(tx, k) \in Seq(TxEntries)
        /\ Range(RemoveAt(tx, k)) \subseteq Range(tx)
        /\ \A j \in 1 .. Len(tx) : j # k => tx[j] \in Range(RemoveAt(tx, k))
    BY <2>3, RemoveAtKeeps
  <2>5. \A f \in Range(tx) : \E j \in 1 .. Len(tx) : f = tx[j]
    BY DEF Range
  <2> QED
    BY <2>2, <2>3, <2>4, <2>5
<1> QED
  BY <1>1, <1>2

\* The same for the whole list.
LEMMA UnackedKeeps ==
    ASSUME NEW tx \in Seq(TxEntries), NEW ack \in Nat
    PROVE  /\ Unacked(tx, ack) \in Seq(TxEntries)
           /\ Range(Unacked(tx, ack)) \subseteq Range(tx)
           /\ \A f \in Range(tx) : f.wait_ack_num > ack => f \in Range(Unacked(tx, ack))
<1> DEFINE r == RemoveBehindHead(tx, ack)
<1>1. /\ r \in Seq(TxEntries) /\ Range(r) \subseteq Range(tx)
      /\ \A f \in Range(tx) : f.wait_ack_num > ack => f \in Range(r)
  BY BehindHeadKeeps
<1> HIDE DEF r
<1>2. Unacked(tx, ack) = RemoveHead(r, ack)
  BY DEF Unacked, r
<1>3. CASE ~(r # << >> /\ Head(r).wait_ack_num <= ack)
  BY <1>1, <1>2, <1>3 DEF RemoveHead
<1>4. CASE r # << >> /\ Head(r).wait_ack_num <= ack
  <2>1. Unacked(tx, ack) = Tail(r)
    BY <1>2, <1>4 DEF RemoveHead
  <2>2. /\ Tail(r) \in Seq(TxEntries) /\ Range(Tail(r)) \subseteq Range(r)
        /\ \A j \in 2 .. Len(r) : r[j] \in Range(Tail(r))
    BY <1>1, <1>4, TailKeeps
  <2>3. ~(r[1].wait_ack_num > ack)
    <3>1. Head(r) = r[1] /\ r[1] \in TxEntries
      BY <1>1, <1>4
    <3>2. r[1].wait_ack_num \in Nat
      BY <3>1 DEF TxEntries
    <3> QED
      BY <1>4, <3>1, <3>2
  <2>4. \A f \in Range(r) : f.wait_ack_num > ack => f \in Range(Tail(r))
    <3>0. Range(r) = {r[i] : i \in 1 .. Len(r)}
      BY <1>1 DEF Range
    <3> SUFFICES ASSUME NEW i \in 1 .. Len(r), r[i].wait_ack_num > ack
                 PROVE  r[i] \in Range(Tail(r))
      BY <3>0
    <3>1. i \in 2 .. Len(r)
      BY <1>1, <2>3
    <3> QED
      BY <2>2, <3>1
  <2> QED
    BY <1>1, <2>1, <2>2, <2>4
<1> QED
  BY <1>3, <1>4

\* Counting a duplicate acknowledgement changes nothing else of an entry.
LEMMA CountDupKeeps ==
    ASSUME NEW tx \in Seq(TxEntries), NEW ack \in Nat
    PROVE  /\ CountDup(tx, ack) \in Seq(TxEntries)
           /\ Len(CountDup(tx, ack)) = Len(tx)
           /\ \A i \in 1 .. Len(tx) : Alike(CountDup(tx, ack)[i], tx[i])
<1> DEFINE r == CountDup(tx, ack)
<1>1. ASSUME NEW i \in 1 .. Len(tx)
      PROVE  r[i] \in TxEntries /\ Alike(r[i], tx[i])
  <2>1. tx[i] \in TxEntries
    OBVIOUS
  <2>2. r[i] = IF tx[i].send_seq_num = ack /\ tx[i].dup_ack_num < RETRANSMIT_DUP_ACK_NUM
               THEN [tx[i] EXCEPT !.dup_ack_num = @ + 1]
               ELSE tx[i]
    BY DEF CountDup
  <2>3. \A e \in TxEntries : /\ [e EXCEPT !.dup_ack_num = @ + 1] \in TxEntries
                             /\ Alike([e EXCEPT !.dup_ack_num = @ + 1], e) /\ Alike(e, e)
    <3> TAKE e \in TxEntries
    <3> DEFINE n == e.dup_ack_num + 1
               f == [e EXCEPT !.dup_ack_num = n]
    <3>1. n \in Nat
      <4>1. e.dup_ack_num \in Nat
        BY DEF TxEntries
      <4> QED
        BY <4>1
    <3> HIDE DEF n
    <3>2. f \in TxEntries
      BY <3>1 DEF TxEntries
    <3>3. Alike(f, e) /\ Alike(e, e)
      BY DEF TxEntries, Alike
    <3> QED
      BY <3>2, <3>3 DEF n
  <2> QED
    BY <2>1, <2>2, <2>3
<1>2. DOMAIN r = 1 .. Len(tx) /\ r = [i \in 1 .. Len(tx) |-> r[i]]
  BY DEF CountDup
<1> HIDE DEF r
<1>3. r \in [1 .. Len(tx) -> TxEntries]
  BY <1>1, <1>2
<1>4. r \in Seq(TxEntries) /\ Len(r) = Len(tx)
  BY <1>3
<1> QED
  BY <1>1, <1>4 DEF r

\* tcp_handle_ack drops only what the acknowledgement covers and sends only
\* what is in the list.
LEMMA HandleAck ==
    ASSUME NEW tx \in Seq(TxEntries), NEW ack \in Nat
    PROVE  Acked(handle_ack(tx, ack), tx, ack) /\ DupResent(tx, ack) \subseteq TxPackets(tx)
<1>1. CASE Len(Unacked(tx, ack)) < Len(tx)
  <2>1. handle_ack(tx, ack) = Unacked(tx, ack) /\ DupResent(tx, ack) = {}
    BY <1>1 DEF handle_ack, DupResent
  <2>2. \A e : Alike(e, e)
    BY DEF Alike
  <2> QED
    BY <2>1, <2>2, UnackedKeeps DEF Acked
<1>2. CASE ~(Len(Unacked(tx, ack)) < Len(tx))
  <2> DEFINE r == CountDup(tx, ack)
  <2>1. /\ handle_ack(tx, ack) = r
        /\ DupResent(tx, ack) = Packets({e \in Range(r) :
                                    /\ e.send_seq_num = ack
                                    /\ e.dup_ack_num >= RETRANSMIT_DUP_ACK_NUM})
    BY <1>2 DEF handle_ack, DupResent
  <2>2. /\ r \in Seq(TxEntries) /\ Len(r) = Len(tx)
        /\ \A i \in 1 .. Len(tx) : Alike(r[i], tx[i])
    BY CountDupKeeps
  <2> HIDE DEF r
  <2>3. Acked(r, tx, ack)
    BY <2>2 DEF Acked, Range
  <2>4. Packets(Range(r)) \subseteq TxPackets(tx)
    BY <2>2 DEF Packets, TxPackets, Range, Alike
  <2> QED
    BY <2>1, <2>3, <2>4 DEF Packets
<1> QED
  BY <1>1, <1>2

-----------------------------------------------------------------------------
(* What each action does to the socket, its lists and the network, field   *)
(* by field.                                                               *)

Sock(state, sport, seq, ack, rx, tx) ==
    [state |-> state, seq_num |-> seq, ack_num |-> ack, wait_id |-> sk.wait_id,
     sport |-> sport, rx |-> rx, tx |-> tx]

Entry(seq, len, pkt) ==
    [send_seq_num |-> seq, wait_ack_num |-> seq + len, dup_ack_num |-> 0, pkt |-> pkt]

\* Handed to the network: packets of the current port again, and segs.
Sent(segs) ==
    /\ toPeer' \in Seq(Segments)
    /\ \A m \in Range(toPeer') :
         m \in Range(toPeer) \/ (m \in TxPackets(sk.tx) /\ m.port = sk.sport) \/ m \in segs

RxAfter(m) == IF m.data = 0 THEN sk.rx ELSE Append(sk.rx, m.data)
AckAfter(m) == IF m.data = 0 THEN sk.ack_num ELSE m.seq + 1

Ignored == UNCHANGED <<sk, woken, toPeer, ackt>>

SynTaken(m) ==
    LET p == Segment(SYN \cup ACK, sk.seq_num, m.seq + 1, 0, sk.sport)
    IN  /\ sk.state = "LISTEN"
        /\ sk' = Sock("SYN_RCVD", sk.sport, sk.seq_num + 1, m.seq + 1, sk.rx,
                      Append(sk.tx, Entry(sk.seq_num, 0, p)))
        /\ Sent({p}) /\ ackt' = ackt \cup {sk.seq_num} /\ UNCHANGED woken

HandshakeEnds(m, tx) ==
    /\ sk.state = "SYN_RCVD"
    /\ sk' = Sock("ESTABLISHED", sk.sport, sk.seq_num, AckAfter(m), RxAfter(m), tx)
    /\ Sent({}) /\ Wakeup /\ UNCHANGED ackt

SynAnswered(m, tx) ==
    /\ sk.state = "SYN_SENT" /\ "SYN" \in m.flags
    /\ sk' = Sock("ESTABLISHED", sk.sport, sk.seq_num, m.seq + 1, sk.rx, tx)
    /\ Sent({Segment(ACK, sk.seq_num, m.seq + 1, 0, sk.sport)}) /\ Wakeup /\ UNCHANGED ackt

Repeats ==
    /\ sk.state = "ESTABLISHED"
    /\ Sent({Segment(ACK, sk.seq_num, sk.ack_num, 0, sk.sport)})
    /\ UNCHANGED <<sk, woken, ackt>>

WakesFor(m) == IF m.data = 0 THEN UNCHANGED woken ELSE Wakeup

Takes(m, tx) ==
    /\ sk.state = "ESTABLISHED" /\ Expected(m)
    /\ sk' = Sock("ESTABLISHED", sk.sport, sk.seq_num, AckAfter(m), RxAfter(m), tx)
    /\ Sent({Segment(ACK, sk.seq_num, AckAfter(m), 0, sk.sport)})
    /\ WakesFor(m) /\ UNCHANGED ackt

TakesFin(m, tx) ==
    LET p == Segment(ACK \cup FIN, sk.seq_num, AckAfter(m) + 1, 0, sk.sport)
    IN  /\ sk.state = "ESTABLISHED" /\ Expected(m) /\ "FIN" \in m.flags
        /\ sk' = Sock("CLOSING", sk.sport, sk.seq_num, AckAfter(m) + 1, RxAfter(m),
                      Append(tx, Entry(sk.seq_num, 0, p)))
        /\ Sent({p}) /\ WakesFor(m) /\ ackt' = ackt \cup {sk.seq_num}

FinWaits(m, tx) ==
    /\ sk.state = "FIN_WAIT_1"
    /\ sk' = Sock("FIN_WAIT_1", sk.sport, sk.seq_num, sk.ack_num, sk.rx, tx)
    /\ Sent({}) /\ UNCHANGED <<woken, ackt>>

FinAnswered(m, tx) ==
    /\ sk.state = "FIN_WAIT_1"
    /\ sk' = Sock("CLOSED", sk.sport, sk.seq_num, sk.ack_num + 1, sk.rx, tx)
    /\ Sent({Segment(ACK, sk.seq_num, sk.ack_num + 1, 0, sk.sport)})
    /\ Wakeup /\ UNCHANGED ackt

LastAck ==
    /\ sk.state = "CLOSING"
    /\ sk' = Sock("CLOSED", sk.sport, sk.seq_num, sk.ack_num, sk.rx, sk.tx)
    /\ Wakeup /\ UNCHANGED <<toPeer, ackt>>

\* With what handle_ack has left of tx_data_list.
RxCase(m) ==
    \/ Ignored \/ SynTaken(m) \/ Repeats \/ LastAck
    \/ \E tx : /\ Acked(tx, sk.tx, m.ack)
               /\ \/ HandshakeEnds(m, tx) \/ SynAnswered(m, tx) \/ Takes(m, tx)
                  \/ TakesFin(m, tx) \/ FinWaits(m, tx) \/ FinAnswered(m, tx)

\* The system calls that send.
Connects ==
    LET n == ncall.connect + 1
        p == Segment(SYN, sk.seq_num, sk.ack_num, 0, n)
    IN  /\ sk.state = "CLOSED"
        /\ sk' = Sock("SYN_SENT", n, sk.seq_num + 1, sk.ack_num, sk.rx,
                      Append(sk.tx, Entry(sk.seq_num, 0, p)))
        /\ toPeer' = <<p>> /\ ackt' = ackt \cup {sk.seq_num}

SendsData(d) ==
    LET p == Segment(ACK, sk.seq_num, sk.ack_num, d, sk.sport)
    IN  /\ sk.state = "ESTABLISHED"
        /\ sk' = Sock("ESTABLISHED", sk.sport, sk.seq_num + Len1(d), sk.ack_num, sk.rx,
                      Append(sk.tx, Entry(sk.seq_num, Len1(d), p)))
        /\ Sent({p}) /\ ackt' = ackt \cup {sk.seq_num}

SendsFin ==
    LET p == Segment(ACK \cup FIN, sk.seq_num, sk.ack_num, 0, sk.sport)
    IN  /\ sk.state = "ESTABLISHED"
        /\ sk' = Sock("FIN_WAIT_1", sk.sport, sk.seq_num + 1, sk.ack_num, sk.rx,
                      Append(sk.tx, Entry(sk.seq_num, 0, p)))
        /\ Sent({p}) /\ ackt' = ackt \cup {sk.seq_num}

\* What each field of the socket holds.
LEMMA SockFields ==
    ASSUME sk \in Sockets
    PROVE  /\ sk = Sock(sk.state, sk.sport, sk.seq_num, sk.ack_num, sk.rx, sk.tx)
           /\ sk.state \in TCP_STATE /\ sk.rx \in Seq(Nat) /\ sk.tx \in Seq(TxEntries)
           /\ sk.seq_num \in Nat /\ sk.ack_num \in Nat /\ sk.wait_id \in Nat /\ sk.sport \in Nat
  BY DEF Sockets, Sock

\* A socket put together from typed fields is typed.
LEMMA SockTyped ==
    ASSUME sk \in Sockets, NEW state \in TCP_STATE, NEW sport \in Nat, NEW seq \in Nat,
           NEW ack \in Nat, NEW rx \in Seq(Nat), NEW tx \in Seq(TxEntries)
    PROVE  Sock(state, sport, seq, ack, rx, tx) \in Sockets
  BY DEF Sockets, Sock

Flags == SUBSET {"SYN", "ACK", "FIN"}

\* So are a segment and the entry of tx_data_list that keeps it.
LEMMA PacketTyped ==
    ASSUME NEW flags \in SUBSET {"SYN", "ACK", "FIN"}, NEW seq \in Nat, NEW ack \in Nat,
           NEW data \in Nat, NEW port \in Nat, NEW len \in Nat
    PROVE  /\ Segment(flags, seq, ack, data, port) \in Segments
           /\ Entry(seq, len, Segment(flags, seq, ack, data, port)) \in TxEntries
<1>1. Segment(flags, seq, ack, data, port) \in Segments
  BY DEF Segment, Segments
<1>2. seq + len \in Nat
  OBVIOUS
<1>3. \A p \in Segments : Entry(seq, len, p) \in TxEntries
  BY <1>2 DEF Entry, TxEntries
<1> QED
  BY <1>1, <1>3

\* What each field of a segment holds.
LEMMA SegmentFields ==
    ASSUME NEW m \in Segments
    PROVE  m.flags \subseteq {"SYN", "ACK", "FIN"} /\ m.seq \in Nat /\ m.ack \in Nat
           /\ m.data \in Nat /\ m.port \in Nat
  BY DEF Segments

\* The one-field assignments.
ToState(s, state) == [s EXCEPT !.state = state]
ToAck(s, ack) == [s EXCEPT !.ack_num = ack]
ToSeq(s, seq) == [s EXCEPT !.seq_num = seq]
ToPort(s, sport) == [s EXCEPT !.sport = sport]
ToRx(s, rx) == [s EXCEPT !.rx = rx]
ToTx(s, tx) == [s EXCEPT !.tx = tx]

\* Assigning one field leaves the others.
LEMMA ToFieldIs ==
    ASSUME NEW s \in Sockets, s.wait_id = sk.wait_id, NEW x
    PROVE  /\ ToState(s, x) = Sock(x, s.sport, s.seq_num, s.ack_num, s.rx, s.tx)
           /\ ToAck(s, x) = Sock(s.state, s.sport, s.seq_num, x, s.rx, s.tx)
           /\ ToSeq(s, x) = Sock(s.state, s.sport, x, s.ack_num, s.rx, s.tx)
           /\ ToPort(s, x) = Sock(s.state, x, s.seq_num, s.ack_num, s.rx, s.tx)
           /\ ToRx(s, x) = Sock(s.state, s.sport, s.seq_num, s.ack_num, x, s.tx)
           /\ ToTx(s, x) = Sock(s.state, s.sport, s.seq_num, s.ack_num, s.rx, x)
<1>1. s = Sock(s.state, s.sport, s.seq_num, s.ack_num, s.rx, s.tx)
  BY DEF Sock, Sockets
<1>2. ASSUME NEW a, NEW b, NEW c, NEW d, NEW e, NEW f
      PROVE  /\ ToState(Sock(a, b, c, d, e, f), x) = Sock(x, b, c, d, e, f)
             /\ ToAck(Sock(a, b, c, d, e, f), x) = Sock(a, b, c, x, e, f)
             /\ ToSeq(Sock(a, b, c, d, e, f), x) = Sock(a, b, x, d, e, f)
             /\ ToPort(Sock(a, b, c, d, e, f), x) = Sock(a, x, c, d, e, f)
             /\ ToRx(Sock(a, b, c, d, e, f), x) = Sock(a, b, c, d, x, f)
             /\ ToTx(Sock(a, b, c, d, e, f), x) = Sock(a, b, c, d, e, x)
  BY DEF Sock, ToState, ToAck, ToSeq, ToPort, ToRx, ToTx
<1> QED
  BY <1>1, <1>2

\* The fields of a socket put together from fields.
LEMMA SockHas ==
    ASSUME NEW s, NEW state, NEW sport, NEW seq, NEW ack, NEW rx, NEW tx,
           s = Sock(state, sport, seq, ack, rx, tx)
    PROVE  /\ s.state = state /\ s.sport = sport /\ s.seq_num = seq /\ s.ack_num = ack
           /\ s.rx = rx /\ s.tx = tx /\ s.wait_id = sk.wait_id
  BY DEF Sock

\* tcp_send with need_ack: the packet joins tx_data_list.
LEMMA KeptIs ==
    ASSUME NEW s \in Sockets, s.wait_id = sk.wait_id, NEW flags \in Flags, NEW data \in Nat
    PROVE  LET p == Segment(flags, s.seq_num, s.ack_num, data, s.sport)
               t == Append(s.tx, Entry(s.seq_num, Len1(data), p))
           IN  /\ p \in Segments /\ t \in Seq(TxEntries) /\ Built(s, flags, data) = p
               /\ Kept(s, flags, data) =
                    Sock(s.state, s.sport, s.seq_num + Len1(data), s.ack_num, s.rx, t)
<1> DEFINE l == Len1(data)
           p == Segment(flags, s.seq_num, s.ack_num, data, s.sport)
           t == Append(s.tx, Entry(s.seq_num, l, p))
           n == s.seq_num + l
           s1 == ToTx(s, t)
<1>1. /\ s.state \in TCP_STATE /\ s.sport \in Nat /\ s.seq_num \in Nat /\ s.ack_num \in Nat
      /\ s.rx \in Seq(Nat) /\ s.tx \in Seq(TxEntries) /\ sk.wait_id \in Nat /\ l \in Nat
  BY DEF Sockets, Len1
<1>2. Built(s, flags, data) = p
  BY DEF Built
<1>3. Kept(s, flags, data) = [s EXCEPT !.tx = t, !.seq_num = n]
  BY <1>2 DEF Kept, Entry
<1>4. Kept(s, flags, data) = ToSeq(s1, n)
  BY <1>3 DEF ToSeq, ToTx
<1> HIDE DEF l
<1>5. p \in Segments /\ Entry(s.seq_num, l, p) \in TxEntries
  BY <1>1, PacketTyped DEF Flags
<1>6. t \in Seq(TxEntries)
  BY <1>1, <1>5, AppendKeeps
<1> HIDE DEF p, t, n, s1
<1>7. s1 = Sock(s.state, s.sport, s.seq_num, s.ack_num, s.rx, t)
  BY ToFieldIs DEF s1
<1>8. s1 \in Sockets
  BY <1>1, <1>6, <1>7 DEF Sock, Sockets
<1>9. /\ s1.state = s.state /\ s1.sport = s.sport /\ s1.ack_num = s.ack_num
      /\ s1.rx = s.rx /\ s1.tx = t /\ s1.wait_id = sk.wait_id
  BY <1>7, SockHas
<1>10. ToSeq(s1, n) = Sock(s1.state, s1.sport, n, s1.ack_num, s1.rx, s1.tx)
  BY <1>8, <1>9, ToFieldIs
<1>11. Kept(s, flags, data) = Sock(s.state, s.sport, n, s.ack_num, s.rx, t)
  BY <1>4, <1>9, <1>10
<1> QED
  BY <1>2, <1>5, <1>6, <1>11 DEF p, t, n, l

\* What Sends does is what Sent says.
LEMMA SendsIsSent ==
    ASSUME TypeInv, NEW again \in SUBSET TxPackets(sk.tx), NEW segs \in Seq(Segments),
           Sends(again, segs)
    PROVE  Sent(Range(segs))
<1>1. toPeer \in Seq(Segments) /\ sk.tx \in Seq(TxEntries)
  BY SockFields DEF TypeInv
<1> DEFINE r == toPeer \o SetToSeq(OfPort(again, sk.sport)) \o segs
<1>2. /\ r \in Seq(Segments)
      /\ \A m \in Range(r) :
           m \in Range(toPeer) \/ (m \in again /\ m.port = sk.sport) \/ m \in Range(segs)
  BY <1>1, SendsAdds
<1>3. toPeer' = r
  BY DEF Sends, OfPort
<1> HIDE DEF r
<1> QED
  BY <1>2, <1>3 DEF Sent

\* The socket after the acknowledgement of m: only tx_data_list differs.
LEMMA AckLeaves ==
    ASSUME sk \in Sockets, NEW m \in Segments
    PROVE  \E tx : /\ Acked(tx, sk.tx, m.ack)
                   /\ WithAck(sk, m) = Sock(sk.state, sk.sport, sk.seq_num, sk.ack_num, sk.rx, tx)
                   /\ AckResent(sk, m) \subseteq TxPackets(sk.tx)
<1>1. sk.tx \in Seq(TxEntries) /\ m.ack \in Nat
  BY SockFields, SegmentFields
<1>2. CASE "ACK" \in m.flags
  <2> DEFINE t == handle_ack(sk.tx, m.ack)
  <2>1. Acked(t, sk.tx, m.ack) /\ DupResent(sk.tx, m.ack) \subseteq TxPackets(sk.tx)
    BY <1>1, HandleAck
  <2> HIDE DEF t
  <2>2. WithAck(sk, m) = [sk EXCEPT !.tx = t] /\ AckResent(sk, m) = DupResent(sk.tx, m.ack)
    BY <1>2 DEF WithAck, AckResent, t
  <2>3. [sk EXCEPT !.tx = t] = Sock(sk.state, sk.sport, sk.seq_num, sk.ack_num, sk.rx, t)
    <3>1. ToTx(sk, t) = Sock(sk.state, sk.sport, sk.seq_num, sk.ack_num, sk.rx, t)
      BY ToFieldIs
    <3> QED
      BY <3>1 DEF ToTx
  <2> QED
    BY <2>1, <2>2, <2>3
<1>3. CASE "ACK" \notin m.flags
  <2>1. WithAck(sk, m) = sk /\ AckResent(sk, m) = {}
    BY <1>3 DEF WithAck, AckResent
  <2>2. Acked(sk.tx, sk.tx, m.ack)
    BY <1>1 DEF Acked, Alike
  <2> QED
    BY <2>1, <2>2, SockFields
<1> QED
  BY <1>2, <1>3

\* The updates that the actions make.
Advance(s, state) == [s EXCEPT !.seq_num = @ + 1, !.state = state]
TakeData(s, m) ==
    [s EXCEPT !.rx = IF m.data = 0 THEN @ ELSE Append(@, m.data),
              !.ack_num = IF m.data = 0 THEN @ ELSE m.seq + 1]
OpenWith(s, m) ==
    [s EXCEPT !.state = "ESTABLISHED",
              !.rx = IF m.data = 0 THEN @ ELSE Append(@, m.data),
              !.ack_num = IF m.data = 0 THEN @ ELSE m.seq + 1]

\* A SYN or FIN takes a number and moves the state.
LEMMA AdvanceIs ==
    ASSUME NEW s \in Sockets, s.wait_id = sk.wait_id, NEW state \in TCP_STATE
    PROVE  Advance(s, state) = Sock(state, s.sport, s.seq_num + 1, s.ack_num, s.rx, s.tx)
<1> DEFINE n == s.seq_num + 1
           s1 == ToSeq(s, n)
<1>1. /\ n \in Nat /\ s.state \in TCP_STATE /\ s.sport \in Nat /\ s.ack_num \in Nat
      /\ s.rx \in Seq(Nat) /\ s.tx \in Seq(TxEntries) /\ sk.wait_id \in Nat
  BY DEF Sockets
<1>2. Advance(s, state) = ToState(s1, state)
  BY DEF Advance, ToSeq, ToState
<1> HIDE DEF s1, n
<1>3. s1 = Sock(s.state, s.sport, n, s.ack_num, s.rx, s.tx)
  BY ToFieldIs DEF s1
<1>4. /\ s1.state = s.state /\ s1.sport = s.sport /\ s1.seq_num = n
      /\ s1.ack_num = s.ack_num /\ s1.rx = s.rx /\ s1.tx = s.tx /\ s1.wait_id = sk.wait_id
  BY <1>3, SockHas
<1>5. s1 \in Sockets
  BY <1>1, <1>3 DEF Sock, Sockets
<1>6. ToState(s1, state) = Sock(state, s1.sport, s1.seq_num, s1.ack_num, s1.rx, s1.tx)
  BY <1>4, <1>5, ToFieldIs
<1> QED
  BY <1>2, <1>4, <1>6 DEF n

\* Data joins rx_data_list and moves ack_num.
LEMMA TakeDataIs ==
    ASSUME NEW s \in Sockets, s.wait_id = sk.wait_id, s.rx = sk.rx, s.ack_num = sk.ack_num,
           NEW m \in Segments
    PROVE  TakeData(s, m) =
             Sock(s.state, s.sport, s.seq_num, AckAfter(m), RxAfter(m), s.tx)
<1> DEFINE rx == RxAfter(m)
           ack == AckAfter(m)
           s1 == ToRx(s, rx)
<1>1. /\ s.state \in TCP_STATE /\ s.sport \in Nat /\ s.seq_num \in Nat /\ s.ack_num \in Nat
      /\ s.tx \in Seq(TxEntries) /\ s.wait_id \in Nat /\ s.rx \in Seq(Nat) /\ m.data \in Nat
  BY SegmentFields DEF Sockets
<1>2. rx \in Seq(Nat)
  BY <1>1, AppendKeeps DEF RxAfter
<1>3. TakeData(s, m) = [s EXCEPT !.rx = rx, !.ack_num = ack]
  BY DEF TakeData, RxAfter, AckAfter
<1> HIDE DEF rx, ack
<1>4. TakeData(s, m) = ToAck(s1, ack)
  BY <1>3 DEF ToRx, ToAck
<1> HIDE DEF s1
<1>5. s1 = Sock(s.state, s.sport, s.seq_num, s.ack_num, rx, s.tx)
  BY ToFieldIs DEF s1
<1>6. /\ s1.state = s.state /\ s1.sport = s.sport /\ s1.seq_num = s.seq_num
      /\ s1.rx = rx /\ s1.tx = s.tx /\ s1.wait_id = sk.wait_id
  BY <1>5, SockHas
<1>7. s1 \in Sockets
  BY <1>1, <1>2, <1>5 DEF Sock, Sockets
<1>8. ToAck(s1, ack) = Sock(s1.state, s1.sport, s1.seq_num, ack, s1.rx, s1.tx)
  BY <1>6, <1>7, ToFieldIs
<1> QED
  BY <1>4, <1>6, <1>8 DEF rx, ack

\* The same for the segment that ends the handshake.
LEMMA OpenWithIs ==
    ASSUME NEW s \in Sockets, s.wait_id = sk.wait_id, s.rx = sk.rx, s.ack_num = sk.ack_num,
           NEW m \in Segments
    PROVE  OpenWith(s, m) =
             Sock("ESTABLISHED", s.sport, s.seq_num, AckAfter(m), RxAfter(m), s.tx)
<1> DEFINE s1 == ToState(s, "ESTABLISHED")
<1>1. OpenWith(s, m) = TakeData(s1, m)
  BY DEF OpenWith, TakeData, ToState
<1>2. s1 \in Sockets
  BY DEF Sockets, TCP_STATE, ToState
<1> HIDE DEF s1
<1>3. s1 = Sock("ESTABLISHED", s.sport, s.seq_num, s.ack_num, s.rx, s.tx)
  BY ToFieldIs DEF s1
<1>4. /\ s1.state = "ESTABLISHED" /\ s1.sport = s.sport /\ s1.seq_num = s.seq_num
      /\ s1.ack_num = s.ack_num /\ s1.rx = s.rx /\ s1.tx = s.tx /\ s1.wait_id = sk.wait_id
  BY <1>3, SockHas
<1> QED
  BY <1>1, <1>2, <1>4, TakeDataIs

\* tcp_send with need_ack of a segment without data, and what follows it.
LEMMA KeptEmpty ==
    ASSUME NEW s \in Sockets, s.wait_id = sk.wait_id, NEW flags \in Flags,
           NEW next \in TCP_STATE
    PROVE  LET p == Segment(flags, s.seq_num, s.ack_num, 0, s.sport)
               t == Append(s.tx, Entry(s.seq_num, 0, p))
           IN  /\ p \in Segments /\ Built(s, flags, 0) = p
               /\ Advance(Kept(s, flags, 0), next) =
                    Sock(next, s.sport, s.seq_num + 1, s.ack_num, s.rx, t)
               /\ ToState(Kept(s, flags, 0), next) =
                    Sock(next, s.sport, s.seq_num, s.ack_num, s.rx, t)
<1> DEFINE p == Segment(flags, s.seq_num, s.ack_num, 0, s.sport)
           t == Append(s.tx, Entry(s.seq_num, 0, p))
           k == Kept(s, flags, 0)
<1>1. /\ s.state \in TCP_STATE /\ s.sport \in Nat /\ s.seq_num \in Nat /\ s.ack_num \in Nat
      /\ s.rx \in Seq(Nat) /\ sk.wait_id \in Nat
  BY DEF Sockets
<1>2. 0 \in Nat /\ Len1(0) = 0 /\ s.seq_num + 0 = s.seq_num
  BY <1>1 DEF Len1
<1>3. /\ p \in Segments /\ t \in Seq(TxEntries) /\ Built(s, flags, 0) = p
      /\ k = Sock(s.state, s.sport, s.seq_num, s.ack_num, s.rx, t)
  BY <1>2, KeptIs
<1> HIDE DEF p, t, k
<1>4. k \in Sockets
  BY <1>1, <1>3 DEF Sock, Sockets
<1>5. /\ k.wait_id = sk.wait_id /\ k.sport = s.sport /\ k.seq_num = s.seq_num
      /\ k.ack_num = s.ack_num /\ k.rx = s.rx /\ k.tx = t
  BY <1>3, SockHas
<1>6. Advance(k, next) = Sock(next, k.sport, k.seq_num + 1, k.ack_num, k.rx, k.tx)
  BY <1>4, <1>5, AdvanceIs
<1>7. ToState(k, next) = Sock(next, k.sport, k.seq_num, k.ack_num, k.rx, k.tx)
  BY <1>4, <1>5, ToFieldIs
<1>8. /\ Advance(k, next) = Sock(next, s.sport, s.seq_num + 1, s.ack_num, s.rx, t)
      /\ ToState(k, next) = Sock(next, s.sport, s.seq_num, s.ack_num, s.rx, t)
  BY <1>5, <1>6, <1>7
<1> QED
  BY <1>3, <1>8 DEF p, t, k

\* Resending part of tx_data_list and sending p.
LEMMA SendsOne ==
    ASSUME TypeInv, NEW again \in SUBSET TxPackets(sk.tx), NEW p \in Segments,
           Sends(again, <<p>>)
    PROVE  Sent({p})
<1>1. <<p>> \in Seq(Segments)
  OBVIOUS
<1>2. Range(<<p>>) \subseteq {p}
  BY DEF Range
<1> HIDE DEF Sent
<1>3. Sent(Range(<<p>>))
  BY <1>1, SendsIsSent
<1> QED
  BY <1>2, <1>3 DEF Sent

\* Resending part of tx_data_list only.
LEMMA SendsNone ==
    ASSUME TypeInv, NEW again \in SUBSET TxPackets(sk.tx), Sends(again, << >>)
    PROVE  Sent({})
<1>1. << >> \in Seq(Segments) /\ Range(<< >>) = {}
  BY DEF Range
<1> QED
  BY <1>1, SendsIsSent

\* tcp_recv_pkt, by the state of the socket.
LEMMA ListenCase ==
    ASSUME TypeInv, NEW m \in Segments, RxListen(m)
    PROVE  Ignored \/ SynTaken(m)
<1> DEFINE s == [sk EXCEPT !.ack_num = m.seq + 1]
           p == Segment(SYN \cup ACK, sk.seq_num, m.seq + 1, 0, sk.sport)
           tx == Append(sk.tx, Entry(sk.seq_num, 0, p))
<1>1. sk \in Sockets /\ m.seq + 1 \in Nat
  BY SegmentFields DEF TypeInv
<1>2. CASE "SYN" \notin m.flags
  BY <1>2 DEF RxListen, Ignored
<1>3. CASE "SYN" \in m.flags
  <2>1. /\ sk.state = "LISTEN" /\ sk' = Advance(Kept(s, SYN \cup ACK, 0), "SYN_RCVD")
        /\ Sends({}, <<Built(s, SYN \cup ACK, 0)>>)
        /\ ackt' = ackt \cup {s.seq_num} /\ UNCHANGED woken
    BY <1>3 DEF RxListen, Advance, ArmAck
  <2>2. s = Sock("LISTEN", sk.sport, sk.seq_num, m.seq + 1, sk.rx, sk.tx)
    <3> DEFINE a == m.seq + 1
    <3>1. s = ToAck(sk, a)
      BY DEF ToAck
    <3> HIDE DEF a, s
    <3>2. ToAck(sk, a) = Sock(sk.state, sk.sport, sk.seq_num, a, sk.rx, sk.tx)
      BY <1>1, ToFieldIs
    <3> QED
      BY <2>1, <3>1, <3>2 DEF a
  <2>3. s.seq_num = sk.seq_num
    BY <2>2 DEF Sock
  <2> HIDE DEF s
  <2>4. /\ "LISTEN" \in TCP_STATE /\ "SYN_RCVD" \in TCP_STATE
        /\ SYN \cup ACK \in Flags
    BY DEF TCP_STATE, SYN, ACK, Flags
  <2>5. /\ p \in Segments /\ Built(s, SYN \cup ACK, 0) = p
        /\ sk' = Sock("SYN_RCVD", sk.sport, sk.seq_num + 1, m.seq + 1, sk.rx, tx)
    <3> DEFINE f == SYN \cup ACK
               a == m.seq + 1
    <3>1. /\ sk.sport \in Nat /\ sk.seq_num \in Nat /\ sk.rx \in Seq(Nat)
          /\ sk.tx \in Seq(TxEntries) /\ a \in Nat /\ f \in Flags
      BY <1>1, <2>4, SockFields
    <3>2. sk' = Advance(Kept(s, f, 0), "SYN_RCVD")
          /\ s = Sock("LISTEN", sk.sport, sk.seq_num, a, sk.rx, sk.tx)
      BY <2>1, <2>2
    <3> HIDE DEF a, f
    <3>3. s \in Sockets
      BY <1>1, <2>4, <3>1, <3>2, SockTyped
    <3>4. /\ s.sport = sk.sport /\ s.seq_num = sk.seq_num /\ s.ack_num = a
          /\ s.rx = sk.rx /\ s.tx = sk.tx /\ s.wait_id = sk.wait_id
      BY <3>2, SockHas
    <3>5. LET q == Segment(f, s.seq_num, s.ack_num, 0, s.sport)
          IN  /\ q \in Segments /\ Built(s, f, 0) = q
              /\ Advance(Kept(s, f, 0), "SYN_RCVD") =
                   Sock("SYN_RCVD", s.sport, s.seq_num + 1, s.ack_num, s.rx,
                        Append(s.tx, Entry(s.seq_num, 0, q)))
      BY <2>4, <3>1, <3>3, <3>4, KeptEmpty
    <3> QED
      BY <3>2, <3>4, <3>5 DEF a, f
  <2> HIDE DEF p
  <2>6. Sent({p})
    BY <2>1, <2>5, SendsOne
  <2> QED
    BY <2>1, <2>3, <2>5, <2>6 DEF SynTaken, p
<1> QED
  BY <1>2, <1>3

\* In SYN_RCVD: ignored, or the handshake ends.
LEMMA SynRcvdCase ==
    ASSUME TypeInv, NEW m \in Segments, RxSynRcvd(m)
    PROVE  Ignored \/ \E tx : Acked(tx, sk.tx, m.ack) /\ HandshakeEnds(m, tx)
<1>1. CASE "ACK" \notin m.flags
  BY <1>1 DEF RxSynRcvd, Ignored
<1>2. CASE "ACK" \in m.flags
  <2>1. sk \in Sockets
    BY DEF TypeInv
  <2>2. PICK tx : /\ Acked(tx, sk.tx, m.ack)
                  /\ WithAck(sk, m) = Sock(sk.state, sk.sport, sk.seq_num, sk.ack_num, sk.rx, tx)
                  /\ AckResent(sk, m) \subseteq TxPackets(sk.tx)
    BY <2>1, AckLeaves
  <2>3. /\ sk.state = "SYN_RCVD" /\ sk' = OpenWith(WithAck(sk, m), m)
        /\ Sends(AckResent(sk, m), << >>) /\ Wakeup /\ UNCHANGED ackt
    BY <1>2 DEF RxSynRcvd, OpenWith
  <2> DEFINE s == WithAck(sk, m)
  <2>4. s \in Sockets
    BY <2>1, <2>2, SockFields, SockTyped DEF Acked
  <2>5. /\ s.wait_id = sk.wait_id /\ s.rx = sk.rx /\ s.ack_num = sk.ack_num
        /\ s.sport = sk.sport /\ s.seq_num = sk.seq_num /\ s.tx = tx
    BY <2>2 DEF Sock
  <2> HIDE DEF s
  <2>6. OpenWith(s, m) =
          Sock("ESTABLISHED", sk.sport, sk.seq_num, AckAfter(m), RxAfter(m), tx)
    BY <2>4, <2>5, OpenWithIs
  <2>7. Sent({})
    BY <2>2, <2>3, SendsNone
  <2> QED
    BY <2>2, <2>3, <2>6, <2>7 DEF HandshakeEnds, s
<1> QED
  BY <1>1, <1>2

\* In SYN_SENT: ignored, or SYN|ACK is taken and answered.
LEMMA SynSentCase ==
    ASSUME TypeInv, NEW m \in Segments, RxSynSent(m)
    PROVE  Ignored \/ \E tx : Acked(tx, sk.tx, m.ack) /\ SynAnswered(m, tx)
<1>1. CASE ~({"SYN", "ACK"} \subseteq m.flags)
  BY <1>1 DEF RxSynSent, Ignored
<1>2. CASE {"SYN", "ACK"} \subseteq m.flags
  <2>1. sk \in Sockets /\ m.seq + 1 \in Nat
    BY SegmentFields DEF TypeInv
  <2>2. PICK tx : /\ Acked(tx, sk.tx, m.ack)
                  /\ WithAck(sk, m) = Sock(sk.state, sk.sport, sk.seq_num, sk.ack_num, sk.rx, tx)
                  /\ AckResent(sk, m) \subseteq TxPackets(sk.tx)
    BY <2>1, AckLeaves
  <2> DEFINE w == WithAck(sk, m)
             a == m.seq + 1
             s == [w EXCEPT !.ack_num = a]
             p == Segment(ACK, sk.seq_num, a, 0, sk.sport)
  <2>3. /\ sk.state = "SYN_SENT" /\ sk' = [s EXCEPT !.state = "ESTABLISHED"]
        /\ Sends(AckResent(sk, m), <<Built(s, ACK, 0)>>) /\ Wakeup /\ UNCHANGED ackt
    BY <1>2 DEF RxSynSent
  <2>4. w \in Sockets
    BY <2>1, <2>2, SockFields, SockTyped DEF Acked
  <2>5. /\ w.wait_id = sk.wait_id /\ w.rx = sk.rx /\ w.state = sk.state
        /\ w.sport = sk.sport /\ w.seq_num = sk.seq_num /\ w.tx = tx
    BY <2>2 DEF Sock
  <2> HIDE DEF w, a
  <2>6. s = Sock(sk.state, sk.sport, sk.seq_num, a, sk.rx, tx)
    <3>1. s = ToAck(w, a)
      BY DEF ToAck
    <3> HIDE DEF s
    <3>2. ToAck(w, a) = Sock(w.state, w.sport, w.seq_num, a, w.rx, w.tx)
      BY <2>4, <2>5, ToFieldIs
    <3> QED
      BY <2>5, <3>1, <3>2
  <2>7. s \in Sockets
    BY <2>1, <2>2, <2>6, SockFields, SockTyped DEF Acked, a
  <2> HIDE DEF s
  <2>8. /\ s.wait_id = sk.wait_id /\ s.rx = sk.rx /\ s.ack_num = a
        /\ s.sport = sk.sport /\ s.seq_num = sk.seq_num /\ s.tx = tx
    BY <2>6 DEF Sock
  <2>9. [s EXCEPT !.state = "ESTABLISHED"] =
          Sock("ESTABLISHED", sk.sport, sk.seq_num, a, sk.rx, tx)
    <3>1. ToState(s, "ESTABLISHED") = Sock("ESTABLISHED", s.sport, s.seq_num, s.ack_num, s.rx, s.tx)
      BY <2>7, <2>8, ToFieldIs
    <3> QED
      BY <2>8, <3>1 DEF ToState
  <2>10. Built(s, ACK, 0) = p
    BY <2>8 DEF Built
  <2>11. p \in Segments
    BY <2>1, SockFields, PacketTyped DEF ACK, a
  <2> HIDE DEF p
  <2>12. Sent({p})
    BY <2>2, <2>3, <2>10, <2>11, SendsOne
  <2> QED
    BY <1>2, <2>2, <2>3, <2>9, <2>12 DEF SynAnswered, p, a
<1> QED
  BY <1>1, <1>2

\* Out of order in ESTABLISHED: the last acknowledgement again.
LEMMA OutOfOrderCase ==
    ASSUME TypeInv, NEW m \in Segments, RxOutOfOrder(m)
    PROVE  Repeats
<1> DEFINE p == Segment(ACK, sk.seq_num, sk.ack_num, 0, sk.sport)
<1>1. sk.state = "ESTABLISHED" /\ Sends({}, <<p>>) /\ UNCHANGED <<sk, woken, ackt>>
  BY DEF RxOutOfOrder, Built
<1>2. p \in Segments
  BY SockFields, PacketTyped DEF ACK, TypeInv
<1> HIDE DEF p
<1>3. Sent({p})
  BY <1>1, <1>2, SendsOne
<1> QED
  BY <1>1, <1>3 DEF Repeats, p

\* What data leaves in rx_data_list and ack_num is typed.
LEMMA AfterTyped ==
    ASSUME sk \in Sockets, NEW m \in Segments
    PROVE  AckAfter(m) \in Nat /\ RxAfter(m) \in Seq(Nat)
  BY SockFields, SegmentFields, AppendKeeps DEF AckAfter, RxAfter

\* In ESTABLISHED: data, an acknowledgement or a FIN is taken.
LEMMA EstablishedCase ==
    ASSUME TypeInv, NEW m \in Segments, RxEstablished(m)
    PROVE  \E tx : Acked(tx, sk.tx, m.ack) /\ (Takes(m, tx) \/ TakesFin(m, tx))
<1> DEFINE w == WithAck(sk, m)
           s == TakeData(w, m)
           s2 == [s EXCEPT !.ack_num = @ + 1]
           a == AckAfter(m)
           a2 == a + 1
           rx == RxAfter(m)
<1>1. sk \in Sockets
  BY DEF TypeInv
<1>2. PICK tx : /\ Acked(tx, sk.tx, m.ack)
                /\ w = Sock(sk.state, sk.sport, sk.seq_num, sk.ack_num, sk.rx, tx)
                /\ AckResent(sk, m) \subseteq TxPackets(sk.tx)
  BY <1>1, AckLeaves
<1>3. /\ sk.state = "ESTABLISHED" /\ Expected(m) /\ WakesFor(m)
      /\ {"FIN", "ACK"} \subseteq m.flags =>
           /\ sk' = ToState(Kept(s2, ACK \cup FIN, 0), "CLOSING")
           /\ Sends(AckResent(sk, m), <<Built(s2, ACK \cup FIN, 0)>>)
           /\ ackt' = ackt \cup {s2.seq_num}
      /\ ~({"FIN", "ACK"} \subseteq m.flags) =>
           /\ sk' = s
           /\ Sends(AckResent(sk, m), IF m.data = 0 THEN << >> ELSE <<Built(s, ACK, 0)>>)
           /\ UNCHANGED ackt
  BY DEF RxEstablished, TakeData, WakesFor, ArmAck, ToState
<1>4. w \in Sockets
  BY <1>1, <1>2, SockFields, SockTyped DEF Acked
<1>5. /\ w.wait_id = sk.wait_id /\ w.rx = sk.rx /\ w.ack_num = sk.ack_num
      /\ w.state = sk.state /\ w.sport = sk.sport /\ w.seq_num = sk.seq_num /\ w.tx = tx
  BY <1>2 DEF Sock
<1>6. tx \in Seq(TxEntries) /\ a \in Nat /\ a2 \in Nat /\ rx \in Seq(Nat)
  BY <1>1, <1>2, AfterTyped DEF Acked
<1> HIDE DEF w
<1>7. s = Sock("ESTABLISHED", sk.sport, sk.seq_num, a, rx, tx)
  BY <1>3, <1>4, <1>5, TakeDataIs
<1> HIDE DEF s, a, rx
<1>8. s \in Sockets
  BY <1>1, <1>3, <1>6, <1>7, SockFields, SockTyped
<1>9. /\ s.wait_id = sk.wait_id /\ s.rx = rx /\ s.ack_num = a
      /\ s.state = "ESTABLISHED" /\ s.sport = sk.sport /\ s.seq_num = sk.seq_num /\ s.tx = tx
  BY <1>7 DEF Sock
<1>10. CASE ~({"FIN", "ACK"} \subseteq m.flags)
  <2> DEFINE p == Segment(ACK, sk.seq_num, a, 0, sk.sport)
  <2>1. Built(s, ACK, 0) = p
    BY <1>9 DEF Built
  <2>2. p \in Segments
    BY <1>1, <1>6, SockFields, PacketTyped DEF ACK
  <2> HIDE DEF p
  <2>3. Sent({p})
    <3>1. CASE m.data = 0
      <4>1. Sent({})
        BY <1>2, <1>3, <1>10, <3>1, SendsNone
      <4> QED
        BY <4>1 DEF Sent
    <3>2. CASE m.data # 0
      BY <1>2, <1>3, <1>10, <2>1, <2>2, <3>2, SendsOne
    <3> QED
      BY <3>1, <3>2
  <2>4. Takes(m, tx)
    BY <1>3, <1>7, <1>10, <2>3 DEF Takes, p, a, rx
  <2> QED
    BY <1>2, <2>4
<1>11. CASE {"FIN", "ACK"} \subseteq m.flags
  <2> HIDE DEF a2
  <2>1. s2 = Sock("ESTABLISHED", sk.sport, sk.seq_num, a2, rx, tx)
    <3>1. s2 = ToAck(s, a2)
      BY <1>9 DEF a2, ToAck
    <3> HIDE DEF s2
    <3>2. ToAck(s, a2) = Sock(s.state, s.sport, s.seq_num, a2, s.rx, s.tx)
      BY <1>8, <1>9, ToFieldIs
    <3> QED
      BY <1>9, <3>1, <3>2
  <2> HIDE DEF s2
  <2>2. s2.seq_num = sk.seq_num
    BY <2>1 DEF Sock
  <2> DEFINE p == Segment(ACK \cup FIN, sk.seq_num, a2, 0, sk.sport)
             t == Append(tx, Entry(sk.seq_num, 0, p))
  <2>3. /\ p \in Segments /\ Built(s2, ACK \cup FIN, 0) = p
        /\ ToState(Kept(s2, ACK \cup FIN, 0), "CLOSING")
             = Sock("CLOSING", sk.sport, sk.seq_num, a2, rx, t)
    <3>1. /\ "ESTABLISHED" \in TCP_STATE /\ "CLOSING" \in TCP_STATE
          /\ ACK \cup FIN \in Flags
          /\ sk.sport \in Nat /\ sk.seq_num \in Nat
      BY <1>1, SockFields DEF TCP_STATE, ACK, FIN, Flags
    <3> DEFINE f == ACK \cup FIN
    <3> HIDE DEF f
    <3>2. s2 \in Sockets /\ f \in Flags
      BY <1>1, <1>6, <2>1, <3>1, SockTyped DEF f
    <3>3. /\ s2.sport = sk.sport /\ s2.seq_num = sk.seq_num /\ s2.ack_num = a2
          /\ s2.rx = rx /\ s2.tx = tx /\ s2.wait_id = sk.wait_id
      BY <2>1, SockHas
    <3>4. LET q == Segment(f, s2.seq_num, s2.ack_num, 0, s2.sport)
          IN  /\ q \in Segments /\ Built(s2, f, 0) = q
              /\ ToState(Kept(s2, f, 0), "CLOSING") =
                   Sock("CLOSING", s2.sport, s2.seq_num, s2.ack_num, s2.rx,
                        Append(s2.tx, Entry(s2.seq_num, 0, q)))
      BY <3>1, <3>2, <3>3, KeptEmpty
    <3> QED
      BY <3>3, <3>4 DEF f
  <2> HIDE DEF p
  <2>4. Sent({p})
    BY <1>2, <1>3, <1>11, <2>3, SendsOne
  <2>5. sk' = Sock("CLOSING", sk.sport, sk.seq_num, a2, rx, t)
    BY <1>3, <1>11, <2>3
  <2>6. TakesFin(m, tx)
    BY <1>3, <1>11, <2>2, <2>4, <2>5 DEF TakesFin, p, a, a2, rx
  <2> QED
    BY <1>2, <2>6
<1> QED
  BY <1>10, <1>11

\* In FIN_WAIT_1: an acknowledgement, or the FIN of the peer is answered.
LEMMA FinWaitCase ==
    ASSUME TypeInv, NEW m \in Segments, RxFinWait1(m)
    PROVE  \E tx : Acked(tx, sk.tx, m.ack) /\ (FinWaits(m, tx) \/ FinAnswered(m, tx))
<1> DEFINE s == WithAck(sk, m)
           s2 == [s EXCEPT !.ack_num = @ + 1]
           a2 == sk.ack_num + 1
           p == Segment(ACK, sk.seq_num, a2, 0, sk.sport)
<1>1. sk \in Sockets
  BY DEF TypeInv
<1>2. PICK tx : /\ Acked(tx, sk.tx, m.ack)
                /\ s = Sock(sk.state, sk.sport, sk.seq_num, sk.ack_num, sk.rx, tx)
                /\ AckResent(sk, m) \subseteq TxPackets(sk.tx)
  BY <1>1, AckLeaves
<1>3. /\ sk.state = "FIN_WAIT_1" /\ UNCHANGED ackt
      /\ {"FIN", "ACK"} \subseteq m.flags =>
           /\ sk' = ToState(s2, "CLOSED")
           /\ Sends(AckResent(sk, m), <<Built(s2, ACK, 0)>>) /\ Wakeup
      /\ ~({"FIN", "ACK"} \subseteq m.flags) =>
           sk' = s /\ Sends(AckResent(sk, m), << >>) /\ UNCHANGED woken
  BY DEF RxFinWait1, ToState
<1>4. s \in Sockets
  BY <1>1, <1>2, SockFields, SockTyped DEF Acked
<1>5. /\ s.wait_id = sk.wait_id /\ s.rx = sk.rx /\ s.ack_num = sk.ack_num
      /\ s.state = sk.state /\ s.sport = sk.sport /\ s.seq_num = sk.seq_num /\ s.tx = tx
  BY <1>2 DEF Sock
<1> HIDE DEF s
<1>6. CASE ~({"FIN", "ACK"} \subseteq m.flags)
  <2>1. Sent({})
    BY <1>2, <1>3, <1>6, SendsNone
  <2>2. FinWaits(m, tx)
    BY <1>2, <1>3, <1>6, <2>1 DEF FinWaits
  <2> QED
    BY <1>2, <2>2
<1>7. CASE {"FIN", "ACK"} \subseteq m.flags
  <2>1. a2 \in Nat
    BY <1>1, SockFields
  <2>2. s2 = ToAck(s, a2)
    BY <1>5 DEF ToAck
  <2>3. p \in Segments
    BY <1>1, <2>1, SockFields, PacketTyped DEF ACK
  <2> HIDE DEF a2, s2
  <2>4. ToAck(s, a2) = Sock(sk.state, sk.sport, sk.seq_num, a2, sk.rx, tx)
    BY <1>4, <1>5, ToFieldIs
  <2>5. s2 \in Sockets
    BY <1>1, <1>2, <2>1, <2>2, <2>4, SockFields, SockTyped DEF Acked
  <2>6. /\ s2.wait_id = sk.wait_id /\ s2.rx = sk.rx /\ s2.ack_num = a2
        /\ s2.sport = sk.sport /\ s2.seq_num = sk.seq_num /\ s2.tx = tx
    BY <2>2, <2>4 DEF Sock
  <2>7. ToState(s2, "CLOSED") = Sock("CLOSED", sk.sport, sk.seq_num, a2, sk.rx, tx)
    BY <2>5, <2>6, ToFieldIs
  <2>8. Built(s2, ACK, 0) = p
    BY <2>6 DEF Built
  <2> HIDE DEF p
  <2>9. Sent({p})
    BY <1>2, <1>3, <1>7, <2>3, <2>8, SendsOne
  <2>10. FinAnswered(m, tx)
    BY <1>3, <1>7, <2>7, <2>9 DEF FinAnswered, p, a2
  <2> QED
    BY <1>2, <2>10
<1> QED
  BY <1>6, <1>7

\* In CLOSING: ignored, or the last acknowledgement closes the socket.
LEMMA ClosingCase ==
    ASSUME TypeInv, NEW m \in Segments, RxClosing(m)
    PROVE  Ignored \/ LastAck
<1>1. sk \in Sockets
  BY DEF TypeInv
<1>2. [sk EXCEPT !.state = "CLOSED"] =
        Sock("CLOSED", sk.sport, sk.seq_num, sk.ack_num, sk.rx, sk.tx)
  BY <1>1 DEF Sock, Sockets
<1>3. CASE "ACK" \in m.flags
  BY <1>2, <1>3 DEF RxClosing, LastAck
<1>4. CASE "ACK" \notin m.flags
  BY <1>4 DEF RxClosing, Ignored
<1> QED
  BY <1>3, <1>4

\* What tcp_rx does with a segment is one of the cases.
LEMMA RxCases ==
    ASSUME TypeInv, NEW m \in Segments, tcp_recv_pkt(m)
    PROVE  RxCase(m)
<1>1. CASE RxClosed(m)
  BY <1>1 DEF RxClosed, Ignored, RxCase
<1>2. CASE RxListen(m)
  BY <1>2, ListenCase DEF RxCase
<1>3. CASE RxSynRcvd(m)
  BY <1>3, SynRcvdCase DEF RxCase
<1>4. CASE RxSynSent(m)
  BY <1>4, SynSentCase DEF RxCase
<1>5. CASE RxOutOfOrder(m)
  BY <1>5, OutOfOrderCase DEF RxCase
<1>6. CASE RxEstablished(m)
  BY <1>6, EstablishedCase DEF RxCase
<1>7. CASE RxFinWait1(m)
  BY <1>7, FinWaitCase DEF RxCase
<1>8. CASE RxClosing(m)
  BY <1>8, ClosingCase DEF RxCase
<1> QED
  BY <1>1, <1>2, <1>3, <1>4, <1>5, <1>6, <1>7, <1>8 DEF tcp_recv_pkt

\* The system calls that send.
LEMMA ConnectIs ==
    ASSUME TypeInv, tcp_socket_connect, sk.state = "CLOSED"
    PROVE  Connects
<1> DEFINE n == ncall.connect + 1
           s == ToPort(sk, n)
           p == Segment(SYN, sk.seq_num, sk.ack_num, 0, n)
<1>1. /\ sk' = Advance(Kept(s, SYN, 0), "SYN_SENT")
      /\ toPeer' = <<Built(s, SYN, 0)>> /\ ackt' = ackt \cup {s.seq_num}
  BY DEF tcp_socket_connect, Advance, ArmAck, ToPort
<1>2. sk \in Sockets /\ n \in Nat
  BY DEF TypeInv, Calls
<1> HIDE DEF n
<1>3. s = Sock("CLOSED", n, sk.seq_num, sk.ack_num, sk.rx, sk.tx)
  BY <1>2, ToFieldIs
<1> HIDE DEF s
<1>4. s.seq_num = sk.seq_num
  BY <1>3 DEF Sock
<1>5. Built(s, SYN, 0) = p
  BY <1>3 DEF Sock, Built
<1>6. "CLOSED" \in TCP_STATE /\ "SYN_SENT" \in TCP_STATE /\ SYN \in Flags
  BY DEF TCP_STATE, SYN, Flags
<1>7. /\ sk.seq_num \in Nat /\ sk.ack_num \in Nat /\ sk.rx \in Seq(Nat)
      /\ sk.tx \in Seq(TxEntries)
  BY <1>2, SockFields
<1>8. Advance(Kept(s, SYN, 0), "SYN_SENT")
        = Sock("SYN_SENT", n, sk.seq_num + 1, sk.ack_num, sk.rx,
               Append(sk.tx, Entry(sk.seq_num, 0, Segment(SYN, sk.seq_num, sk.ack_num, 0, n))))
  <2>1. s \in Sockets
    BY <1>2, <1>3, <1>6, <1>7, SockTyped
  <2>2. /\ s.sport = n /\ s.seq_num = sk.seq_num /\ s.ack_num = sk.ack_num
        /\ s.rx = sk.rx /\ s.tx = sk.tx /\ s.wait_id = sk.wait_id
    BY <1>3, SockHas
  <2>3. Advance(Kept(s, SYN, 0), "SYN_SENT")
          = Sock("SYN_SENT", s.sport, s.seq_num + 1, s.ack_num, s.rx,
                 Append(s.tx, Entry(s.seq_num, 0,
                           Segment(SYN, s.seq_num, s.ack_num, 0, s.sport))))
    BY <1>6, <2>1, <2>2, KeptEmpty
  <2> QED
    BY <2>2, <2>3
<1> QED
  BY <1>1, <1>4, <1>5, <1>8 DEF Connects, n

\* What tcp_socket_send does to an open connection.
LEMMA SendIs ==
    ASSUME TypeInv, tcp_socket_send, sk.state = "ESTABLISHED"
    PROVE  \/ SendsData(ncall.send + 1) /\ Called("send")
           \/ SendsData(0) /\ Called("empty")
<1>1. ASSUME NEW d \in Nat, Sending(d)
      PROVE  SendsData(d)
  <2> DEFINE p == Segment(ACK, sk.seq_num, sk.ack_num, d, sk.sport)
  <2>1. /\ sk' = Kept(sk, ACK, d)
        /\ Sends({}, <<Built(sk, ACK, d)>>) /\ ackt' = ackt \cup {sk.seq_num}
    BY <1>1 DEF Sending, ArmAck
  <2>2. sk \in Sockets
    BY DEF TypeInv
  <2>3. Built(sk, ACK, d) = p
    BY DEF Built
  <2>4. ACK \in Flags
    BY DEF ACK, Flags
  <2>5. p \in Segments
    BY <2>2, <2>4, KeptIs
  <2>6. Kept(sk, ACK, d)
          = Sock("ESTABLISHED", sk.sport, sk.seq_num + Len1(d), sk.ack_num, sk.rx,
                 Append(sk.tx, Entry(sk.seq_num, Len1(d), p)))
    BY <2>2, <2>4, KeptIs
  <2> HIDE DEF p
  <2>7. Sent({p})
    BY <2>1, <2>3, <2>5, SendsOne
  <2> QED
    BY <2>1, <2>6, <2>7 DEF SendsData, p
<1>2. ncall.send + 1 \in Nat
  BY DEF TypeInv, Calls
<1>3. \/ Sending(ncall.send + 1) /\ Called("send")
      \/ Sending(0) /\ Called("empty")
  BY DEF tcp_socket_send
<1> QED
  BY <1>1, <1>2, <1>3

\* What tcp_socket_close does to an open connection.
LEMMA CloseIs ==
    ASSUME TypeInv, tcp_socket_close, sk.state = "ESTABLISHED"
    PROVE  SendsFin
<1> DEFINE p == Segment(ACK \cup FIN, sk.seq_num, sk.ack_num, 0, sk.sport)
           f == ACK \cup FIN
<1>1. /\ sk' = Advance(Kept(sk, f, 0), "FIN_WAIT_1")
      /\ Sends({}, <<Built(sk, f, 0)>>) /\ ackt' = ackt \cup {sk.seq_num}
  BY DEF tcp_socket_close, ArmAck, Advance
<1>2. sk \in Sockets
  BY DEF TypeInv
<1>3. Built(sk, f, 0) = p
  BY DEF Built
<1>4. /\ f \in Flags
      /\ "ESTABLISHED" \in TCP_STATE /\ "FIN_WAIT_1" \in TCP_STATE
      /\ sk.seq_num \in Nat /\ sk.ack_num \in Nat /\ sk.sport \in Nat
      /\ sk.rx \in Seq(Nat) /\ sk.tx \in Seq(TxEntries)
  BY <1>2, SockFields DEF ACK, FIN, Flags, TCP_STATE
<1>5. p \in Segments
  BY <1>2, <1>4, PacketTyped DEF Flags
<1> HIDE DEF f
<1>6. Advance(Kept(sk, f, 0), "FIN_WAIT_1")
        = Sock("FIN_WAIT_1", sk.sport, sk.seq_num + 1, sk.ack_num, sk.rx,
               Append(sk.tx, Entry(sk.seq_num, 0,
                         Segment(f, sk.seq_num, sk.ack_num, 0, sk.sport))))
  BY <1>2, <1>4, KeptEmpty
<1> HIDE DEF p
<1>8. Sent({p})
  BY <1>1, <1>3, <1>5, SendsOne
<1> QED
  BY <1>1, <1>6, <1>8 DEF SendsFin, p, f

\* tcp_ack_timeout sends packets of tx_data_list.
LEMMA AckTimeoutIs ==
    ASSUME TypeInv, NEW n \in ackt, tcp_ack_timeout(n)
    PROVE  /\ UNCHANGED sk /\ (Sent({}) \/ UNCHANGED toPeer)
           /\ ackt' = ackt \/ (/\ ackt' = ackt \ {n}
                               /\ \/ sk.state = "CLOSED"
                                  \/ \A e \in Range(sk.tx) : e.send_seq_num # n)
<1>1. CASE sk.state = "CLOSED" \/ Waiting(n) = {}
  BY <1>1 DEF tcp_ack_timeout, Waiting
<1>2. CASE ~(sk.state = "CLOSED" \/ Waiting(n) = {})
  <2>1. Sends(Packets(Waiting(n)), << >>) /\ UNCHANGED <<sk, ackt>>
    BY <1>2 DEF tcp_ack_timeout
  <2>2. sk.tx \in Seq(TxEntries)
    BY SockFields DEF TypeInv
  <2>3. Packets(Waiting(n)) \subseteq TxPackets(sk.tx)
    BY <2>2 DEF Packets, Waiting, TxPackets, Range
  <2>4. Sent({})
    BY <2>1, <2>3, SendsNone
  <2> QED
    BY <2>1, <2>4
<1> QED
  BY <1>1, <1>2

\* Delivers takes nothing but m from the network.
LEMMA Delivered ==
    ASSUME NEW S, NEW net \in Seq(S), NEW m, NEW next,
           \/ net # << >> /\ (next = Tail(net) \/ next = net)
           \/ \E i \in 1 .. Len(net) : next = RemoveAt(net, i)
    PROVE  next \in Seq(S) /\ Range(next) \subseteq Range(net)
<1>1. CASE net # << >> /\ next = Tail(net)
  BY <1>1, TailKeeps
<1>2. CASE net # << >> /\ next = net
  BY <1>2
<1>3. ASSUME NEW i \in 1 .. Len(net), next = RemoveAt(net, i)
      PROVE  next \in Seq(S) /\ Range(next) \subseteq Range(net)
  BY <1>3, RemoveAtKeeps
<1> QED
  BY <1>1, <1>2, <1>3

\* The end of tcp_socket_recv with and without data.
LEMMA PopRxIs ==
    ASSUME TypeInv, PopRx
    PROVE  \/ sk.rx = << >> /\ UNCHANGED <<sk, read>>
           \/ /\ sk.rx # << >>
              /\ sk' = Sock(sk.state, sk.sport, sk.seq_num, sk.ack_num, Tail(sk.rx), sk.tx)
              /\ \E x \in Reads : x.data = Head(sk.rx) /\ read' = Append(read, x)
<1>1. CASE sk.rx = << >>
  BY <1>1 DEF PopRx
<1>2. CASE sk.rx # << >>
  <2> DEFINE t == Tail(sk.rx)
             h == Head(sk.rx)
  <2>1. PICK size \in Sizes :
          sk' = ToRx(sk, t) /\ read' = Append(read, [data |-> h, len |-> Min({size, DataLen})])
    BY <1>2 DEF PopRx, ToRx
  <2>2. sk \in Sockets /\ sk.rx \in Seq(Nat)
    BY SockFields DEF TypeInv
  <2>3. h \in Nat
    BY <1>2, <2>2
  <2> HIDE DEF t, h
  <2>4. ToRx(sk, t) = Sock(sk.state, sk.sport, sk.seq_num, sk.ack_num, t, sk.tx)
    BY <2>2, ToFieldIs
  <2>5. size \in Nat /\ DataLen \in Nat
    BY TcpAssumption
  <2>6. Min({size, DataLen}) \in {size, DataLen}
    BY <2>5 DEF Min
  <2>7. [data |-> h, len |-> Min({size, DataLen})] \in Reads
    BY <2>3, <2>5, <2>6 DEF Reads
  <2> QED
    BY <1>2, <2>1, <2>4, <2>7 DEF t, h
<1> QED
  BY <1>1, <1>2
-----------------------------------------------------------------------------
(* What each step of the peer does.                                        *)

PeerOf(state, sent, fin, una, rcv) ==
    [state |-> state, syn |-> peer.syn, sent |-> sent, fin |-> fin, una |-> una, rcv |-> rcv]

InOrder(m) == m.seq = peer.rcv /\ (m.data # 0 \/ "FIN" \in m.flags)

Opens(m) ==
    /\ peer.state \in {"LISTEN", "SYN_SENT"} /\ "SYN" \in m.flags
    /\ \E una \in Nat : peer' = PeerOf("OPEN", peer.sent, peer.fin, una, m.seq + 1)
    /\ UNCHANGED peergot

Advances(m) ==
    /\ peer.state = "OPEN"
    /\ \E una \in Nat :
         peer' = PeerOf("OPEN", peer.sent, peer.fin, una,
                        IF InOrder(m) THEN peer.rcv + 1 ELSE peer.rcv)
    /\ peergot' = IF InOrder(m) /\ m.data # 0 THEN Append(peergot, m.data) ELSE peergot

\* The peer sends a segment or none.
Says == toUs' = toUs \/ \E q : Proper(q, peer') /\ toUs' = Append(toUs, q)

\* What each field of the peer holds.
LEMMA PeerFields ==
    ASSUME peer \in Peers
    PROVE  /\ peer = PeerOf(peer.state, peer.sent, peer.fin, peer.una, peer.rcv)
           /\ peer.state \in {"IDLE", "LISTEN", "SYN_SENT", "OPEN"}
           /\ peer.syn \in {SYN, SYN \cup ACK} /\ peer.fin \in BOOLEAN
           /\ peer.sent \in Nat /\ peer.una \in Nat /\ peer.rcv \in Nat
  BY DEF Peers, PeerOf

\* A peer put together from typed fields is typed.
LEMMA PeerTyped ==
    ASSUME peer \in Peers, NEW state \in {"IDLE", "LISTEN", "SYN_SENT", "OPEN"},
           NEW sent \in Nat, NEW fin \in BOOLEAN, NEW una \in Nat, NEW rcv \in Nat
    PROVE  PeerOf(state, sent, fin, una, rcv) \in Peers
  BY DEF Peers, PeerOf

\* The greater of two naturals is one.
LEMMA MaxOfTwo ==
    ASSUME NEW a \in Nat, NEW b \in Nat
    PROVE  Max({a, b}) \in Nat
  BY DEF Max

\* The segments the peer sends.
LEMMA ProperSegment ==
    ASSUME peer \in Peers, NEW p, NEW flags \in Flags, NEW seq \in Nat, NEW ack \in Nat,
           NEW data \in Nat, NEW port \in Nat,
           data # 0 => data = seq /\ data <= p.sent,
           "SYN" \in flags => seq = 0, "FIN" \in flags => p.fin, ack <= p.rcv
    PROVE  Proper(Segment(flags, seq, ack, data, port), p)
<1> DEFINE m == Segment(flags, seq, ack, data, port)
<1>1. m.flags = flags /\ m.seq = seq /\ m.ack = ack /\ m.data = data
  BY DEF Segment
<1>2. m \in Segments
  BY PacketTyped DEF Flags
<1> HIDE DEF m
<1> QED
  BY <1>1, <1>2 DEF Proper, m

\* The acknowledgement the peer sends is one it may send.
LEMMA PeerAckProper ==
    ASSUME peer \in Peers, sk \in Sockets, NEW p \in Peers
    PROVE  Proper(PeerAck(p), p)
<1> DEFINE n == p.sent + (IF p.fin THEN 2 ELSE 1)
<1>1. n \in Nat /\ p.rcv \in Nat /\ p.rcv <= p.rcv /\ sk.sport \in Nat /\ ACK \in Flags
  <2>1. p.sent \in Nat /\ p.rcv \in Nat
    BY DEF Peers
  <2>2. sk.sport \in Nat
    BY SockFields
  <2>3. ACK \in Flags
    BY DEF ACK, Flags
  <2> QED
    BY <2>1, <2>2, <2>3
<1>2. "SYN" \notin ACK /\ "FIN" \notin ACK
  BY DEF ACK
<1>3. PeerAck(p) = Segment(ACK, n, p.rcv, 0, sk.sport)
  BY DEF PeerAck
<1> HIDE DEF n
<1>4. Proper(Segment(ACK, n, p.rcv, 0, sk.sport), p)
  BY <1>1, <1>2, ProperSegment
<1> QED
  BY <1>3, <1>4

\* A segment of the peer under number q, sent again.
LEMMA PeerSegProper ==
    ASSUME peer \in Peers, sk \in Sockets, NEW q \in Nat, NEW p \in Peers,
           q <= peer.sent \/ (q = peer.sent + 1 /\ peer.fin) \/ q = 0,
           p.sent = peer.sent, p.fin = peer.fin, peer.rcv <= p.rcv
    PROVE  Proper(PeerSeg(q), p)
<1> DEFINE f == IF q = 0 THEN peer.syn ELSE IF q <= peer.sent THEN ACK ELSE ACK \cup FIN
           d == IF 1 <= q /\ q <= peer.sent THEN q ELSE 0
<1>1. PeerSeg(q) = Segment(f, q, peer.rcv, d, sk.sport)
  BY DEF PeerSeg
<1>2. /\ peer.syn \in {SYN, SYN \cup ACK} /\ peer.sent \in Nat /\ peer.rcv \in Nat
      /\ sk.sport \in Nat /\ peer.fin \in BOOLEAN
  BY PeerFields, SockFields
<1>3. f \in Flags
  BY <1>2 DEF Flags, SYN, ACK, FIN
<1>4. d \in Nat /\ (d # 0 => d = q /\ d <= p.sent)
  BY <1>2
<1>5. "SYN" \in f => q = 0
  BY <1>2 DEF ACK, FIN
<1>6. "FIN" \in f => p.fin
  <2>1. CASE q = 0
    BY <1>2, <2>1 DEF SYN, ACK
  <2>2. CASE q # 0 /\ q <= peer.sent
    BY <2>2 DEF ACK
  <2>3. CASE q # 0 /\ ~(q <= peer.sent)
    BY <1>2, <2>3
  <2> QED
    BY <2>1, <2>2, <2>3
<1> HIDE DEF f, d
<1>7. Proper(Segment(f, q, peer.rcv, d, sk.sport), p)
  BY <1>2, <1>3, <1>4, <1>5, <1>6, ProperSegment
<1> QED
  BY <1>1, <1>7

\* The peer opens or advances, and may answer.
LEMMA PeerTakesIs ==
    ASSUME TypeInv, WireInv, NEW m \in Segments, PeerTakes(m)
    PROVE  (Opens(m) \/ Advances(m)) /\ Says /\ peer' \in Peers
<1>1. peer \in Peers /\ sk \in Sockets /\ m.seq + 1 \in Nat
  BY SegmentFields DEF TypeInv
<1>2. /\ peer.syn \in {SYN, SYN \cup ACK} /\ peer.fin \in BOOLEAN
      /\ peer.sent \in Nat /\ peer.una \in Nat /\ peer.rcv \in Nat /\ sk.sport \in Nat
  BY <1>1, PeerFields, SockFields
<1>3. CASE /\ peer.state = "LISTEN"
           /\ "SYN" \in m.flags
           /\ peer' = [peer EXCEPT !.state = "OPEN", !.rcv = m.seq + 1]
           /\ toUs' = Append(toUs, [PeerSeg(0) EXCEPT !.ack = m.seq + 1])
           /\ UNCHANGED peergot
  <2> DEFINE r == m.seq + 1
             q == Segment(peer.syn, 0, r, 0, sk.sport)
  <2>1. peer' = PeerOf("OPEN", peer.sent, peer.fin, peer.una, r)
    <3> DEFINE p1 == [peer EXCEPT !.state = "OPEN"]
    <3> HIDE DEF r
    <3>1. p1 = PeerOf("OPEN", peer.sent, peer.fin, peer.una, peer.rcv) /\ p1 \in Peers
      BY <1>1 DEF Peers, PeerOf
    <3>2. peer' = [p1 EXCEPT !.rcv = r]
      BY <1>3 DEF r
    <3> HIDE DEF p1
    <3>3. [p1 EXCEPT !.rcv = r] = PeerOf("OPEN", peer.sent, peer.fin, peer.una, r)
      BY <3>1 DEF Peers, PeerOf
    <3> QED
      BY <3>2, <3>3
  <2>2. toUs' = Append(toUs, q)
    <3>1. PeerSeg(0) = Segment(peer.syn, 0, peer.rcv, 0, sk.sport)
      BY <1>2 DEF PeerSeg
    <3>2. [Segment(peer.syn, 0, peer.rcv, 0, sk.sport) EXCEPT !.ack = r] = q
      BY DEF Segment
    <3> QED
      BY <1>3, <3>1, <3>2
  <2>3. peer'.rcv = r /\ peer' \in Peers
    BY <1>1, <1>2, <2>1, PeerTyped DEF PeerOf
  <2>4. Proper(q, peer')
    <3>1. peer.syn \in Flags /\ "FIN" \notin peer.syn /\ r <= peer'.rcv /\ r \in Nat
      BY <1>1, <1>2, <2>3 DEF Flags, SYN, ACK
    <3> HIDE DEF r
    <3> QED
      BY <1>1, <1>2, <3>1, ProperSegment
  <2>5. Opens(m)
    BY <1>2, <1>3, <2>1 DEF Opens
  <2> QED
    BY <2>2, <2>3, <2>4, <2>5 DEF Says
<1>4. CASE /\ peer.state = "SYN_SENT"
           /\ {"SYN", "ACK"} \subseteq m.flags
           /\ peer' = [peer EXCEPT !.state = "OPEN", !.rcv = m.seq + 1, !.una = 1]
           /\ toUs' = Append(toUs, PeerAck(peer'))
           /\ UNCHANGED peergot
  <2> DEFINE r == m.seq + 1
  <2>1. peer' = PeerOf("OPEN", peer.sent, peer.fin, 1, r)
    <3> DEFINE p1 == [peer EXCEPT !.state = "OPEN"]
               p2 == [p1 EXCEPT !.rcv = r]
    <3>0. r \in Nat
      BY <1>1
    <3> HIDE DEF r
    <3>1. p1 = PeerOf("OPEN", peer.sent, peer.fin, peer.una, peer.rcv) /\ p1 \in Peers
      BY <1>1 DEF Peers, PeerOf
    <3>2. peer' = [p2 EXCEPT !.una = 1]
      BY <1>4 DEF r
    <3> HIDE DEF p1
    <3>3. p2 = PeerOf("OPEN", peer.sent, peer.fin, peer.una, r)
      BY <3>1 DEF Peers, PeerOf
    <3>4. p2 \in Peers
      BY <3>0, <3>1 DEF Peers
    <3> HIDE DEF p2
    <3>5. [p2 EXCEPT !.una = 1] = PeerOf("OPEN", peer.sent, peer.fin, 1, r)
      BY <3>3, <3>4 DEF Peers, PeerOf
    <3> QED
      BY <3>2, <3>5
  <2>2. peer' \in Peers
    BY <1>1, <1>2, <2>1, PeerTyped
  <2>3. Proper(PeerAck(peer'), peer')
    BY <1>1, <2>2, PeerAckProper
  <2>4. Opens(m)
    BY <1>4, <2>1 DEF Opens
  <2> QED
    BY <1>4, <2>2, <2>3, <2>4 DEF Says
<1>5. CASE /\ peer.state = "OPEN"
           /\ peer' = Advanced(m)
           /\ peergot' = IF peer'.rcv > peer.rcv /\ m.data # 0 THEN Append(peergot, m.data)
                         ELSE peergot
           /\ toUs' = IF m.data = 0 /\ m.flags = ACK THEN toUs
                      ELSE Append(toUs, IF peer'.una = 0 THEN PeerSeg(0) ELSE PeerAck(peer'))
  <2> DEFINE una == IF "ACK" \in m.flags /\ m.ack <= PeerNext
                    THEN Max({peer.una, m.ack}) ELSE peer.una
             r == IF InOrder(m) THEN peer.rcv + 1 ELSE peer.rcv
  <2>1. una \in Nat /\ r \in Nat
    BY <1>2, MaxOfTwo, SegmentFields
  <2>2. peer' = PeerOf("OPEN", peer.sent, peer.fin, una, r)
    <3> DEFINE p == [peer EXCEPT !.una = una]
               inOrder == m.seq = p.rcv /\ (m.data # 0 \/ "FIN" \in m.flags)
    <3>1. peer' = [p EXCEPT !.rcv = IF inOrder THEN @ + 1 ELSE @]
      BY <1>5 DEF Advanced
    <3> HIDE DEF una
    <3>2. p = PeerOf("OPEN", peer.sent, peer.fin, una, peer.rcv) /\ p \in Peers
      BY <1>1, <1>5, <2>1 DEF Peers, PeerOf
    <3> HIDE DEF p
    <3>3. p.rcv = peer.rcv
      BY <3>2 DEF PeerOf
    <3>4. (IF inOrder THEN p.rcv + 1 ELSE p.rcv) = r
      BY <3>3 DEF InOrder
    <3>5. peer' = [p EXCEPT !.rcv = r]
      BY <3>1, <3>4
    <3> HIDE DEF r
    <3>6. [p EXCEPT !.rcv = r] = PeerOf("OPEN", peer.sent, peer.fin, una, r)
      BY <3>2 DEF Peers, PeerOf
    <3> QED
      BY <3>5, <3>6
  <2>3. peer' \in Peers
    BY <1>1, <1>2, <2>1, <2>2, PeerTyped
  <2>4. /\ peer'.rcv = r /\ peer'.sent = peer.sent /\ peer'.fin = peer.fin
        /\ peer.rcv <= r /\ (r > peer.rcv <=> InOrder(m))
    <3>1. peer'.rcv = r /\ peer'.sent = peer.sent /\ peer'.fin = peer.fin
      BY <2>2 DEF PeerOf
    <3> QED
      BY <1>2, <3>1
  <2>5. Advances(m)
    BY <1>5, <2>1, <2>2, <2>4 DEF Advances
  <2>6. Proper(PeerAck(peer'), peer')
    BY <1>1, <2>3, PeerAckProper
  <2>7. Proper(PeerSeg(0), peer')
    BY <1>1, <2>3, <2>4, PeerSegProper
  <2>8. Says
    BY <1>5, <2>6, <2>7 DEF Says
  <2> QED
    BY <2>3, <2>5, <2>8
<1> QED
  BY <1>3, <1>4, <1>5 DEF PeerTakes

\* The steps of the peer by itself.
PeerMoves ==
    /\ peer' \in Peers
    /\ peer'.rcv = peer.rcv /\ peer.sent <= peer'.sent /\ (peer.fin => peer'.fin)
    /\ peer'.state = peer.state \/ (peer.state = "IDLE" /\ peer'.state = "SYN_SENT")
    /\ peer'.state # "IDLE" /\ Says
    /\ UNCHANGED <<sk, upc, woken, timers, userlog, panicked, toPeer, nfault, peergot>>

\* The steps the peer takes by itself.
LEMMA PeerMovesIs ==
    ASSUME TypeInv, WireInv, PeerConnect \/ PeerSend \/ PeerFin \/ PeerRetransmit
    PROVE  PeerMoves
<1>1. peer \in Peers /\ sk \in Sockets
  BY DEF TypeInv
<1>2. /\ peer.syn \in {SYN, SYN \cup ACK} /\ peer.fin \in BOOLEAN
      /\ peer.sent \in Nat /\ peer.una \in Nat /\ peer.rcv \in Nat /\ sk.sport \in Nat
  BY <1>1, PeerFields, SockFields
<1>3. CASE PeerConnect
  <2>1. /\ peer.state = "IDLE" /\ peer' = [peer EXCEPT !.state = "SYN_SENT"]
        /\ toUs' = Append(toUs, PeerSeg(0))
        /\ UNCHANGED <<sk, upc, woken, timers, userlog, panicked, toPeer, nfault, peergot>>
    BY <1>3 DEF PeerConnect
  <2>2. /\ peer' \in Peers /\ peer'.sent = peer.sent /\ peer'.fin = peer.fin
        /\ peer'.rcv = peer.rcv /\ peer'.state = "SYN_SENT"
    BY <1>1, <2>1 DEF Peers
  <2>3. Proper(PeerSeg(0), peer')
    BY <1>1, <1>2, <2>2, PeerSegProper
  <2> QED
    BY <1>2, <2>1, <2>2, <2>3 DEF PeerMoves, Says
<1>4. CASE PeerSend
  <2> DEFINE d == peer.sent + 1
  <2>1. /\ peer.state = "OPEN" /\ peer' = [peer EXCEPT !.sent = d]
        /\ toUs' = Append(toUs, Segment(ACK, d, peer.rcv, d, sk.sport))
        /\ UNCHANGED <<sk, upc, woken, timers, userlog, panicked, toPeer, nfault, peergot>>
    BY <1>4 DEF PeerSend, PeerUp
  <2>2. d \in Nat /\ peer.sent <= d /\ d <= d
    BY <1>2
  <2> HIDE DEF d
  <2>3. /\ peer' \in Peers /\ peer'.sent = d /\ peer'.fin = peer.fin
        /\ peer'.rcv = peer.rcv /\ peer'.state = "OPEN"
    BY <1>1, <2>1, <2>2 DEF Peers
  <2>4. ACK \in Flags /\ "SYN" \notin ACK /\ "FIN" \notin ACK
    BY DEF ACK, Flags
  <2>5. Proper(Segment(ACK, d, peer.rcv, d, sk.sport), peer')
    BY <1>1, <1>2, <2>2, <2>3, <2>4, ProperSegment
  <2> QED
    BY <1>2, <2>1, <2>2, <2>3, <2>5 DEF PeerMoves, Says
<1>5. CASE PeerFin
  <2> DEFINE d == peer.sent + 1
  <2>1. /\ peer.state = "OPEN" /\ peer' = [peer EXCEPT !.fin = TRUE]
        /\ toUs' = Append(toUs, Segment(ACK \cup FIN, d, peer.rcv, 0, sk.sport))
        /\ UNCHANGED <<sk, upc, woken, timers, userlog, panicked, toPeer, nfault, peergot>>
    BY <1>5 DEF PeerFin, PeerUp
  <2>2. d \in Nat
    BY <1>2
  <2> HIDE DEF d
  <2>3. /\ peer' \in Peers /\ peer'.sent = peer.sent /\ peer'.fin
        /\ peer'.rcv = peer.rcv /\ peer'.state = "OPEN"
    BY <1>1, <2>1 DEF Peers
  <2>4. ACK \cup FIN \in Flags /\ "SYN" \notin ACK \cup FIN
    BY DEF ACK, FIN, Flags
  <2>5. Proper(Segment(ACK \cup FIN, d, peer.rcv, 0, sk.sport), peer')
    <3> DEFINE f == ACK \cup FIN
    <3>1. f \in Flags /\ "SYN" \notin f
      BY <2>4
    <3> HIDE DEF f
    <3>2. "FIN" \in f => peer'.fin
      BY <2>3
    <3>3. peer.rcv <= peer'.rcv
      BY <1>2, <2>3
    <3>4. Proper(Segment(f, d, peer.rcv, 0, sk.sport), peer')
      BY <1>1, <1>2, <2>2, <3>1, <3>2, <3>3, ProperSegment
    <3> QED
      BY <3>4 DEF f
  <2>6. peer'.state = peer.state /\ peer'.state # "IDLE" /\ (peer.fin => peer'.fin)
    BY <2>1, <2>3
  <2>7. Says
    BY <2>1, <2>5 DEF Says
  <2>8. UNCHANGED <<sk, upc, woken, timers, userlog, panicked, toPeer, nfault, peergot>>
    BY <2>1
  <2>9. peer'.rcv = peer.rcv /\ peer.sent <= peer'.sent /\ peer' \in Peers
    BY <1>2, <2>3
  <2> QED
    BY <2>6, <2>7, <2>8, <2>9 DEF PeerMoves
<1>6. CASE PeerRetransmit
  <2>1. /\ peer.state \in {"OPEN", "SYN_SENT"} /\ peer.una < PeerNext /\ UNCHANGED peer
        /\ toUs' = Append(toUs, PeerSeg(peer.una))
        /\ UNCHANGED <<sk, upc, woken, timers, userlog, panicked, toPeer, nfault, peergot>>
    BY <1>6 DEF PeerRetransmit, peervars
  <2>2. peer.una <= peer.sent \/ (peer.una = peer.sent + 1 /\ peer.fin) \/ peer.una = 0
    BY <1>2, <2>1 DEF PeerNext
  <2>3. Proper(PeerSeg(peer.una), peer)
    BY <1>1, <1>2, <2>2, PeerSegProper
  <2> QED
    BY <1>1, <1>2, <2>1, <2>3 DEF PeerMoves, Says
<1> QED
  BY <1>3, <1>4, <1>5, <1>6
-----------------------------------------------------------------------------
(* Types, and the wire.                                                    *)

\* A wakeup leaves a flag.
LEMMA WokenTyped ==
    ASSUME woken \in BOOLEAN, Wakeup \/ UNCHANGED woken
    PROVE  woken' \in BOOLEAN
  BY DEF Wakeup

\* A segment leaves a typed socket, network and timers.
LEMMA RxTyped ==
    ASSUME TypeInv, NEW m \in Segments, RxCase(m)
    PROVE  sk' \in Sockets /\ toPeer' \in Seq(Segments) /\ ackt' \subseteq Nat
           /\ woken' \in BOOLEAN
<1>1. /\ sk \in Sockets /\ toPeer \in Seq(Segments) /\ ackt \subseteq Nat /\ woken \in BOOLEAN
      /\ sk.state \in TCP_STATE /\ sk.seq_num \in Nat /\ sk.ack_num \in Nat
      /\ sk.sport \in Nat /\ sk.rx \in Seq(Nat) /\ sk.tx \in Seq(TxEntries)
  BY SockFields DEF TypeInv
<1>2. /\ AckAfter(m) \in Nat /\ AckAfter(m) + 1 \in Nat /\ RxAfter(m) \in Seq(Nat)
      /\ m.seq + 1 \in Nat /\ sk.seq_num + 1 \in Nat /\ sk.ack_num + 1 \in Nat
  <2>1. AckAfter(m) \in Nat /\ m.seq \in Nat /\ sk.seq_num \in Nat /\ sk.ack_num \in Nat
    BY <1>1, AfterTyped, SegmentFields
  <2>2. /\ AckAfter(m) + 1 \in Nat /\ m.seq + 1 \in Nat /\ sk.seq_num + 1 \in Nat
        /\ sk.ack_num + 1 \in Nat
    BY <2>1
  <2>3. RxAfter(m) \in Seq(Nat)
    BY <1>1, AfterTyped
  <2> QED
    BY <2>1, <2>2, <2>3
<1>3. /\ "SYN_RCVD" \in TCP_STATE /\ "ESTABLISHED" \in TCP_STATE /\ "CLOSING" \in TCP_STATE
      /\ "FIN_WAIT_1" \in TCP_STATE /\ "CLOSED" \in TCP_STATE
  BY DEF TCP_STATE
<1>4. \A tx : Acked(tx, sk.tx, m.ack) => tx \in Seq(TxEntries)
  BY DEF Acked
<1>5. CASE Ignored
  BY <1>1, <1>5 DEF Ignored
<1>6. CASE SynTaken(m)
  <2> DEFINE p == Segment(SYN \cup ACK, sk.seq_num, m.seq + 1, 0, sk.sport)
             t == Append(sk.tx, Entry(sk.seq_num, 0, p))
  <2>1. t \in Seq(TxEntries)
    <3>1. SYN \cup ACK \in SUBSET {"SYN", "ACK", "FIN"}
      BY DEF SYN, ACK
    <3>2. Entry(sk.seq_num, 0, p) \in TxEntries
      BY <1>1, <1>2, <3>1, PacketTyped
    <3> QED
      BY <1>1, <3>2, AppendKeeps
  <2>2. /\ sk' = Sock("SYN_RCVD", sk.sport, sk.seq_num + 1, m.seq + 1, sk.rx, t)
        /\ toPeer' \in Seq(Segments) /\ ackt' = ackt \cup {sk.seq_num} /\ woken' = woken
    BY <1>6 DEF SynTaken, Sent
  <2> HIDE DEF t
  <2> QED
    BY <1>1, <1>2, <1>3, <2>1, <2>2, SockTyped
<1>7. CASE Repeats
  BY <1>1, <1>7 DEF Repeats, Sent
<1>8. CASE LastAck
  BY <1>1, <1>3, <1>8, SockTyped, WokenTyped DEF LastAck
<1>9. ASSUME NEW tx, Acked(tx, sk.tx, m.ack), TakesFin(m, tx)
      PROVE  sk' \in Sockets /\ toPeer' \in Seq(Segments) /\ ackt' \subseteq Nat
             /\ woken' \in BOOLEAN
  <2> DEFINE p == Segment(ACK \cup FIN, sk.seq_num, AckAfter(m) + 1, 0, sk.sport)
             t == Append(tx, Entry(sk.seq_num, 0, p))
  <2>1. t \in Seq(TxEntries)
    <3>1. ACK \cup FIN \in SUBSET {"SYN", "ACK", "FIN"}
      BY DEF FIN, ACK
    <3>2. Entry(sk.seq_num, 0, p) \in TxEntries
      BY <1>1, <1>2, <3>1, PacketTyped
    <3> QED
      BY <1>4, <1>9, <3>2, AppendKeeps
  <2>2. /\ sk' = Sock("CLOSING", sk.sport, sk.seq_num, AckAfter(m) + 1, RxAfter(m), t)
        /\ toPeer' \in Seq(Segments) /\ ackt' = ackt \cup {sk.seq_num}
        /\ Wakeup \/ UNCHANGED woken
    BY <1>9 DEF TakesFin, Sent, WakesFor
  <2> HIDE DEF t
  <2> QED
    BY <1>1, <1>2, <1>3, <2>1, <2>2, SockTyped, WokenTyped
<1>10. ASSUME NEW tx, Acked(tx, sk.tx, m.ack),
              \/ HandshakeEnds(m, tx) \/ SynAnswered(m, tx) \/ Takes(m, tx)
              \/ FinWaits(m, tx) \/ FinAnswered(m, tx)
       PROVE  sk' \in Sockets /\ toPeer' \in Seq(Segments) /\ ackt' \subseteq Nat
              /\ woken' \in BOOLEAN
  <2>1. /\ toPeer' \in Seq(Segments) /\ ackt' = ackt /\ (Wakeup \/ UNCHANGED woken)
        /\ \E state \in {"ESTABLISHED", "FIN_WAIT_1", "CLOSED"},
              ack \in {AckAfter(m), m.seq + 1, sk.ack_num, sk.ack_num + 1},
              rx \in {RxAfter(m), sk.rx} :
             sk' = Sock(state, sk.sport, sk.seq_num, ack, rx, tx)
    BY <1>10 DEF HandshakeEnds, SynAnswered, Takes, FinWaits, FinAnswered, Sent, WakesFor
  <2>2. PICK state \in TCP_STATE, ack \in Nat, rx \in Seq(Nat) :
          sk' = Sock(state, sk.sport, sk.seq_num, ack, rx, tx)
    BY <1>1, <1>2, <1>3, <2>1
  <2> QED
    BY <1>1, <1>4, <1>10, <2>1, <2>2, SockTyped, WokenTyped
<1> QED
  BY <1>5, <1>6, <1>7, <1>8, <1>9, <1>10 DEF RxCase

\* The network loses and delivers, and makes up nothing.
LEMMA TcpRxIs ==
    ASSUME TypeInv, TcpRx
    PROVE  \E m \in Range(toUs) :
             /\ m \in Segments /\ RxCase(m) /\ nfault' \in Nat
             /\ toUs' \in Seq(Segments) /\ Range(toUs') \subseteq Range(toUs)
             /\ UNCHANGED <<upc, connt, recvt, matched, ncall, read, eof, panicked, peer, peergot>>
<1>1. PICK m \in Range(toUs) : Delivers(toUs, m) /\ tcp_recv_pkt(m)
  BY DEF TcpRx
<1>2. toUs \in Seq(Segments) /\ nfault \in Nat
  BY DEF TypeInv
<1>3. m \in Segments
  BY <1>2, RangeTyped
<1>4. /\ \/ toUs # << >> /\ (toUs' = Tail(toUs) \/ toUs' = toUs)
         \/ \E i \in 1 .. Len(toUs) : toUs' = RemoveAt(toUs, i)
      /\ nfault' \in {nfault, nfault + 1}
  <2>1. \A i \in 2 .. Len(toUs) : i \in 1 .. Len(toUs)
    BY <1>2
  <2> QED
    BY <1>1, <2>1 DEF Delivers
<1>5. toUs' \in Seq(Segments) /\ Range(toUs') \subseteq Range(toUs)
  BY <1>2, <1>4, Delivered
<1>6. RxCase(m)
  BY <1>1, <1>3, RxCases
<1> QED
  BY <1>2, <1>3, <1>4, <1>5, <1>6 DEF TcpRx, userlog, peervars

\* A segment reaches the peer, and the network may keep a copy.
LEMMA PeerRxIs ==
    ASSUME TypeInv, WireInv, PeerRx
    PROVE  \E m \in Range(toPeer) :
             /\ m \in Segments /\ (Opens(m) \/ Advances(m)) /\ Says /\ peer' \in Peers
             /\ nfault' \in Nat
             /\ toPeer' \in Seq(Segments) /\ Range(toPeer') \subseteq Range(toPeer)
             /\ UNCHANGED <<sk, upc, woken, timers, userlog, panicked>>
<1>1. PICK m \in Range(toPeer) : Delivers(toPeer, m) /\ PeerTakes(m)
  BY DEF PeerRx
<1>2. toPeer \in Seq(Segments) /\ nfault \in Nat
  BY DEF TypeInv
<1>3. m \in Segments
  BY <1>2, RangeTyped
<1>4. /\ \/ toPeer # << >> /\ (toPeer' = Tail(toPeer) \/ toPeer' = toPeer)
         \/ \E i \in 1 .. Len(toPeer) : toPeer' = RemoveAt(toPeer, i)
      /\ nfault' \in {nfault, nfault + 1}
  <2>1. \A i \in 2 .. Len(toPeer) : i \in 1 .. Len(toPeer)
    BY <1>2
  <2> QED
    BY <1>1, <2>1 DEF Delivers
<1>5. toPeer' \in Seq(Segments) /\ Range(toPeer') \subseteq Range(toPeer)
  BY <1>2, <1>4, Delivered
<1> QED
  BY <1>1, <1>2, <1>3, <1>4, <1>5, PeerTakesIs DEF PeerRx

\* The network loses a segment and invents none.
LEMMA LoseIs ==
    ASSUME TypeInv, Lose
    PROVE  /\ nfault' \in Nat
           /\ toPeer' \in Seq(Segments) /\ Range(toPeer') \subseteq Range(toPeer)
           /\ toUs' \in Seq(Segments) /\ Range(toUs') \subseteq Range(toUs)
           /\ UNCHANGED <<sk, upc, woken, timers, userlog, panicked, peervars>>
<1>1. toPeer \in Seq(Segments) /\ toUs \in Seq(Segments) /\ nfault \in Nat
  BY DEF TypeInv
<1>2. DOMAIN toPeer = 1 .. Len(toPeer) /\ DOMAIN toUs = 1 .. Len(toUs)
  BY <1>1
<1>3. CASE \E i \in 1 .. Len(toPeer) : toPeer' = RemoveAt(toPeer, i) /\ UNCHANGED toUs
  BY <1>1, <1>3, Delivered DEF Lose
<1>4. CASE \E i \in 1 .. Len(toUs) : toUs' = RemoveAt(toUs, i) /\ UNCHANGED toPeer
  BY <1>1, <1>4, Delivered DEF Lose
<1> QED
  BY <1>2, <1>3, <1>4 DEF Lose

\* What is under way stays proper while the peer goes on.
LEMMA ProperKept ==
    ASSUME NEW m, NEW p \in Peers, NEW q \in Peers, Proper(m, p),
           p.sent <= q.sent, p.rcv <= q.rcv, p.fin => q.fin
    PROVE  Proper(m, q)
<1>1. /\ p.sent \in Nat /\ q.sent \in Nat /\ p.rcv \in Nat /\ q.rcv \in Nat
      /\ m.data \in Nat /\ m.ack \in Nat
  BY SegmentFields DEF Peers, Proper
<1>2. m.data # 0 => m.data = m.seq /\ m.data <= q.sent
  BY <1>1 DEF Proper
<1>3. m.ack <= q.rcv
  BY <1>1 DEF Proper
<1>4. m \in Segments /\ ("SYN" \in m.flags => m.seq = 0) /\ ("FIN" \in m.flags => q.fin)
  BY DEF Proper
<1> QED
  BY <1>2, <1>3, <1>4 DEF Proper

\* Whatever the peer says, the segments on their way to us stay proper.
LEMMA SaysKeeps ==
    ASSUME TypeInv, WireInv, Says, peer' \in Peers,
           peer.sent <= peer'.sent, peer.rcv <= peer'.rcv, peer.fin => peer'.fin
    PROVE  toUs' \in Seq(Segments) /\ \A m \in Range(toUs') : Proper(m, peer')
<1>1. toUs \in Seq(Segments) /\ peer \in Peers
  BY DEF TypeInv
<1>2. \A m \in Range(toUs) : Proper(m, peer')
  BY <1>1, ProperKept DEF WireInv
<1>3. ASSUME NEW q, Proper(q, peer'), toUs' = Append(toUs, q)
      PROVE  toUs' \in Seq(Segments) /\ \A m \in Range(toUs') : Proper(m, peer')
  <2>1. q \in Segments
    BY <1>3 DEF Proper
  <2>2. toUs' \in Seq(Segments) /\ Range(toUs') = Range(toUs) \cup {q}
    BY <1>1, <1>3, <2>1, AppendKeeps
  <2> QED
    BY <1>2, <1>3, <2>2
<1> QED
  BY <1>1, <1>2, <1>3 DEF Says

\* The peer takes a segment.
LEMMA PeerTaken ==
    ASSUME TypeInv, WireInv, NEW m \in Segments, Opens(m) \/ Advances(m)
    PROVE  /\ peer'.sent = peer.sent /\ peer'.fin = peer.fin /\ peer.rcv <= peer'.rcv
           /\ peer'.state = "OPEN" /\ peer.state # "IDLE"
           /\ peergot' \in Seq(Nat)
<1>1. peer \in Peers /\ peergot \in Seq(Nat) /\ m.data \in Nat /\ m.seq \in Nat
  BY SegmentFields DEF TypeInv
<1>2. peer.rcv \in Nat
  BY <1>1, PeerFields
<1>3. CASE Opens(m)
  <2>1. PICK una : peer' = PeerOf("OPEN", peer.sent, peer.fin, una, m.seq + 1)
    BY <1>3 DEF Opens
  <2>2. /\ peer'.sent = peer.sent /\ peer'.fin = peer.fin /\ peer'.rcv = m.seq + 1
        /\ peer'.state = "OPEN"
    BY <2>1 DEF PeerOf
  <2>3. peer.rcv = 0 /\ peer.state # "IDLE" /\ peergot' = peergot
    BY <1>3 DEF Opens, WireInv
  <2> QED
    BY <1>1, <2>2, <2>3
<1>4. CASE Advances(m)
  <2> DEFINE r == IF InOrder(m) THEN peer.rcv + 1 ELSE peer.rcv
  <2>1. PICK una : peer' = PeerOf("OPEN", peer.sent, peer.fin, una, r)
    BY <1>4 DEF Advances
  <2>2. peer.rcv <= r
    BY <1>2
  <2> HIDE DEF r
  <2>3. /\ peer'.sent = peer.sent /\ peer'.fin = peer.fin /\ peer'.rcv = r
        /\ peer'.state = "OPEN"
    BY <2>1 DEF PeerOf
  <2>4. peergot' \in Seq(Nat) /\ peer.state = "OPEN"
    BY <1>1, <1>4, AppendKeeps DEF Advances
  <2> QED
    BY <2>2, <2>3, <2>4
<1> QED
  BY <1>3, <1>4

\* The steps in which the peer and the network stay as they are, but for what
\* we send.
UserTyped ==
    /\ sk' \in Sockets /\ upc' \in Labels /\ woken' \in BOOLEAN
    /\ ackt' \subseteq Nat /\ connt' \in Nat /\ recvt' \subseteq Works /\ matched' \in BOOLEAN
    /\ ncall' \in Calls
    /\ read' \in Seq(Reads) /\ eof' \in BOOLEAN /\ panicked' \in BOOLEAN
    /\ toPeer' \in Seq(Segments)
    /\ UNCHANGED <<toUs, nfault, peer, peergot>>

\* One more entry in tx_data_list.
LEMMA EntryJoins ==
    ASSUME NEW tx \in Seq(TxEntries), NEW seq \in Nat, NEW ack \in Nat, NEW flags \in Flags,
           NEW data \in Nat, NEW port \in Nat, NEW len \in Nat
    PROVE  Append(tx, Entry(seq, len, Segment(flags, seq, ack, data, port))) \in Seq(TxEntries)
<1>1. Entry(seq, len, Segment(flags, seq, ack, data, port)) \in TxEntries
  BY PacketTyped DEF Flags
<1> QED
  BY <1>1, AppendKeeps

\* Counting a call.
LEMMA CalledTyped ==
    ASSUME ncall \in Calls
    PROVE  /\ Called("connect") => ncall' \in Calls
           /\ Called("send") => ncall' \in Calls
           /\ Called("empty") => ncall' \in Calls
           /\ Called("recv") => ncall' \in Calls
<1> DEFINE c == ncall.connect + 1
           s == ncall.send + 1
           z == ncall.empty + 1
           r == ncall.recv + 1
<1>1. c \in Nat /\ s \in Nat /\ z \in Nat /\ r \in Nat
  BY DEF Calls
<1>2. /\ Called("connect") => ncall' = [ncall EXCEPT !.connect = c]
      /\ Called("send") => ncall' = [ncall EXCEPT !.send = s]
      /\ Called("empty") => ncall' = [ncall EXCEPT !.empty = z]
      /\ Called("recv") => ncall' = [ncall EXCEPT !.recv = r]
  BY DEF Called
<1> HIDE DEF c, s, z, r
<1>3. /\ [ncall EXCEPT !.connect = c] \in Calls
      /\ [ncall EXCEPT !.send = s] \in Calls
      /\ [ncall EXCEPT !.empty = z] \in Calls
      /\ [ncall EXCEPT !.recv = r] \in Calls
  BY <1>1 DEF Calls
<1> QED
  BY <1>2, <1>3

\* tcp_socket_connect keeps the types; a new connection has an empty network.
LEMMA ConnectTyped ==
    ASSUME TypeInv, WireInv, tcp_socket_connect
    PROVE  TypeInv' /\ WireInv'
<1>1. CASE sk.state # "CLOSED"
  BY <1>1 DEF tcp_socket_connect, Panic, TypeInv, WireInv, timers, userlog, netvars, peervars
<1>2. CASE sk.state = "CLOSED"
  <2> DEFINE n == ncall.connect + 1
             p == Segment(SYN, sk.seq_num, sk.ack_num, 0, n)
             t == Append(sk.tx, Entry(sk.seq_num, 0, p))
  <2>1. /\ sk \in Sockets /\ n \in Nat /\ sk.seq_num \in Nat /\ sk.ack_num \in Nat
        /\ sk.seq_num + 1 \in Nat /\ sk.rx \in Seq(Nat) /\ sk.tx \in Seq(TxEntries)
        /\ SYN \in Flags /\ "SYN_SENT" \in TCP_STATE
    <3>1. sk \in Sockets /\ n \in Nat
      BY DEF TypeInv, Calls
    <3>2. SYN \in Flags /\ "SYN_SENT" \in TCP_STATE
      BY DEF SYN, Flags, TCP_STATE
    <3> QED
      BY <3>1, <3>2, SockFields
  <2>2. p \in Segments /\ t \in Seq(TxEntries)
    BY <2>1, PacketTyped, EntryJoins DEF Flags
  <2>3. /\ sk' = Sock("SYN_SENT", n, sk.seq_num + 1, sk.ack_num, sk.rx, t)
        /\ toPeer' = <<p>> /\ ackt' = ackt \cup {sk.seq_num}
    BY <1>2, ConnectIs DEF Connects
  <2> HIDE DEF n, p, t
  <2>4. sk' \in Sockets /\ toPeer' \in Seq(Segments) /\ ackt' \subseteq Nat
    <3>1. Sock("SYN_SENT", n, sk.seq_num + 1, sk.ack_num, sk.rx, t) \in Sockets
      BY <2>1, <2>2, SockTyped
    <3>2. ackt \subseteq Nat
      BY DEF TypeInv
    <3>3. <<p>> \in Seq(Segments)
      BY <2>2
    <3>4. ackt \cup {sk.seq_num} \subseteq Nat
      BY <2>1, <3>2
    <3> QED
      BY <2>3, <3>1, <3>3, <3>4
  <2>5. /\ connt' = connt + 1 /\ upc' = "connect_sleep" /\ woken' = FALSE
        /\ Called("connect")
        /\ toUs' = << >> /\ peer' = PassivePeer
        /\ UNCHANGED <<recvt, matched, read, eof, panicked, nfault, peergot>>
    BY <1>2 DEF tcp_socket_connect, SleepIn
  <2>6. PassivePeer \in Peers /\ PassivePeer.rcv = 0
    BY DEF PassivePeer, Peers
  <2>7. ncall' \in Calls /\ connt' \in Nat
    BY <2>5, CalledTyped DEF TypeInv
  <2>8. toUs' \in Seq(Segments) /\ Range(toUs') = {}
    BY <2>5 DEF Range
  <2>9. TypeInv'
    BY <2>4, <2>5, <2>6, <2>7, <2>8 DEF TypeInv, Labels
  <2> QED
    BY <2>5, <2>6, <2>8, <2>9 DEF WireInv
<1> QED
  BY <1>1, <1>2

\* tcp_socket_send keeps the types,
LEMMA SendTyped ==
    ASSUME TypeInv, tcp_socket_send
    PROVE  UserTyped
<1>1. CASE sk.state # "ESTABLISHED"
  <2>1. Panic
    BY <1>1 DEF tcp_socket_send
  <2> QED
    BY <2>1 DEF Panic, TypeInv, UserTyped, timers, userlog, netvars, peervars
<1>2. ASSUME sk.state = "ESTABLISHED", NEW d \in Nat, SendsData(d), ncall' \in Calls
      PROVE  UserTyped
  <2> DEFINE l == Len1(d)
             t == Append(sk.tx, Entry(sk.seq_num, l,
                                  Segment(ACK, sk.seq_num, sk.ack_num, d, sk.sport)))
  <2>1. /\ sk \in Sockets /\ ackt \subseteq Nat /\ l \in Nat
    BY DEF TypeInv, Len1
  <2>2. /\ sk' = Sock("ESTABLISHED", sk.sport, sk.seq_num + l, sk.ack_num, sk.rx, t)
        /\ toPeer' \in Seq(Segments) /\ ackt' = ackt \cup {sk.seq_num}
    BY <1>2 DEF SendsData, Sent
  <2> HIDE DEF l
  <2>3. /\ sk.seq_num \in Nat /\ sk.ack_num \in Nat /\ sk.sport \in Nat
        /\ sk.seq_num + l \in Nat /\ sk.rx \in Seq(Nat) /\ sk.tx \in Seq(TxEntries)
    BY <2>1, SockFields
  <2>4. ACK \in Flags /\ "ESTABLISHED" \in TCP_STATE
    BY DEF ACK, Flags, TCP_STATE
  <2>5. t \in Seq(TxEntries)
    BY <1>2, <2>1, <2>3, <2>4, EntryJoins
  <2> HIDE DEF t
  <2>6. Sock("ESTABLISHED", sk.sport, sk.seq_num + l, sk.ack_num, sk.rx, t) \in Sockets
    BY <2>1, <2>3, <2>4, <2>5, SockTyped
  <2>7. ackt' \subseteq Nat
    BY <2>1, <2>2, <2>3
  <2>8. UNCHANGED <<upc, woken, connt, recvt, matched, read, eof, panicked, toUs, nfault, peervars>>
    BY <1>2 DEF tcp_socket_send
  <2> QED
    BY <1>2, <2>2, <2>6, <2>7, <2>8 DEF TypeInv, UserTyped, peervars
<1>3. CASE sk.state = "ESTABLISHED"
  <2>1. ncall \in Calls /\ 0 \in Nat /\ ncall.send + 1 \in Nat
    BY DEF TypeInv, Calls
  <2> QED
    BY <1>2, <1>3, <2>1, SendIs, CalledTyped
<1> QED
  BY <1>1, <1>3

\* tcp_socket_close too,
LEMMA CloseTyped ==
    ASSUME TypeInv, tcp_socket_close
    PROVE  UserTyped
<1>1. CASE sk.state \notin {"ESTABLISHED", "CLOSED", "CLOSING"}
  <2>1. Panic
    BY <1>1 DEF tcp_socket_close
  <2> QED
    BY <2>1 DEF Panic, TypeInv, UserTyped, timers, userlog, netvars, peervars
<1>2. CASE sk.state = "ESTABLISHED"
  <2> DEFINE f == ACK \cup FIN
             t == Append(sk.tx, Entry(sk.seq_num, 0,
                                  Segment(f, sk.seq_num, sk.ack_num, 0, sk.sport)))
  <2>1. /\ sk \in Sockets /\ ackt \subseteq Nat
    BY DEF TypeInv
  <2>2. /\ sk.seq_num \in Nat /\ sk.ack_num \in Nat /\ sk.sport \in Nat
        /\ sk.seq_num + 1 \in Nat /\ sk.rx \in Seq(Nat) /\ sk.tx \in Seq(TxEntries)
    BY <2>1, SockFields
  <2>3. f \in Flags /\ "FIN_WAIT_1" \in TCP_STATE
    BY DEF ACK, FIN, Flags, TCP_STATE
  <2>4. /\ sk' = Sock("FIN_WAIT_1", sk.sport, sk.seq_num + 1, sk.ack_num, sk.rx, t)
        /\ toPeer' \in Seq(Segments) /\ ackt' = ackt \cup {sk.seq_num}
    BY <1>2, CloseIs DEF SendsFin, Sent
  <2> HIDE DEF f
  <2>5. t \in Seq(TxEntries)
    BY <2>2, <2>3, EntryJoins
  <2> HIDE DEF t
  <2>6. Sock("FIN_WAIT_1", sk.sport, sk.seq_num + 1, sk.ack_num, sk.rx, t) \in Sockets
    BY <2>1, <2>2, <2>3, <2>5, SockTyped
  <2>7. ackt' \subseteq Nat
    BY <2>1, <2>2, <2>4
  <2>8. /\ upc' = "close_sleep" /\ woken' = FALSE
        /\ UNCHANGED <<connt, recvt, matched, userlog, panicked, toUs, nfault, peervars>>
    BY <1>2 DEF tcp_socket_close, SleepIn
  <2> QED
    BY <2>4, <2>6, <2>7, <2>8 DEF TypeInv, UserTyped, userlog, peervars, Labels
<1>3. CASE sk.state \in {"CLOSED", "CLOSING"}
  <2>1. /\ \/ upc' = "done" /\ UNCHANGED woken
           \/ upc' = "close_sleep" /\ woken' = FALSE
        /\ UNCHANGED <<sk, timers, userlog, panicked, netvars, peervars>>
    BY <1>3 DEF tcp_socket_close, SleepIn
  <2> QED
    BY <2>1 DEF TypeInv, UserTyped, timers, userlog, netvars, peervars, Labels
<1> QED
  BY <1>1, <1>2, <1>3

\* and so does the end of tcp_socket_recv.
LEMMA PopRxTyped ==
    ASSUME TypeInv, PopRx
    PROVE  sk' \in Sockets /\ read' \in Seq(Reads)
<1>1. sk \in Sockets /\ read \in Seq(Reads)
  BY DEF TypeInv
<1>2. CASE sk.rx = << >> /\ UNCHANGED <<sk, read>>
  BY <1>1, <1>2
<1>3. CASE /\ sk.rx # << >>
           /\ sk' = Sock(sk.state, sk.sport, sk.seq_num, sk.ack_num, Tail(sk.rx), sk.tx)
           /\ \E x \in Reads : read' = Append(read, x)
  <2>1. /\ sk.seq_num \in Nat /\ sk.ack_num \in Nat /\ sk.sport \in Nat
        /\ sk.state \in TCP_STATE /\ sk.rx \in Seq(Nat) /\ sk.tx \in Seq(TxEntries)
    BY <1>1, SockFields
  <2>2. Tail(sk.rx) \in Seq(Nat)
    BY <1>3, <2>1
  <2>3. sk' \in Sockets
    BY <1>1, <1>3, <2>1, <2>2, SockTyped
  <2>4. read' \in Seq(Reads)
    BY <1>1, <1>3, AppendKeeps
  <2> QED
    BY <2>3, <2>4
<1> QED
  BY <1>2, <1>3, PopRxIs

\* The calls on an open connection keep the types.
LEMMA TalkTyped ==
    ASSUME TypeInv, TalkStep
    PROVE  UserTyped
<1>1. CASE tcp_socket_send
  BY <1>1, SendTyped
<1>2. CASE tcp_socket_close
  BY <1>2, CloseTyped
<1>3. CASE RecvNow
  <2>1. /\ PopRx /\ eof' \in BOOLEAN
        /\ UNCHANGED <<upc, woken, timers, ncall, panicked, netvars, peervars>>
    BY <1>3 DEF RecvNow
  <2>2. sk' \in Sockets /\ read' \in Seq(Reads)
    BY <2>1, PopRxTyped
  <2> QED
    BY <2>1, <2>2 DEF TypeInv, UserTyped, timers, netvars, peervars
<1>4. CASE RecvSleep
  <2>1. /\ upc' = "recv_sleep" /\ woken' = FALSE /\ Called("recv")
        /\ UNCHANGED <<ackt, connt, matched, read, eof, panicked, netvars, peervars>>
    BY <1>4 DEF RecvSleep, SleepIn
  <2>2. ncall \in Calls /\ ncall.recv \in Nat /\ sk \in Sockets /\ sk.wait_id \in Nat
        /\ recvt \subseteq Works /\ MaxTick \in Nat
    BY SockFields, TcpAssumption DEF TypeInv, Calls
  <2>3. PICK w \in sk.wait_id .. MaxTick :
          /\ sk' = [sk EXCEPT !.wait_id = w]
          /\ recvt' = recvt \cup {[call |-> ncall.recv, wait_id |-> w]}
    BY <1>4 DEF RecvSleep
  <2>4. w \in Nat
    BY <2>2
  <2>5. [sk EXCEPT !.wait_id = w] \in Sockets
    BY <2>2, <2>4 DEF Sockets
  <2>6. ncall' \in Calls
    BY <2>1, <2>2, CalledTyped
  <2>7. sk' \in Sockets /\ recvt' \subseteq Works
    BY <2>2, <2>3, <2>4, <2>5 DEF Works
  <2> QED
    BY <2>1, <2>6, <2>7 DEF TypeInv, UserTyped, netvars, peervars, Labels
<1>5. CASE RecvReturn
  <2>1. /\ PopRx /\ upc' = "open" /\ woken' = FALSE
        /\ UNCHANGED <<timers, ncall, eof, panicked, netvars, peervars>>
    BY <1>5 DEF RecvReturn
  <2>2. sk' \in Sockets /\ read' \in Seq(Reads)
    BY <2>1, PopRxTyped
  <2> QED
    BY <2>1, <2>2 DEF TypeInv, UserTyped, timers, netvars, peervars, Labels
<1>6. CASE CloseReturn
  BY <1>6 DEF CloseReturn, TypeInv, UserTyped, timers, userlog, netvars, peervars, Labels
<1> QED
  BY <1>1, <1>2, <1>3, <1>4, <1>5, <1>6 DEF TalkStep

\* accept, and the returns of connect and accept.
LEMMA ServerTyped ==
    ASSUME TypeInv, ConnectReturn \/ ServerStep
    PROVE  UserTyped
<1>1. CASE ConnectReturn
  BY <1>1 DEF ConnectReturn, TypeInv, UserTyped, timers, userlog, netvars, peervars, Labels
<1>2. CASE tcp_socket_accept
  BY <1>2 DEF tcp_socket_accept, SleepIn, Panic, TypeInv, UserTyped, timers, userlog,
              netvars, peervars, Labels
<1>3. CASE AcceptReturn
  BY <1>3 DEF AcceptReturn, TypeInv, UserTyped, timers, userlog, netvars, peervars, Labels
<1>4. CASE BindListen /\ sk.state # "CLOSED"
  BY <1>4 DEF BindListen, Panic, TypeInv, UserTyped, timers, userlog, netvars, peervars
<1>5. CASE BindListen /\ sk.state = "CLOSED"
  <2>1. /\ sk' = [sk EXCEPT !.sport = 1, !.state = "LISTEN"] /\ upc' = "accept"
        /\ UNCHANGED <<woken, timers, userlog, panicked, netvars, peervars>>
    BY <1>5 DEF BindListen
  <2>2. sk \in Sockets
    BY DEF TypeInv
  <2> DEFINE s == [sk EXCEPT !.sport = 1]
  <2>3. s \in Sockets
    BY <2>2 DEF Sockets
  <2>4. sk' = [s EXCEPT !.state = "LISTEN"]
    BY <2>1
  <2> HIDE DEF s
  <2>5. [s EXCEPT !.state = "LISTEN"] \in Sockets
    BY <2>3 DEF Sockets, TCP_STATE
  <2>6. sk' \in Sockets
    BY <2>4, <2>5
  <2>7. /\ upc' = "accept"
        /\ UNCHANGED <<woken, timers, userlog, panicked, netvars, peervars>>
    BY <2>1
  <2> QED
    BY <2>6, <2>7 DEF TypeInv, UserTyped, timers, userlog, netvars, peervars, Labels
<1> QED
  BY <1>1, <1>2, <1>3, <1>4, <1>5 DEF ServerStep

\* The two timeouts that touch the socket.
LEMMA ConnectTimeoutIs ==
    ASSUME TypeInv, tcp_connect_timeout
    PROVE  /\ connt > 0 /\ connt' = connt - 1 /\ connt' \in Nat
           /\ \/ /\ sk.state = "SYN_SENT" /\ Wakeup
                 /\ sk' = Sock("CLOSED", sk.sport, sk.seq_num, sk.ack_num, sk.rx, sk.tx)
              \/ sk.state # "SYN_SENT" /\ UNCHANGED <<sk, woken>>
           /\ UNCHANGED <<upc, ackt, recvt, matched, userlog, panicked, netvars, peervars>>
<1>1. sk \in Sockets /\ connt \in Nat
  BY DEF TypeInv
<1>2. /\ connt > 0 /\ connt' = connt - 1
      /\ UNCHANGED <<upc, ackt, recvt, matched, userlog, panicked, netvars, peervars>>
      /\ IF sk.state = "SYN_SENT"
         THEN sk' = ToState(sk, "CLOSED") /\ Wakeup
         ELSE UNCHANGED <<sk, woken>>
  BY DEF tcp_connect_timeout, ToState
<1>3. ToState(sk, "CLOSED") = Sock("CLOSED", sk.sport, sk.seq_num, sk.ack_num, sk.rx, sk.tx)
  BY <1>1, ToFieldIs
<1>4. connt' \in Nat
  BY <1>1, <1>2
<1> QED
  BY <1>2, <1>3, <1>4

\* So do the timeouts.
LEMMA WorkTyped ==
    ASSUME TypeInv, WorkStep
    PROVE  UserTyped
<1>1. CASE tcp_connect_timeout
  <2>1. /\ sk \in Sockets /\ sk.seq_num \in Nat /\ sk.ack_num \in Nat /\ sk.sport \in Nat
        /\ sk.rx \in Seq(Nat) /\ sk.tx \in Seq(TxEntries) /\ "CLOSED" \in TCP_STATE
        /\ woken \in BOOLEAN
    BY SockFields DEF TypeInv, TCP_STATE
  <2>2. sk' \in Sockets /\ woken' \in BOOLEAN
    BY <1>1, <2>1, ConnectTimeoutIs, SockTyped, WokenTyped
  <2>3. /\ connt' \in Nat
        /\ UNCHANGED <<upc, ackt, recvt, matched, userlog, panicked, netvars, peervars>>
    BY <1>1, ConnectTimeoutIs
  <2> QED
    BY <2>2, <2>3 DEF TypeInv, UserTyped, userlog, netvars, peervars
<1>2. ASSUME NEW n \in ackt, tcp_ack_timeout(n)
      PROVE  UserTyped
  <2>1. UNCHANGED <<upc, woken, connt, recvt, matched, userlog, panicked, toUs, nfault, peervars>>
    BY <1>2 DEF tcp_ack_timeout
  <2>2. /\ UNCHANGED sk /\ (Sent({}) \/ UNCHANGED toPeer)
        /\ ackt' = ackt \/ ackt' = ackt \ {n}
    BY <1>2, AckTimeoutIs
  <2>3. ackt' \subseteq Nat /\ toPeer' \in Seq(Segments)
    BY <2>2 DEF Sent, TypeInv
  <2> QED
    BY <2>1, <2>2, <2>3 DEF TypeInv, UserTyped, userlog, peervars
<1>3. ASSUME NEW w \in recvt, tcp_socket_recv_timeout(w)
      PROVE  UserTyped
  <2>1. /\ recvt' = recvt \ {w} /\ matched' \in BOOLEAN
        /\ UNCHANGED <<sk, upc, woken, ackt, connt, userlog, panicked, netvars, peervars>>
    BY <1>3 DEF tcp_socket_recv_timeout
  <2> QED
    BY <2>1 DEF TypeInv, UserTyped, userlog, netvars, peervars
<1>4. CASE RecvTimeoutWake
  <2>1. /\ matched' = FALSE /\ Wakeup
        /\ UNCHANGED <<sk, upc, ackt, connt, recvt, userlog, panicked, netvars, peervars>>
    BY <1>4 DEF RecvTimeoutWake
  <2>2. woken' \in BOOLEAN
    BY <2>1, WokenTyped DEF TypeInv
  <2> QED
    BY <2>1, <2>2 DEF TypeInv, UserTyped, userlog, netvars, peervars
<1> QED
  BY <1>1, <1>2, <1>3, <1>4 DEF WorkStep

\* Every step keeps the types and the segments of the peer proper.
LEMMA TypeStep ==
    ASSUME TypeInv, WireInv, [TcpNext]_vars
    PROVE  TypeInv' /\ WireInv'
<1>1. CASE UserTyped
  BY <1>1 DEF UserTyped, TypeInv, WireInv
<1>2. CASE tcp_socket_connect
  BY <1>2, ConnectTyped
<1>3. CASE TcpRx
  <2>1. PICK m \in Range(toUs) :
          /\ m \in Segments /\ RxCase(m) /\ nfault' \in Nat
          /\ toUs' \in Seq(Segments) /\ Range(toUs') \subseteq Range(toUs)
          /\ UNCHANGED <<upc, connt, recvt, matched, ncall, read, eof, panicked, peer, peergot>>
    BY <1>3, TcpRxIs
  <2>2. /\ sk' \in Sockets /\ toPeer' \in Seq(Segments) /\ ackt' \subseteq Nat
        /\ woken' \in BOOLEAN
    BY <2>1, RxTyped
  <2>3. TypeInv'
    BY <2>1, <2>2 DEF TypeInv
  <2>4. WireInv'
    BY <2>1 DEF WireInv
  <2> QED
    BY <2>3, <2>4
<1>4. CASE PeerRx
  <2>1. PICK m \in Range(toPeer) :
          /\ m \in Segments /\ (Opens(m) \/ Advances(m)) /\ Says /\ peer' \in Peers
          /\ nfault' \in Nat
          /\ toPeer' \in Seq(Segments) /\ Range(toPeer') \subseteq Range(toPeer)
          /\ UNCHANGED <<sk, upc, woken, timers, userlog, panicked>>
    BY <1>4, PeerRxIs
  <2>2. /\ peer'.sent = peer.sent /\ peer'.fin = peer.fin /\ peer.rcv <= peer'.rcv
        /\ peer'.state = "OPEN" /\ peergot' \in Seq(Nat)
    BY <2>1, PeerTaken
  <2>3. peer.sent <= peer'.sent /\ (peer.fin => peer'.fin)
    BY <2>2, PeerFields DEF TypeInv
  <2>4. toUs' \in Seq(Segments) /\ \A q \in Range(toUs') : Proper(q, peer')
    BY <2>1, <2>2, <2>3, SaysKeeps
  <2>5. TypeInv'
    BY <2>1, <2>2, <2>4 DEF TypeInv, timers, userlog
  <2>6. WireInv'
    BY <2>2, <2>4 DEF WireInv
  <2> QED
    BY <2>5, <2>6
<1>5. CASE PeerConnect \/ PeerSend \/ PeerFin \/ PeerRetransmit
  <2>1. PeerMoves
    BY <1>5, PeerMovesIs
  <2>2. peer.rcv <= peer'.rcv /\ peer' \in Peers
    BY <2>1, PeerFields DEF TypeInv, PeerMoves
  <2>3. toUs' \in Seq(Segments) /\ \A q \in Range(toUs') : Proper(q, peer')
    BY <2>1, <2>2, SaysKeeps DEF PeerMoves
  <2>4. TypeInv'
    BY <2>1, <2>2, <2>3 DEF TypeInv, PeerMoves, timers, userlog
  <2>5. WireInv'
    BY <2>1, <2>3 DEF WireInv, PeerMoves
  <2> QED
    BY <2>4, <2>5
<1>6. CASE Lose
  <2>1. /\ nfault' \in Nat
        /\ toPeer' \in Seq(Segments) /\ Range(toPeer') \subseteq Range(toPeer)
        /\ toUs' \in Seq(Segments) /\ Range(toUs') \subseteq Range(toUs)
        /\ UNCHANGED <<sk, upc, woken, timers, userlog, panicked, peervars>>
    BY <1>6, LoseIs
  <2>2. TypeInv'
    BY <2>1 DEF TypeInv, timers, userlog, peervars
  <2>3. WireInv'
    BY <2>1 DEF WireInv, peervars
  <2> QED
    BY <2>2, <2>3
<1>7. CASE UNCHANGED vars
  BY <1>7 DEF vars, TypeInv, WireInv
<1> QED
  BY <1>1, <1>2, <1>3, <1>4, <1>5, <1>6, <1>7, TalkTyped, ServerTyped, WorkTyped
     DEF TcpNext, ClientStep, PeerStep

\* A new socket is typed.
LEMMA InitTyped == TcpInit => TypeInv /\ WireInv
<1> SUFFICES ASSUME TcpInit
             PROVE  TypeInv /\ WireInv
  OBVIOUS
<1>1. NewSocket \in Sockets
  BY DEF NewSocket, Sockets, TCP_STATE
<1>2. PassivePeer \in Peers /\ ActivePeer \in Peers /\ PassivePeer.rcv = 0 /\ ActivePeer.rcv = 0
  BY DEF PassivePeer, ActivePeer, Peers
<1>3. /\ << >> \in Seq(Segments) /\ << >> \in Seq(Nat) /\ Range(<< >>) = {}
      /\ << >> \in Seq(Reads)
      /\ [connect |-> 0, send |-> 0, empty |-> 0, recv |-> 0] \in Calls
  BY DEF Range, Calls
<1>4. TypeInv
  BY <1>1, <1>2, <1>3 DEF TcpInit, TypeInv, Labels
<1>5. WireInv
  BY <1>2, <1>3 DEF TcpInit, WireInv
<1> QED
  BY <1>4, <1>5

\* The state has its types, and the segments of the peer are proper.
LEMMA WellTyped == TcpSpec => [](TypeInv /\ WireInv)
<1>1. TypeInv /\ WireInv /\ [TcpNext]_vars => (TypeInv /\ WireInv)'
  BY TypeStep
<1> QED
  BY InitTyped, <1>1, PTL DEF TcpSpec
-----------------------------------------------------------------------------
(* Control.                                                                *)

\* What a segment does to the state, the data and the sleeper.
Moves(m) ==
    /\ sk'.wait_id = sk.wait_id
    /\ \/ sk'.state = sk.state /\ sk'.rx = sk.rx /\ UNCHANGED woken
       \/ /\ sk.state = "LISTEN" /\ sk'.state = "SYN_RCVD"
          /\ sk'.rx = sk.rx /\ UNCHANGED woken
       \/ /\ sk.state = "SYN_RCVD" /\ sk'.state = "ESTABLISHED"
          /\ (sk'.rx = sk.rx \/ sk'.rx # << >>) /\ Wakeup
       \/ /\ sk.state = "SYN_SENT" /\ sk'.state = "ESTABLISHED"
          /\ sk'.rx = sk.rx /\ Wakeup
       \/ /\ sk.state = "ESTABLISHED" /\ sk'.state \in {"ESTABLISHED", "CLOSING"}
          /\ sk'.state = "CLOSING" => "FIN" \in m.flags
          /\ \/ sk'.rx = sk.rx /\ UNCHANGED woken
             \/ sk'.rx # << >> /\ Wakeup
       \/ /\ sk.state \in {"FIN_WAIT_1", "CLOSING"} /\ sk'.state = "CLOSED"
          /\ sk'.rx = sk.rx /\ Wakeup

\* What a segment can do to the state, the sleeper and the timers.
LEMMA RxMoves ==
    ASSUME TypeInv, NEW m \in Segments, RxCase(m)
    PROVE  Moves(m)
<1>1. sk.rx \in Seq(Nat) /\ m.data \in Nat
  BY SockFields, SegmentFields DEF TypeInv
<1>2. RxAfter(m) = sk.rx \/ RxAfter(m) # << >>
  BY <1>1, AppendKeeps DEF RxAfter
<1>3. WakesFor(m) => \/ RxAfter(m) = sk.rx /\ UNCHANGED woken
                     \/ RxAfter(m) # << >> /\ Wakeup
  BY <1>1, AppendKeeps DEF RxAfter, WakesFor
<1>4. CASE Ignored \/ Repeats
  BY <1>4 DEF Ignored, Repeats, Moves
<1>5. CASE SynTaken(m)
  BY <1>5 DEF SynTaken, Sock, Moves
<1>6. CASE LastAck
  BY <1>6 DEF LastAck, Sock, Moves
<1>7. ASSUME NEW tx, HandshakeEnds(m, tx)
      PROVE  Moves(m)
  BY <1>2, <1>7 DEF HandshakeEnds, Sock, Moves
<1>8. ASSUME NEW tx, SynAnswered(m, tx) \/ FinWaits(m, tx) \/ FinAnswered(m, tx)
      PROVE  Moves(m)
  BY <1>8 DEF SynAnswered, FinWaits, FinAnswered, Sock, Moves
<1>9. ASSUME NEW tx, Takes(m, tx) \/ TakesFin(m, tx)
      PROVE  Moves(m)
  BY <1>3, <1>9 DEF Takes, TakesFin, Sock, Moves
<1> QED
  BY <1>4, <1>5, <1>6, <1>7, <1>8, <1>9 DEF RxCase

\* Nobody panics in a step that is not a panic, and a panic is a race.
LEMMA RxControl ==
    ASSUME TypeInv, WireInv, ControlInv, TcpRx
    PROVE  ControlInv'
<1>1. PICK m \in Range(toUs) :
        /\ m \in Segments /\ RxCase(m)
        /\ toUs' \in Seq(Segments) /\ Range(toUs') \subseteq Range(toUs)
        /\ UNCHANGED <<upc, connt, recvt, matched, ncall, read, eof, panicked, peer, peergot>>
  BY TcpRxIs
<1>2. Moves(m)
  BY <1>1, RxMoves
<1>3. ~panicked /\ woken \in BOOLEAN /\ upc \in Labels /\ peer.fin \in BOOLEAN
  BY PeerFields DEF TcpRx, KernelFree, Halted, TypeInv
<1>4. toUs # << >> /\ peer.state # "IDLE"
  BY <1>1 DEF Range, ControlInv, FinInv
<1>5. "FIN" \in m.flags => peer.fin
  BY <1>1 DEF WireInv, Proper
<1>6. SleepInv' /\ PlaceInv'
  BY <1>1, <1>2, <1>3 DEF ControlInv, SleepInv, PlaceInv, Moves, Wakeup, Sleeping, WaitInv
<1>7. FinInv'
  BY <1>1, <1>2, <1>3, <1>4, <1>5 DEF ControlInv, FinInv, PlaceInv, Moves
<1>8. WaitInv'
  BY <1>1, <1>2, <1>3
     DEF ControlInv, SleepInv, PlaceInv, Moves, Wakeup, Sleeping, WaitInv, TimeoutAhead
<1>9. PanicOnlyOnRace'
  BY <1>1, <1>3 DEF PanicOnlyOnRace
<1> QED
  BY <1>6, <1>7, <1>8, <1>9 DEF ControlInv

\* tcp_socket_connect and its return keep the control invariant,
LEMMA ClientControl ==
    ASSUME TypeInv, ControlInv, ClientStep
    PROVE  ControlInv'
<1>1. ~panicked /\ woken \in BOOLEAN /\ upc \in Labels /\ connt \in Nat
  BY DEF ClientStep, tcp_socket_connect, ConnectReturn, Halted, TypeInv
<1>2. CASE tcp_socket_connect /\ sk.state # "CLOSED"
  BY <1>1, <1>2 DEF tcp_socket_connect, Panic, ControlInv, SleepInv, PlaceInv, FinInv,
                    WaitInv, TimeoutAhead, PanicOnlyOnRace, Sleeping, timers, userlog,
                    netvars, peervars
<1>3. CASE tcp_socket_connect /\ sk.state = "CLOSED"
  <2>1. /\ upc = "connect" /\ connt' = connt + 1 /\ upc' = "connect_sleep" /\ woken' = FALSE
        /\ toUs' = << >> /\ peer' = PassivePeer
        /\ UNCHANGED <<recvt, matched, panicked>>
    BY <1>3 DEF tcp_socket_connect, SleepIn
  <2>2. sk'.state = "SYN_SENT"
    BY <1>3, ConnectIs DEF Connects, Sock
  <2>3. connt' > 0
    BY <1>1, <2>1
  <2>4. PassivePeer.state = "LISTEN"
    BY DEF PassivePeer
  <2>5. SleepInv' /\ PlaceInv' /\ FinInv'
    BY <2>1, <2>2, <2>4 DEF ControlInv, SleepInv, PlaceInv, FinInv, Sleeping
  <2>6. WaitInv' /\ PanicOnlyOnRace'
    BY <1>1, <2>1, <2>2, <2>3 DEF WaitInv, PanicOnlyOnRace
  <2> QED
    BY <2>5, <2>6 DEF ControlInv
<1>4. CASE ConnectReturn
  <2>1. /\ upc = "connect_sleep" /\ woken
        /\ \/ upc' = "open" /\ sk.state = "ESTABLISHED"
           \/ upc' \in {"connect", "done"} /\ sk.state # "ESTABLISHED"
           \/ upc' = "refused" /\ sk.state # "ESTABLISHED" /\ ~(ncall.connect < MaxConnect)
        /\ woken' = FALSE
        /\ UNCHANGED <<sk, recvt, matched, ncall, panicked, toUs, peer>>
    BY <1>4 DEF ConnectReturn, timers, userlog, netvars, peervars
  <2>2. sk.state \in {"ESTABLISHED", "CLOSING", "CLOSED"}
    BY <2>1 DEF ControlInv, PlaceInv
  <2>3. ncall.connect \in Nat /\ MaxConnect \in Nat
    BY TcpAssumption DEF TypeInv, Calls
  <2>4. SleepInv'
    BY <2>1 DEF ControlInv, SleepInv
  <2>5. PlaceInv'
    BY <2>1, <2>2, <2>3 DEF PlaceInv
  <2>6. FinInv'
    BY <2>1, <2>2 DEF ControlInv, FinInv
  <2>7. WaitInv' /\ PanicOnlyOnRace'
    BY <1>1, <2>1 DEF WaitInv, PanicOnlyOnRace
  <2> QED
    BY <2>4, <2>5, <2>6, <2>7 DEF ControlInv
<1> QED
  BY <1>2, <1>3, <1>4 DEF ClientStep

\* bind, listen and accept keep it,
LEMMA ServerControl ==
    ASSUME TypeInv, ControlInv, ServerStep
    PROVE  ControlInv'
<1>1. ~panicked /\ woken \in BOOLEAN /\ upc \in Labels
  BY DEF ServerStep, BindListen, tcp_socket_accept, AcceptReturn, Halted, TypeInv
<1>2. CASE BindListen
  <2>1. /\ upc = "bind" /\ sk.state = "CLOSED" /\ upc' = "accept"
        /\ sk' = [sk EXCEPT !.sport = 1, !.state = "LISTEN"]
        /\ UNCHANGED <<woken, timers, userlog, panicked, netvars, peervars>>
    BY <1>2 DEF BindListen, ControlInv, PlaceInv
  <2>2. sk'.state = "LISTEN"
    <3> DEFINE s == [sk EXCEPT !.sport = 1]
    <3>1. s \in Sockets
      BY DEF TypeInv, Sockets
    <3>2. sk' = [s EXCEPT !.state = "LISTEN"]
      BY <2>1
    <3> HIDE DEF s
    <3> QED
      BY <3>1, <3>2 DEF Sockets
  <2>3. /\ upc = "bind" /\ sk.state = "CLOSED" /\ upc' = "accept"
        /\ UNCHANGED <<woken, timers, userlog, panicked, netvars, peervars>>
    BY <2>1
  <2>4. SleepInv' /\ PlaceInv'
    BY <1>1, <2>2, <2>3 DEF ControlInv, SleepInv, PlaceInv, Sleeping, timers
  <2>5. FinInv'
    BY <2>2, <2>3 DEF ControlInv, FinInv, netvars, peervars
  <2>6. WaitInv' /\ PanicOnlyOnRace'
    BY <1>1, <2>2, <2>3 DEF WaitInv, PanicOnlyOnRace
  <2> QED
    BY <2>4, <2>5, <2>6 DEF ControlInv
<1>3. CASE tcp_socket_accept
  <2>1. CASE sk.state # "LISTEN"
    <3>1. /\ upc = "accept" /\ panicked' = TRUE
          /\ UNCHANGED <<sk, upc, woken, timers, userlog, netvars, peervars>>
      BY <1>3, <2>1 DEF tcp_socket_accept, Panic
    <3>2. SleepInv' /\ PlaceInv' /\ FinInv' /\ WaitInv'
      BY <3>1 DEF ControlInv, SleepInv, PlaceInv, FinInv, WaitInv, TimeoutAhead, Sleeping,
                  timers, netvars, peervars
    <3>3. peer.state = "IDLE" => sk.state = "CLOSED" /\ ~peer.fin
      BY <2>1 DEF ControlInv, FinInv
    <3>4. peer.state # "IDLE"
      BY <3>1, <3>3 DEF ControlInv, FinInv
    <3>5. PanicOnlyOnRace'
      BY <3>1, <3>4 DEF PanicOnlyOnRace, peervars
    <3> QED
      BY <3>2, <3>5 DEF ControlInv
  <2>2. CASE sk.state = "LISTEN"
    <3>1. /\ upc = "accept" /\ upc' = "accept_sleep" /\ woken' = FALSE
          /\ UNCHANGED <<sk, timers, userlog, panicked, netvars, peervars>>
      BY <1>3, <2>2 DEF tcp_socket_accept, SleepIn
    <3> QED
      BY <1>1, <2>2, <3>1
         DEF ControlInv, SleepInv, PlaceInv, FinInv, WaitInv, PanicOnlyOnRace, Sleeping,
             timers, netvars, peervars
  <2> QED
    BY <2>1, <2>2
<1>4. CASE AcceptReturn
  BY <1>1, <1>4 DEF AcceptReturn, ControlInv, SleepInv, PlaceInv, FinInv, WaitInv,
                    PanicOnlyOnRace, Sleeping, timers, userlog, netvars, peervars
<1> QED
  BY <1>2, <1>3, <1>4 DEF ServerStep

\* send, recv and close keep it,
LEMMA TalkControl ==
    ASSUME TypeInv, ControlInv, TalkStep
    PROVE  ControlInv'
<1>1. /\ ~panicked /\ woken \in BOOLEAN /\ upc \in Labels /\ sk \in Sockets
      /\ sk.state \in TCP_STATE
  BY SockFields DEF TalkStep, tcp_socket_send, RecvNow, RecvSleep, RecvReturn,
                    tcp_socket_close, CloseReturn, Halted, TypeInv
<1>2. CASE tcp_socket_send
  <2>1. CASE sk.state # "ESTABLISHED"
    <3>1. /\ upc \in {"open", "refused"} /\ panicked' = TRUE
          /\ UNCHANGED <<sk, upc, woken, timers, userlog, netvars, peervars>>
      BY <1>2, <2>1 DEF tcp_socket_send, Panic
    <3>2. SleepInv' /\ PlaceInv' /\ FinInv' /\ WaitInv'
      BY <3>1 DEF ControlInv, SleepInv, PlaceInv, FinInv, WaitInv, TimeoutAhead, Sleeping,
                  timers, userlog, netvars, peervars
    <3>3. PanicOnlyOnRace'
      BY <2>1, <3>1 DEF PanicOnlyOnRace, ControlInv, PlaceInv, FinInv, userlog, peervars
    <3> QED
      BY <3>2, <3>3 DEF ControlInv
  <2>2. CASE sk.state = "ESTABLISHED"
    <3>1. sk'.state = "ESTABLISHED" /\ upc \in {"open", "refused"}
      BY <1>2, <2>2, SendIs DEF SendsData, Sock, tcp_socket_send
    <3>2. UNCHANGED <<upc, woken, connt, recvt, matched, read, eof, panicked, toUs, nfault,
                      peervars>>
      BY <1>2, <2>2 DEF tcp_socket_send
    <3>3. upc = "open"
      BY <2>2, <3>1 DEF ControlInv, PlaceInv
    <3> QED
      BY <1>1, <2>2, <3>1, <3>2, <3>3
         DEF ControlInv, SleepInv, PlaceInv, FinInv, WaitInv, PanicOnlyOnRace,
             Sleeping, peervars
  <2> QED
    BY <2>1, <2>2
<1>3. CASE RecvNow \/ RecvReturn
  <2>1. /\ upc \in {"open", "recv_sleep"} /\ upc' = "open" /\ PopRx
        /\ \/ woken' = woken /\ upc = "open"
           \/ woken' = FALSE
        /\ UNCHANGED <<timers, panicked, netvars, peervars>>
    BY <1>3 DEF RecvNow, RecvReturn
  <2>2. sk'.state = sk.state
    BY <2>1, PopRxIs DEF Sock
  <2> QED
    BY <1>1, <2>1, <2>2
       DEF ControlInv, SleepInv, PlaceInv, FinInv, WaitInv, PanicOnlyOnRace,
           Sleeping, timers, netvars, peervars
<1>4. CASE RecvSleep
  <2>1. /\ upc = "open" /\ upc' = "recv_sleep" /\ woken' = FALSE
        /\ sk.state = "ESTABLISHED" /\ sk.rx = << >>
        /\ UNCHANGED <<panicked, netvars, peervars>>
    BY <1>4 DEF RecvSleep, SleepIn
  <2>2. PICK tick \in sk.wait_id .. MaxTick :
          /\ sk' = [sk EXCEPT !.wait_id = tick]
          /\ recvt' = recvt \cup {[call |-> ncall.recv, wait_id |-> tick]}
    BY <1>4 DEF RecvSleep
  <2>3. sk'.state = sk.state /\ sk'.rx = sk.rx /\ sk'.wait_id = tick
    BY <1>1, <2>2 DEF Sockets
  <2>4. TimeoutAhead'
    <3> DEFINE w == [call |-> ncall.recv, wait_id |-> tick]
    <3>1. w \in recvt' /\ w.wait_id = sk'.wait_id
      BY <2>2, <2>3
    <3> HIDE DEF w
    <3> QED
      BY <3>1 DEF TimeoutAhead
  <2>5. SleepInv' /\ PlaceInv'
    BY <2>1, <2>3 DEF SleepInv, PlaceInv, Sleeping
  <2>6. FinInv'
    BY <2>1, <2>3 DEF ControlInv, FinInv, netvars, peervars
  <2>7. WaitInv' /\ PanicOnlyOnRace'
    BY <1>1, <2>1, <2>3, <2>4 DEF WaitInv, PanicOnlyOnRace
  <2> QED
    BY <2>5, <2>6, <2>7 DEF ControlInv
<1>5. CASE tcp_socket_close /\ sk.state = "ESTABLISHED"
  <2>1. /\ upc = "open" /\ upc' = "close_sleep" /\ woken' = FALSE
        /\ UNCHANGED <<connt, recvt, matched, userlog, panicked, toUs, nfault, peervars>>
    BY <1>5 DEF tcp_socket_close, SleepIn
  <2>2. sk'.state = "FIN_WAIT_1"
    BY <1>5, CloseIs DEF SendsFin, Sock
  <2>3. SleepInv' /\ PlaceInv'
    BY <2>1, <2>2 DEF SleepInv, PlaceInv, Sleeping
  <2>4. FinInv'
    BY <1>5, <2>1, <2>2 DEF ControlInv, FinInv, peervars
  <2>5. WaitInv' /\ PanicOnlyOnRace'
    BY <1>1, <2>1, <2>2 DEF WaitInv, PanicOnlyOnRace
  <2> QED
    BY <2>3, <2>4, <2>5 DEF ControlInv
<1>6. CASE tcp_socket_close /\ sk.state # "ESTABLISHED"
  BY <1>1, <1>6
     DEF tcp_socket_close, SleepIn, Panic, ControlInv, SleepInv, PlaceInv, FinInv,
         WaitInv, TimeoutAhead, PanicOnlyOnRace, Sleeping, timers, userlog, netvars, peervars
<1>7. CASE CloseReturn
  BY <1>1, <1>7
     DEF CloseReturn, ControlInv, SleepInv, PlaceInv, FinInv,
         WaitInv, PanicOnlyOnRace, Sleeping, timers, userlog, netvars, peervars
<1> QED
  BY <1>2, <1>3, <1>4, <1>5, <1>6, <1>7 DEF TalkStep

\* A tick below 2^31 comes through the int unchanged,
LEMMA ThroughIntIs ==
    ASSUME NEW w \in Nat, w < TICK_HALF
    PROVE  ThroughInt(w) = w
<1>1. TICK_HALF \in Nat /\ TICK_HALF > 0
  BY TcpAssumption
<1> DEFINE M == 4 * TICK_HALF * TICK_HALF
<1>2. M \in Nat /\ M >= TICK_HALF
  BY <1>1
<1> HIDE DEF M
<1>3. w % M = w
  BY <1>1, <1>2
<1> QED
  BY <1>3 DEF ThroughInt, M

\* so the timeouts keep it,
LEMMA WorkControl ==
    ASSUME TypeInv, ControlInv, WorkStep
    PROVE  ControlInv'
<1>1. ~panicked /\ woken \in BOOLEAN /\ upc \in Labels
  BY DEF WorkStep, tcp_connect_timeout, tcp_ack_timeout, tcp_socket_recv_timeout,
         RecvTimeoutWake, KernelFree, Halted, TypeInv
<1>2. CASE tcp_connect_timeout
  <2>1. /\ UNCHANGED <<upc, ackt, recvt, matched, userlog, panicked, netvars, peervars>>
        /\ \/ /\ sk.state = "SYN_SENT" /\ Wakeup
              /\ sk' = Sock("CLOSED", sk.sport, sk.seq_num, sk.ack_num, sk.rx, sk.tx)
           \/ sk.state # "SYN_SENT" /\ UNCHANGED <<sk, woken>>
    BY <1>2, ConnectTimeoutIs
  <2>2. \/ sk.state = "SYN_SENT" /\ Wakeup /\ sk'.state = "CLOSED"
        \/ sk.state # "SYN_SENT" /\ UNCHANGED <<sk, woken>>
    BY <2>1 DEF Sock
  <2>3. CASE sk.state = "SYN_SENT"
    <3>1. SleepInv' /\ PlaceInv'
      BY <1>1, <2>1, <2>2, <2>3
         DEF ControlInv, SleepInv, PlaceInv, WaitInv, Wakeup, Sleeping
    <3>2. FinInv' /\ WaitInv'
      BY <1>1, <2>1, <2>2, <2>3
         DEF ControlInv, FinInv, PlaceInv, WaitInv, TimeoutAhead, Wakeup, Sleeping, netvars,
             peervars
    <3>3. PanicOnlyOnRace'
      BY <1>1, <2>1 DEF PanicOnlyOnRace
    <3> QED
      BY <3>1, <3>2, <3>3 DEF ControlInv
  <2>4. CASE sk.state # "SYN_SENT"
    <3>1. UNCHANGED <<sk, upc, woken, recvt, matched, ncall, panicked, toUs, peer>>
      BY <2>1, <2>4 DEF userlog, netvars, peervars
    <3>2. SleepInv' /\ PlaceInv' /\ FinInv' /\ PanicOnlyOnRace'
      BY <3>1 DEF ControlInv, SleepInv, PlaceInv, FinInv, PanicOnlyOnRace, Sleeping
    <3>3. WaitInv'
      BY <2>4, <3>1 DEF ControlInv, WaitInv, TimeoutAhead
    <3> QED
      BY <3>2, <3>3 DEF ControlInv
  <2> QED
    BY <2>3, <2>4
<1>3. ASSUME NEW n \in ackt, tcp_ack_timeout(n)
      PROVE  ControlInv'
  BY <1>3 DEF tcp_ack_timeout, ControlInv, SleepInv, PlaceInv, FinInv, WaitInv,
              TimeoutAhead, PanicOnlyOnRace, Sleeping, userlog, peervars
<1>4. ASSUME NEW w \in recvt, tcp_socket_recv_timeout(w)
      PROVE  ControlInv'
  <2>1. /\ ~matched /\ recvt' = recvt \ {w} /\ matched' = (sk.wait_id = ThroughInt(w.wait_id))
        /\ UNCHANGED <<sk, upc, woken, connt, ncall, panicked, toUs, peer>>
    BY <1>4 DEF tcp_socket_recv_timeout, KernelFree, userlog, netvars, peervars
  <2>2. recvt # {} /\ recvt \subseteq Works /\ w.wait_id \in Nat
    BY <1>4 DEF TypeInv, Works
  <2>3. TimeoutAhead /\ sk.wait_id < TICK_HALF => TimeoutAhead'
    <3> SUFFICES ASSUME TimeoutAhead, sk.wait_id < TICK_HALF
                 PROVE  TimeoutAhead'
      OBVIOUS
    <3>1. PICK v \in recvt : v.wait_id = sk.wait_id
      BY <2>1 DEF TimeoutAhead
    <3>2. CASE v = w
      <4>1. ThroughInt(w.wait_id) = sk.wait_id
        BY <2>2, <3>1, <3>2, ThroughIntIs
      <4> QED
        BY <2>1, <4>1 DEF TimeoutAhead
    <3>3. CASE v # w
      <4>1. v \in recvt' /\ v.wait_id = sk'.wait_id
        BY <2>1, <3>1, <3>3
      <4> QED
        BY <4>1 DEF TimeoutAhead
    <3> QED
      BY <3>2, <3>3
  <2>4. SleepInv' /\ PlaceInv'
    BY <1>4, <2>1 DEF ControlInv, SleepInv, PlaceInv, Sleeping
  <2>5. FinInv'
    BY <2>1 DEF ControlInv, FinInv
  <2>6. WaitInv' /\ PanicOnlyOnRace'
    BY <1>1, <2>1, <2>3 DEF ControlInv, WaitInv, PanicOnlyOnRace
  <2> QED
    BY <2>4, <2>5, <2>6 DEF ControlInv
<1>5. CASE RecvTimeoutWake
  <2>1. /\ matched /\ matched' = FALSE /\ Wakeup
        /\ UNCHANGED <<sk, upc, connt, recvt, ncall, panicked, toUs, peer>>
    BY <1>5 DEF RecvTimeoutWake, userlog, netvars, peervars
  <2>2. upc \notin {"connect", "connect_sleep", "bind", "accept", "accept_sleep"}
    BY <2>1 DEF ControlInv, SleepInv
  <2>3. SleepInv' /\ PlaceInv'
    BY <2>1, <2>2 DEF ControlInv, SleepInv, PlaceInv, Wakeup, Sleeping
  <2>4. FinInv'
    BY <2>1 DEF ControlInv, FinInv
  <2>5. WaitInv' /\ PanicOnlyOnRace'
    BY <1>1, <2>1, <2>2 DEF ControlInv, WaitInv, Wakeup, Sleeping, PanicOnlyOnRace
  <2> QED
    BY <2>3, <2>4, <2>5 DEF ControlInv
<1> QED
  BY <1>2, <1>3, <1>4, <1>5 DEF WorkStep

\* The peer and the network change nothing of the program and the socket.
LEMMA OutsideControl ==
    ASSUME ControlInv, UNCHANGED <<sk, upc, woken, timers, userlog, panicked>>,
           peer.fin => peer'.fin, peer'.state = "IDLE" => peer.state = "IDLE",
           peer'.state = "IDLE" => toUs' = << >> /\ ~peer'.fin
    PROVE  ControlInv'
<1>1. SleepInv' /\ PlaceInv' /\ WaitInv'
  BY DEF ControlInv, SleepInv, PlaceInv, WaitInv, TimeoutAhead, Sleeping, timers, userlog
<1>2. FinInv' /\ PanicOnlyOnRace'
  BY DEF ControlInv, FinInv, PanicOnlyOnRace, userlog
<1> QED
  BY <1>1, <1>2 DEF ControlInv

\* and so every step does.
LEMMA ControlStep ==
    ASSUME TypeInv, WireInv, ControlInv, [TcpNext]_vars
    PROVE  ControlInv'
<1>1. CASE PeerRx
  <2>1. PICK m \in Range(toPeer) :
          /\ m \in Segments /\ (Opens(m) \/ Advances(m))
          /\ UNCHANGED <<sk, upc, woken, timers, userlog, panicked>>
    BY <1>1, PeerRxIs
  <2>2. peer'.fin = peer.fin /\ peer'.state = "OPEN"
    BY <2>1, PeerTaken
  <2> QED
    BY <2>1, <2>2, OutsideControl
<1>2. CASE PeerConnect \/ PeerSend \/ PeerFin \/ PeerRetransmit
  <2>1. PeerMoves
    BY <1>2, PeerMovesIs
  <2>2. UNCHANGED <<sk, upc, woken, timers, userlog, panicked>>
    BY <1>2 DEF PeerConnect, PeerSend, PeerFin, PeerRetransmit
  <2>3. (peer.fin => peer'.fin) /\ peer'.state # "IDLE"
    BY <1>2, <2>1, PeerFields
       DEF PeerMoves, PeerConnect, PeerSend, PeerFin, PeerRetransmit, PeerUp, TypeInv
  <2> QED
    BY <2>2, <2>3, OutsideControl
<1>3. CASE Lose
  <2>1. /\ toUs' \in Seq(Segments) /\ Range(toUs') \subseteq Range(toUs)
        /\ UNCHANGED <<sk, upc, woken, timers, userlog, panicked, peervars>>
    BY <1>3, LoseIs
  <2>2. toUs = << >> => toUs' = << >>
    <3> SUFFICES ASSUME toUs = << >>
                 PROVE  toUs' = << >>
      OBVIOUS
    <3>1. Range(toUs') = {}
      BY <2>1 DEF Range
    <3>2. Len(toUs') = 0 \/ 1 \in DOMAIN toUs'
      BY <2>1
    <3> QED
      BY <2>1, <3>1, <3>2 DEF Range
  <2> QED
    BY <2>1, <2>2, OutsideControl DEF ControlInv, FinInv, peervars
<1>4. CASE UNCHANGED vars
  BY <1>4 DEF vars, ControlInv, SleepInv, PlaceInv, FinInv, WaitInv, TimeoutAhead,
              PanicOnlyOnRace, Sleeping
<1> QED
  BY <1>1, <1>2, <1>3, <1>4, RxControl, ClientControl, ServerControl, TalkControl, WorkControl
     DEF TcpNext, PeerStep

\* The control invariant the first two theorems rest on.
LEMMA ControlHolds == TcpSpec => []ControlInv
<1>1. TcpInit => ControlInv
  <2> SUFFICES ASSUME TcpInit
               PROVE  ControlInv
    OBVIOUS
  <2>1. /\ PassivePeer.state = "LISTEN" /\ ActivePeer.state = "IDLE"
        /\ ActivePeer.fin = FALSE /\ NewSocket.state = "CLOSED"
    BY DEF PassivePeer, ActivePeer, NewSocket
  <2>2. /\ sk.state = "CLOSED" /\ ~woken /\ recvt = {} /\ ~matched /\ ~panicked /\ toUs = << >>
        /\ \/ upc = "connect" /\ peer.state = "LISTEN"
           \/ upc = "bind" /\ peer.state = "IDLE" /\ ~peer.fin
    BY <2>1 DEF TcpInit
  <2> QED
    BY <2>2 DEF ControlInv, SleepInv, PlaceInv, FinInv, WaitInv, PanicOnlyOnRace, Sleeping
<1>2. TypeInv /\ WireInv /\ ControlInv /\ [TcpNext]_vars => ControlInv'
  BY ControlStep
<1> QED
  BY WellTyped, <1>1, <1>2, PTL DEF TcpSpec

\* A segment changes tx_data_list, the timers and the state as the repetition of the
\* SYN|ACK and of the FIN needs.
LEMMA RxRepeats ==
    ASSUME TypeInv, RepeatInv, NEW m \in Segments, RxCase(m)
    PROVE  RepeatInv'
<1>1. sk.tx \in Seq(TxEntries)
  BY SockFields DEF TypeInv
<1>2. CASE Ignored \/ Repeats
  BY <1>2 DEF Ignored, Repeats, RepeatInv, Repeated
<1>3. CASE LastAck
  BY <1>3 DEF LastAck, Sock, RepeatInv
<1>4. CASE SynTaken(m)
  <2> DEFINE p == Segment(SYN \cup ACK, sk.seq_num, m.seq + 1, 0, sk.sport)
             e == Entry(sk.seq_num, 0, p)
  <2>1. /\ sk'.state = "SYN_RCVD" /\ sk'.tx = Append(sk.tx, e) /\ sk.seq_num \in ackt'
    BY <1>4 DEF SynTaken, Sock
  <2>2. e \in TxEntries
    BY SockFields, SegmentFields, PacketTyped DEF TypeInv, Entry, TxEntries, SYN, ACK
  <2>3. "SYN" \in e.pkt.flags /\ e.send_seq_num = sk.seq_num
    BY DEF Entry, Segment, SYN
  <2> HIDE DEF e
  <2>4. e \in Range(sk'.tx)
    BY <1>1, <2>1, <2>2, AppendKeeps
  <2> QED
    BY <2>1, <2>3, <2>4 DEF RepeatInv, Repeated
<1>5. ASSUME NEW tx, Acked(tx, sk.tx, m.ack), TakesFin(m, tx)
      PROVE  RepeatInv'
  <2> DEFINE p == Segment(ACK \cup FIN, sk.seq_num, AckAfter(m) + 1, 0, sk.sport)
             e == Entry(sk.seq_num, 0, p)
  <2>1. /\ sk'.state = "CLOSING" /\ sk'.tx = Append(tx, e) /\ sk.seq_num \in ackt'
    BY <1>5 DEF TakesFin, Sock
  <2>2. e \in TxEntries /\ tx \in Seq(TxEntries)
    <3>1. sk.seq_num \in Nat /\ sk.sport \in Nat /\ AckAfter(m) + 1 \in Nat
      BY SockFields, AfterTyped DEF TypeInv
    <3>2. p \in Segments
      BY <3>1, PacketTyped DEF ACK, FIN
    <3> HIDE DEF p
    <3>3. e \in TxEntries
      BY <3>1, <3>2 DEF Entry, TxEntries
    <3> QED
      BY <1>5, <3>3 DEF Acked
  <2>3. "FIN" \in e.pkt.flags /\ e.send_seq_num = sk.seq_num
    BY DEF Entry, Segment, FIN
  <2> HIDE DEF e
  <2>4. e \in Range(sk'.tx)
    BY <2>1, <2>2, AppendKeeps
  <2> QED
    BY <2>1, <2>3, <2>4 DEF RepeatInv, Repeated
<1>6. ASSUME NEW tx, \/ HandshakeEnds(m, tx) \/ SynAnswered(m, tx) \/ Takes(m, tx)
                     \/ FinWaits(m, tx) \/ FinAnswered(m, tx)
      PROVE  RepeatInv'
  BY <1>6 DEF HandshakeEnds, SynAnswered, Takes, FinWaits, FinAnswered, Sock, RepeatInv
<1> QED
  BY <1>2, <1>3, <1>4, <1>5, <1>6 DEF RxCase

\* The timeouts leave what is to be repeated armed, and no other step of ours enters or
\* keeps a state in which it is to be.
LEMMA RepeatStep ==
    ASSUME TypeInv, ControlInv, RepeatInv, [TcpNext]_vars
    PROVE  RepeatInv'
<1>1. CASE sk'.state = sk.state /\ UNCHANGED <<sk.tx, ackt>>
  BY <1>1 DEF RepeatInv, Repeated
<1>2. CASE sk'.state \notin {"SYN_RCVD", "CLOSING"}
  BY <1>2 DEF RepeatInv
<1>3. CASE TcpRx
  BY <1>3, TcpRxIs, RxRepeats
<1>4. CASE tcp_socket_connect
  <2>1. CASE sk.state = "CLOSED"
    <3>1. sk'.state = "SYN_SENT"
      BY <1>4, <2>1, ConnectIs DEF Connects, Sock
    <3> QED
      BY <1>2, <3>1
  <2>2. CASE sk.state # "CLOSED"
    <3>1. UNCHANGED <<sk, ackt>>
      BY <1>4, <2>2 DEF tcp_socket_connect, Panic, timers
    <3> QED
      BY <1>1, <3>1
  <2> QED
    BY <2>1, <2>2
<1>5. CASE BindListen
  <2>1. upc = "bind" /\ sk.state = "CLOSED" /\ sk' = [sk EXCEPT !.sport = 1, !.state = "LISTEN"]
    BY <1>5 DEF BindListen, ControlInv, PlaceInv
  <2>2. sk'.state = "LISTEN"
    <3> DEFINE s == [sk EXCEPT !.sport = 1]
    <3>1. s \in Sockets
      BY DEF TypeInv, Sockets
    <3>2. sk' = [s EXCEPT !.state = "LISTEN"]
      BY <2>1
    <3> HIDE DEF s
    <3> QED
      BY <3>1, <3>2 DEF Sockets
  <2> QED
    BY <1>2, <2>2
<1>6. CASE tcp_socket_send \/ tcp_socket_close
  <2>1. CASE sk.state = "ESTABLISHED"
    <3>1. sk'.state \in {"ESTABLISHED", "FIN_WAIT_1"}
      BY <1>6, <2>1, SendIs, CloseIs DEF SendsData, SendsFin, Sock
    <3> QED
      BY <1>2, <3>1
  <2>2. CASE sk.state # "ESTABLISHED"
    <3>1. UNCHANGED <<sk, ackt>>
      BY <1>6, <2>2 DEF tcp_socket_send, tcp_socket_close, Panic, timers
    <3> QED
      BY <1>1, <3>1
  <2> QED
    BY <2>1, <2>2
<1>7. CASE RecvNow \/ RecvReturn
  <2>1. PopRx /\ UNCHANGED ackt
    BY <1>7 DEF RecvNow, RecvReturn, timers
  <2>2. sk'.state = sk.state /\ sk'.tx = sk.tx
    BY <2>1, PopRxIs DEF Sock
  <2> QED
    BY <1>1, <2>1, <2>2
<1>8. CASE RecvSleep
  <2>1. UNCHANGED ackt /\ \E tick \in sk.wait_id .. MaxTick : sk' = [sk EXCEPT !.wait_id = tick]
    BY <1>8 DEF RecvSleep
  <2>2. sk'.state = sk.state /\ sk'.tx = sk.tx
    BY <2>1 DEF TypeInv, Sockets
  <2> QED
    BY <1>1, <2>1, <2>2
<1>9. CASE tcp_connect_timeout
  <2>1. \/ sk' = Sock("CLOSED", sk.sport, sk.seq_num, sk.ack_num, sk.rx, sk.tx)
        \/ UNCHANGED <<sk, ackt>>
    BY <1>9, ConnectTimeoutIs
  <2>2. sk'.state = "CLOSED" \/ UNCHANGED <<sk, ackt>>
    BY <2>1 DEF Sock
  <2> QED
    BY <1>1, <1>2, <2>2
<1>10. ASSUME NEW n \in ackt, tcp_ack_timeout(n)
       PROVE  RepeatInv'
  <2>1. /\ UNCHANGED sk
        /\ ackt' = ackt \/ (/\ ackt' = ackt \ {n}
                            /\ \/ sk.state = "CLOSED"
                               \/ \A e \in Range(sk.tx) : e.send_seq_num # n)
    BY <1>10, AckTimeoutIs
  <2>2. CASE sk.state = "CLOSED"
    BY <1>2, <2>1, <2>2
  <2>3. CASE sk.state # "CLOSED"
    <3>1. \A e \in Range(sk.tx) : e.send_seq_num \in ackt => e.send_seq_num \in ackt'
      BY <2>1, <2>3
    <3> QED
      BY <2>1, <3>1 DEF RepeatInv, Repeated
  <2> QED
    BY <2>2, <2>3
<1>11. CASE \/ ConnectReturn \/ tcp_socket_accept \/ AcceptReturn \/ CloseReturn
            \/ (\E w \in recvt : tcp_socket_recv_timeout(w)) \/ RecvTimeoutWake
            \/ PeerStep \/ Lose \/ UNCHANGED vars
  <2>1. UNCHANGED <<sk, ackt>>
    BY <1>11
       DEF ConnectReturn, tcp_socket_accept, AcceptReturn, CloseReturn, Panic,
           tcp_socket_recv_timeout, RecvTimeoutWake, PeerStep, PeerRx, PeerConnect,
           PeerSend, PeerFin, PeerRetransmit, Lose, timers, vars
  <2> QED
    BY <1>1, <2>1
<1> QED
  BY <1>3, <1>4, <1>5, <1>6, <1>7, <1>8, <1>9, <1>10, <1>11
     DEF TcpNext, ClientStep, ServerStep, TalkStep, WorkStep

\* What is to be repeated until it is answered is.
LEMMA RepeatHolds == TcpSpec => []RepeatInv
<1>1. TcpInit => RepeatInv
  BY DEF TcpInit, NewSocket, RepeatInv
<1>2. TypeInv /\ WireInv /\ ControlInv /\ RepeatInv /\ [TcpNext]_vars => RepeatInv'
  BY RepeatStep
<1> QED
  BY WellTyped, ControlHolds, <1>1, <1>2, PTL DEF TcpSpec

\* What a sleeping call waits for is still to come: connect's timeout; data or, for
\* a receive begun before the tick 2^31, the timeout of its own wait_id; for accept
\* and close the peer, to whom the SYN|ACK or the FIN it has to answer is repeated
\* (tcp_socket_connect, tcp_socket_recv, tcp_socket_accept, tcp_socket_close,
\* tcp_ack_timeout and task_wakeup in tcp_recv_pkt).
THEOREM NoSleepForever == TcpSpec => []SleeperWaits
<1>1. WaitInv /\ RepeatInv => SleeperWaits
  BY DEF WaitInv, RepeatInv, SleeperWaits
<1> QED
  BY ControlHolds, RepeatHolds, <1>1, PTL DEF ControlInv

\* Whatever the network loses, repeats or reorders, a socket call meets a state
\* it does not expect only after a segment of the peer that opens or ends the
\* connection, or in httpget after both connects have failed: for a program that
\* sends only on the connection it has, and a peer that sends no FIN, connect, send
\* and close never panic.
THEOREM PanicsAreRaces == TcpSpec => []PanicOnlyOnRace
  BY ControlHolds, PTL DEF ControlInv

-----------------------------------------------------------------------------
(* Tcp implements Connection.                                              *)

\* The call in which the program sleeps, by where it is.
CallIn(u) ==
    IF u \in {"connect_sleep", "accept_sleep", "recv_sleep", "close_sleep"}
    THEN SleepingCall[u] ELSE "none"

\* The call the program sleeps in, place by place.
LEMMA CallInIs ==
    /\ CallIn("connect_sleep") = "connect" /\ CallIn("accept_sleep") = "accept"
    /\ CallIn("recv_sleep") = "recv" /\ CallIn("close_sleep") = "close"
    /\ CallIn("connect") = "none" /\ CallIn("bind") = "none" /\ CallIn("accept") = "none"
    /\ CallIn("open") = "none" /\ CallIn("done") = "none" /\ CallIn("refused") = "none"
  BY DEF CallIn, SleepingCall

\* The states Connection lets each call be made in.
LEMMA ExpectsIs ==
    /\ DOMAIN C!Expects = {"connect", "listen", "accept", "send", "close"}
    /\ C!Expects["connect"] = {"CLOSED"} /\ C!Expects["listen"] = {"CLOSED"}
    /\ C!Expects["accept"] = {"LISTEN"} /\ C!Expects["send"] = {"ESTABLISHED"}
    /\ C!Expects["close"] = {"ESTABLISHED", "CLOSING", "CLOSED"}
  BY DEF C!Expects

\* What Connection says of the calls, in terms of the socket.
LEMMA ViewIs ==
    /\ \A op : C!May(op) <=> ~panicked /\ CallIn(upc) = "none" /\ sk.state \in C!Expects[op]
    /\ \A c : C!Sleeps(c) <=> CallIn(upc)' = c /\ woken' = FALSE
    /\ C!Wakes <=> woken' = (CallIn(upc) # "none")
    /\ UNCHANGED C!connvars <=>
         /\ sk'.state = sk.state /\ (sk.rx # << >>)' = (sk.rx # << >>)
         /\ CallIn(upc)' = CallIn(upc) /\ woken' = woken /\ panicked' = panicked
  BY DEF C!May, C!Sleeps, C!Wakes, C!connvars, CallIn, Sleeping

\* A panic is the wrong call of Connection.
LEMMA Panicked ==
    ASSUME Panic, ~panicked, CallIn(upc) = "none",
           NEW op \in {"connect", "listen", "accept", "send", "close"},
           sk.state \notin C!Expects[op]
    PROVE  C!ConnNext
<1>1. /\ panicked' = TRUE /\ UNCHANGED <<sk, upc, woken>>
  BY DEF Panic
<1>2. C!Misused(op)
  BY <1>1 DEF C!Misused, CallIn, Sleeping
<1> QED
  BY <1>2, ExpectsIs DEF C!ConnNext, C!UserCall

\* What Connection does not see.
LEMMA Stutters ==
    ASSUME sk'.state = sk.state, sk'.rx = sk.rx, UNCHANGED <<upc, woken, panicked>>
    PROVE  UNCHANGED C!connvars
  BY ViewIs DEF CallIn

\* A sleeper that goes on.
LEMMA Returns ==
    ASSUME ~panicked, UNCHANGED panicked, woken, woken' = FALSE, sk'.state = sk.state,
           CallIn(upc) # "none", CallIn(upc') = "none",
           \/ sk'.rx = sk.rx
           \/ CallIn(upc) = "recv" /\ sk.rx # << >>
    PROVE  C!ConnNext
<1>1. C!Return
  BY DEF C!Return, CallIn, Sleeping
<1> QED
  BY <1>1 DEF C!ConnNext, C!UserCall

\* What tcp_rx does is one of the steps of the network.
LEMMA RxRefines ==
    ASSUME TypeInv, SleepInv, TcpRx
    PROVE  C!ConnNext \/ UNCHANGED C!connvars
<1>1. PICK m \in Range(toUs) :
        /\ m \in Segments /\ RxCase(m)
        /\ UNCHANGED <<upc, connt, recvt, matched, ncall, read, eof, panicked, peer, peergot>>
  BY TcpRxIs
<1>2. Moves(m)
  BY <1>1, RxMoves
<1>3. ~panicked /\ woken \in BOOLEAN
  BY DEF TcpRx, KernelFree, Halted, TypeInv
<1>4. Wakeup => C!Wakes
  BY <1>3 DEF Wakeup, C!Wakes, SleepInv, Sleeping, SleepingCall
<1>5. UNCHANGED <<IF Sleeping THEN SleepingCall[upc] ELSE "none", panicked>>
  BY <1>1 DEF Sleeping
<1>6. ASSUME C!Network
      PROVE  C!ConnNext
  BY <1>6 DEF C!ConnNext
<1>7. CASE sk'.state = sk.state /\ sk'.rx = sk.rx /\ UNCHANGED woken
  BY <1>1, <1>7, Stutters
<1>8. CASE sk.state = "LISTEN" /\ sk'.state = "SYN_RCVD" /\ sk'.rx = sk.rx /\ UNCHANGED woken
  <2>1. C!Knock
    BY <1>8 DEF C!Knock
  <2> QED
    BY <1>3, <1>5, <1>6, <2>1 DEF C!Network
<1>9. CASE /\ sk.state = "SYN_RCVD" /\ sk'.state = "ESTABLISHED"
           /\ (sk'.rx = sk.rx \/ sk'.rx # << >>) /\ Wakeup
  <2>1. C!Accepted
    BY <1>4, <1>9 DEF C!Accepted
  <2> QED
    BY <1>3, <1>5, <1>6, <2>1 DEF C!Network
<1>10. CASE sk.state = "SYN_SENT" /\ sk'.state = "ESTABLISHED" /\ sk'.rx = sk.rx /\ Wakeup
  <2>1. C!ConnectEnds
    BY <1>4, <1>10 DEF C!ConnectEnds
  <2> QED
    BY <1>3, <1>5, <1>6, <2>1 DEF C!Network
<1>11. CASE /\ sk.state = "ESTABLISHED" /\ sk'.state \in {"ESTABLISHED", "CLOSING"}
            /\ \/ sk'.rx = sk.rx /\ UNCHANGED woken
               \/ sk'.rx # << >> /\ Wakeup
  <2>1. CASE sk'.state = "CLOSING"
    <3>1. C!PeerCloses
      BY <1>4, <1>11, <2>1 DEF C!PeerCloses
    <3> QED
      BY <1>3, <1>5, <1>6, <3>1 DEF C!Network
  <2>2. CASE sk'.state = "ESTABLISHED" /\ sk'.rx = sk.rx /\ UNCHANGED woken
    BY <1>1, <1>11, <2>2, Stutters
  <2>3. CASE sk'.state = "ESTABLISHED" /\ sk'.rx # << >> /\ Wakeup
    <3>1. C!Arrives
      BY <1>4, <1>11, <2>3 DEF C!Arrives
    <3> QED
      BY <1>3, <1>5, <1>6, <3>1 DEF C!Network
  <2> QED
    BY <1>11, <2>1, <2>2, <2>3
<1>12. CASE /\ sk.state \in {"FIN_WAIT_1", "CLOSING"} /\ sk'.state = "CLOSED"
            /\ sk'.rx = sk.rx /\ Wakeup
  <2>1. C!CloseEnds
    BY <1>4, <1>12 DEF C!CloseEnds
  <2> QED
    BY <1>3, <1>5, <1>6, <2>1 DEF C!Network
<1> QED
  BY <1>2, <1>7, <1>8, <1>9, <1>10, <1>11, <1>12 DEF Moves

\* tcp_socket_connect and its return are steps of Connection,
LEMMA ClientRefines ==
    ASSUME TypeInv, SleepInv, ClientStep
    PROVE  C!ConnNext \/ UNCHANGED C!connvars
<1>1. ~panicked
  BY DEF ClientStep, tcp_socket_connect, ConnectReturn, Halted, TypeInv
<1>2. CASE tcp_socket_connect /\ sk.state # "CLOSED"
  BY <1>1, <1>2, Panicked, CallInIs, ExpectsIs DEF tcp_socket_connect
<1>3. CASE tcp_socket_connect /\ sk.state = "CLOSED"
  <2>1. upc = "connect" /\ upc' = "connect_sleep" /\ woken' = FALSE /\ panicked' = panicked
    BY <1>3 DEF tcp_socket_connect, SleepIn
  <2>2. sk'.state = "SYN_SENT" /\ sk'.rx = sk.rx
    BY <1>3, ConnectIs DEF Connects, Sock
  <2>3. C!May("connect") /\ C!Sleeps("connect")
    BY <1>1, <1>3, <2>1, ViewIs, CallInIs, ExpectsIs
  <2>4. C!Connect
    BY <2>1, <2>2, <2>3 DEF C!Connect
  <2> QED
    BY <2>4 DEF C!ConnNext, C!UserCall
<1>4. CASE ConnectReturn
  <2>1. /\ upc = "connect_sleep" /\ upc' \in {"open", "connect", "done", "refused"}
        /\ woken /\ woken' = FALSE /\ UNCHANGED <<sk, panicked>>
    BY <1>4 DEF ConnectReturn
  <2>2. CallIn(upc) # "none" /\ CallIn(upc') = "none"
    BY <2>1, CallInIs
  <2> QED
    BY <1>1, <2>1, <2>2, Returns
<1> QED
  BY <1>2, <1>3, <1>4 DEF ClientStep

\* bind, listen and accept are,
LEMMA ServerRefines ==
    ASSUME TypeInv, SleepInv, ServerStep
    PROVE  C!ConnNext \/ UNCHANGED C!connvars
<1>1. ~panicked /\ sk \in Sockets
  BY DEF ServerStep, BindListen, tcp_socket_accept, AcceptReturn, Halted, TypeInv
<1>2. CASE BindListen /\ sk.state # "CLOSED"
  BY <1>1, <1>2, Panicked, CallInIs, ExpectsIs DEF BindListen
<1>3. CASE BindListen /\ sk.state = "CLOSED"
  <2>1. /\ upc = "bind" /\ upc' = "accept" /\ UNCHANGED <<woken, panicked>>
        /\ sk' = [sk EXCEPT !.sport = 1, !.state = "LISTEN"]
    BY <1>3 DEF BindListen
  <2>2. sk'.state = "LISTEN" /\ sk'.rx = sk.rx
    <3> DEFINE s == [sk EXCEPT !.sport = 1]
    <3>1. s \in Sockets /\ s.rx = sk.rx
      BY <1>1 DEF Sockets
    <3>2. sk' = [s EXCEPT !.state = "LISTEN"]
      BY <2>1
    <3> HIDE DEF s
    <3> QED
      BY <3>1, <3>2 DEF Sockets
  <2>3. upc = "bind" /\ upc' = "accept" /\ UNCHANGED <<woken, panicked>>
    BY <2>1
  <2>4. C!May("listen") /\ UNCHANGED (IF Sleeping THEN SleepingCall[upc] ELSE "none")
    BY <1>1, <1>3, <2>3, ViewIs, CallInIs, ExpectsIs DEF Sleeping
  <2>5. C!Listen
    BY <2>2, <2>3, <2>4 DEF C!Listen
  <2> QED
    BY <2>5 DEF C!ConnNext, C!UserCall
<1>4. CASE tcp_socket_accept /\ sk.state # "LISTEN"
  BY <1>1, <1>4, Panicked, CallInIs, ExpectsIs DEF tcp_socket_accept
<1>5. CASE tcp_socket_accept /\ sk.state = "LISTEN"
  <2>1. /\ upc = "accept" /\ upc' = "accept_sleep" /\ woken' = FALSE
        /\ UNCHANGED <<sk, panicked>>
    BY <1>5 DEF tcp_socket_accept, SleepIn
  <2>2. C!May("accept") /\ C!Sleeps("accept")
    BY <1>1, <1>5, <2>1, ViewIs, CallInIs, ExpectsIs
  <2>3. C!Accept
    BY <2>1, <2>2 DEF C!Accept
  <2> QED
    BY <2>3 DEF C!ConnNext, C!UserCall
<1>6. CASE AcceptReturn
  <2>1. /\ upc = "accept_sleep" /\ upc' = "open"
        /\ woken /\ woken' = FALSE /\ UNCHANGED <<sk, panicked>>
    BY <1>6 DEF AcceptReturn
  <2>2. CallIn(upc) # "none" /\ CallIn(upc') = "none"
    BY <2>1, CallInIs
  <2> QED
    BY <1>1, <2>1, <2>2, Returns
<1> QED
  BY <1>2, <1>3, <1>4, <1>5, <1>6 DEF ServerStep

\* send, recv and close are,
LEMMA TalkRefines ==
    ASSUME TypeInv, SleepInv, PlaceInv, TalkStep
    PROVE  C!ConnNext \/ UNCHANGED C!connvars
<1>1. /\ ~panicked /\ sk \in Sockets /\ sk.state \in TCP_STATE
      /\ upc \in {"open", "refused"} => CallIn(upc) = "none"
  BY SockFields, CallInIs
     DEF TalkStep, tcp_socket_send, RecvNow, RecvSleep, RecvReturn, tcp_socket_close,
         CloseReturn, Halted, TypeInv
<1>2. CASE tcp_socket_send /\ sk.state # "ESTABLISHED"
  <2>1. upc \in {"open", "refused"} /\ Panic
    BY <1>2 DEF tcp_socket_send
  <2> QED
    BY <1>1, <1>2, <2>1, Panicked, ExpectsIs
<1>3. CASE tcp_socket_send /\ sk.state = "ESTABLISHED"
  <2>1. UNCHANGED <<upc, woken, panicked>>
    BY <1>3 DEF tcp_socket_send
  <2>2. sk'.state = sk.state /\ sk'.rx = sk.rx
    BY <1>3, SendIs DEF SendsData, Sock
  <2> QED
    BY <2>1, <2>2, Stutters
<1>4. CASE RecvNow
  <2>1. upc = "open" /\ PopRx /\ UNCHANGED <<upc, woken, panicked>>
    BY <1>4 DEF RecvNow
  <2>2. sk'.state = sk.state /\ (sk.rx = << >> => sk' = sk)
    BY <2>1, PopRxIs DEF Sock
  <2>3. CASE sk.rx = << >>
    BY <2>1, <2>2, <2>3, Stutters
  <2>4. CASE sk.rx # << >>
    <3>1. C!RecvTake
      BY <1>1, <2>1, <2>2, <2>4 DEF C!RecvTake, CallIn, Sleeping
    <3> QED
      BY <3>1 DEF C!ConnNext, C!UserCall
  <2> QED
    BY <2>3, <2>4
<1>5. CASE RecvSleep
  <2>1. /\ upc = "open" /\ upc' = "recv_sleep" /\ woken' = FALSE /\ panicked' = panicked
        /\ sk.rx = << >> /\ sk.state = "ESTABLISHED"
    BY <1>5 DEF RecvSleep, SleepIn
  <2>2. sk'.state = sk.state /\ sk'.rx = sk.rx
    BY <1>1, <1>5 DEF RecvSleep, Sockets
  <2>3. C!Sleeps("recv") /\ CallIn(upc) = "none"
    BY <2>1, ViewIs, CallInIs
  <2>4. C!RecvWait
    BY <1>1, <2>1, <2>2, <2>3 DEF C!RecvWait, CallIn, Sleeping
  <2> QED
    BY <2>4 DEF C!ConnNext, C!UserCall
<1>6. CASE RecvReturn
  <2>1. /\ upc = "recv_sleep" /\ upc' = "open" /\ PopRx
        /\ woken /\ woken' = FALSE /\ UNCHANGED panicked
    BY <1>6 DEF RecvReturn
  <2>2. /\ sk'.state = sk.state
        /\ sk'.rx = sk.rx \/ sk.rx # << >>
    BY <2>1, PopRxIs DEF Sock
  <2>3. CallIn(upc) = "recv" /\ CallIn(upc') = "none"
    BY <2>1, CallInIs
  <2> QED
    BY <1>1, <2>1, <2>2, <2>3, Returns
<1>7. CASE tcp_socket_close /\ sk.state \in {"ESTABLISHED", "CLOSING"}
  <2>1. /\ upc = "open" /\ upc' = "close_sleep" /\ woken' = FALSE /\ panicked' = panicked
    BY <1>7 DEF tcp_socket_close, SleepIn
  <2>2. /\ sk.state = "ESTABLISHED" => sk'.state = "FIN_WAIT_1"
        /\ sk.state = "CLOSING" => sk'.state = "CLOSING"
        /\ sk'.rx = sk.rx
    <3>1. CASE sk.state = "ESTABLISHED"
      BY <1>7, <3>1, CloseIs DEF SendsFin, Sock
    <3>2. CASE sk.state = "CLOSING"
      BY <1>7, <3>2 DEF tcp_socket_close
    <3> QED
      BY <1>7, <3>1, <3>2
  <2>3. C!May("close") /\ C!Sleeps("close")
    BY <1>1, <1>7, <2>1, ViewIs, CallInIs, ExpectsIs
  <2>4. C!Close
    BY <1>7, <2>1, <2>2, <2>3 DEF C!Close
  <2> QED
    BY <2>4 DEF C!ConnNext, C!UserCall
<1>8. CASE tcp_socket_close /\ sk.state = "CLOSED"
  <2>1. upc = "open" /\ upc' = "done" /\ UNCHANGED <<sk, woken, panicked>>
    BY <1>8 DEF tcp_socket_close
  <2> QED
    BY <2>1, ViewIs, CallInIs
<1>9. CASE tcp_socket_close /\ sk.state \notin {"ESTABLISHED", "CLOSING", "CLOSED"}
  <2>1. upc = "open" /\ Panic
    BY <1>9 DEF tcp_socket_close
  <2> QED
    BY <1>1, <1>9, <2>1, Panicked, ExpectsIs
<1>10. CASE CloseReturn
  <2>1. /\ upc = "close_sleep" /\ upc' = "done"
        /\ woken /\ woken' = FALSE /\ UNCHANGED <<sk, panicked>>
    BY <1>10 DEF CloseReturn
  <2>2. CallIn(upc) # "none" /\ CallIn(upc') = "none"
    BY <2>1, CallInIs
  <2> QED
    BY <1>1, <2>1, <2>2, Returns
<1> QED
  BY <1>2, <1>3, <1>4, <1>5, <1>6, <1>7, <1>8, <1>9, <1>10 DEF TalkStep

\* and so are the timeouts.
LEMMA WorkRefines ==
    ASSUME TypeInv, SleepInv, WorkStep
    PROVE  C!ConnNext \/ UNCHANGED C!connvars
<1>1. ~panicked /\ woken \in BOOLEAN /\ upc \in Labels
  BY DEF WorkStep, tcp_connect_timeout, tcp_ack_timeout, tcp_socket_recv_timeout,
         RecvTimeoutWake, KernelFree, Halted, TypeInv
<1>2. Wakeup => C!Wakes
  BY <1>1 DEF Wakeup, C!Wakes, SleepInv, Sleeping, SleepingCall
<1>3. ASSUME C!Network
      PROVE  C!ConnNext
  BY <1>3 DEF C!ConnNext
<1>4. CASE tcp_connect_timeout
  <2>1. /\ UNCHANGED <<upc, panicked>>
        /\ \/ /\ sk.state = "SYN_SENT" /\ Wakeup
              /\ sk' = Sock("CLOSED", sk.sport, sk.seq_num, sk.ack_num, sk.rx, sk.tx)
           \/ sk.state # "SYN_SENT" /\ UNCHANGED <<sk, woken>>
    BY <1>4, ConnectTimeoutIs
  <2>2. CASE sk.state = "SYN_SENT"
    <3>1. sk'.state = "CLOSED" /\ sk'.rx = sk.rx
      BY <2>1, <2>2 DEF Sock
    <3>2. C!ConnectEnds
      BY <1>2, <2>1, <2>2, <3>1 DEF C!ConnectEnds
    <3>3. UNCHANGED <<IF Sleeping THEN SleepingCall[upc] ELSE "none", panicked>>
      BY <2>1 DEF Sleeping
    <3> QED
      BY <1>1, <1>3, <3>2, <3>3 DEF C!Network
  <2>3. CASE sk.state # "SYN_SENT"
    BY <2>1, <2>3, Stutters
  <2> QED
    BY <2>2, <2>3
<1>5. ASSUME NEW n \in ackt, tcp_ack_timeout(n)
      PROVE  UNCHANGED C!connvars
  BY <1>5, Stutters DEF tcp_ack_timeout
<1>6. ASSUME NEW w \in recvt, tcp_socket_recv_timeout(w)
      PROVE  UNCHANGED C!connvars
  BY <1>6, Stutters DEF tcp_socket_recv_timeout
<1>7. CASE RecvTimeoutWake
  <2>1. /\ UNCHANGED <<sk, upc, panicked>> /\ Wakeup /\ matched
    BY <1>7 DEF RecvTimeoutWake
  <2>2. CASE ~Sleeping
    <3>1. woken' = woken
      BY <1>1, <2>1, <2>2 DEF Wakeup
    <3> QED
      BY <2>1, <3>1, Stutters
  <2>3. CASE Sleeping
    <3>1. upc \in {"recv_sleep", "close_sleep"}
      BY <2>1, <2>3 DEF SleepInv, Sleeping
    <3>2. (IF Sleeping THEN SleepingCall[upc] ELSE "none") \in {"recv", "close"}
      BY <3>1 DEF Sleeping, SleepingCall
    <3>3. C!RecvExpires
      BY <1>2, <2>1, <2>3, <3>2 DEF C!RecvExpires
    <3>4. UNCHANGED <<IF Sleeping THEN SleepingCall[upc] ELSE "none", panicked>>
      BY <2>1 DEF Sleeping
    <3> QED
      BY <1>1, <1>3, <3>3, <3>4 DEF C!Network
  <2> QED
    BY <2>2, <2>3
<1> QED
  BY <1>4, <1>5, <1>6, <1>7 DEF WorkStep

\* The socket implements Connection: its states follow one another, its calls
\* sleep, are woken and panic as Connection says, whatever reaches tcp_recv_pkt
\* and whenever the work functions run.
THEOREM TcpImplementsConnection == TcpSpec => ConnectionSpec
<1>1. TcpInit => C!ConnInit
  <2> SUFFICES ASSUME TcpInit
               PROVE  C!ConnInit
    OBVIOUS
  <2>1. /\ sk.state = "CLOSED" /\ sk.rx = << >> /\ upc \in {"connect", "bind"}
        /\ woken = FALSE /\ panicked = FALSE
    BY DEF TcpInit, NewSocket
  <2> QED
    BY <2>1 DEF C!ConnInit, Sleeping
<1>2. TypeInv /\ WireInv /\ ControlInv /\ [TcpNext]_vars => [C!ConnNext]_(C!connvars)
  <2> SUFFICES ASSUME TypeInv, WireInv, ControlInv, [TcpNext]_vars
               PROVE  C!ConnNext \/ UNCHANGED C!connvars
    BY DEF C!connvars
  <2>1. SleepInv /\ PlaceInv
    BY DEF ControlInv
  <2>2. CASE PeerStep
    <3>1. UNCHANGED <<sk, upc, woken, panicked>>
      BY <2>2 DEF PeerStep, PeerRx, PeerConnect, PeerSend, PeerFin, PeerRetransmit
    <3> QED
      BY <3>1, Stutters
  <2>3. CASE Lose
    BY <2>3, Stutters DEF Lose
  <2>4. CASE UNCHANGED vars
    BY <2>4, Stutters DEF vars
  <2> QED
    BY <2>1, <2>2, <2>3, <2>4, RxRefines, ClientRefines, ServerRefines, TalkRefines,
       WorkRefines DEF TcpNext
<1> QED
  BY WellTyped, ControlHolds, <1>1, <1>2, PTL DEF TcpSpec, ConnectionSpec, C!ConnSpec

-----------------------------------------------------------------------------
(* The bytes we send.                                                      *)

\* A segment that opens nothing and that we do not answer with a FIN: neither
\* numbers nor entries are added, and what it does not acknowledge stays.
RxPlain(m) ==
    /\ sk'.sport = sk.sport /\ sk'.seq_num = sk.seq_num /\ UNCHANGED ackt
    /\ sk.state \in Ending => sk'.state \in Ending
    /\ sk'.state \in {sk.state, "CLOSED"} \/ sk.state \in {"SYN_RCVD", "SYN_SENT"}
    /\ sk'.state \in {sk.state, "CLOSED", "ESTABLISHED"}
    /\ sk.state \in {"CLOSED", "LISTEN"} => UNCHANGED <<sk, toPeer>>
    /\ \A p \in Range(toPeer') :
          \/ p \in Range(toPeer) \/ (p \in TxPackets(sk.tx) /\ p.port = sk.sport)
          \/ p.data = 0 /\ p.flags = ACK
    /\ \A e \in Range(sk'.tx) : \E f \in Range(sk.tx) : Alike(e, f)
    /\ \A f \in Range(sk.tx) : f.wait_ack_num > m.ack => \E e \in Range(sk'.tx) : Alike(e, f)

\* The cases of a segment, by what they do to the numbers.
LEMMA RxViews ==
    ASSUME TypeInv, NEW m \in Segments, RxCase(m)
    PROVE  \/ RxPlain(m) \/ SynTaken(m)
           \/ \E tx : Acked(tx, sk.tx, m.ack) /\ TakesFin(m, tx)
<1>1. /\ \A e : Alike(e, e)
      /\ \A p, a : p = Segment(ACK, sk.seq_num, a, 0, sk.sport) => p.data = 0 /\ p.flags = ACK
  BY DEF Alike, Segment
<1>2. CASE Ignored
  BY <1>1, <1>2 DEF Ignored, RxPlain
<1>3. CASE Repeats
  BY <1>1, <1>3 DEF Repeats, Sent, RxPlain
<1>4. CASE LastAck
  <2>1. sk.state = "CLOSING" /\ UNCHANGED <<toPeer, ackt>>
    BY <1>4 DEF LastAck
  <2>2. /\ sk'.state = "CLOSED" /\ sk'.sport = sk.sport /\ sk'.seq_num = sk.seq_num
        /\ sk'.tx = sk.tx
    BY <1>4 DEF LastAck, Sock
  <2> QED
    BY <1>1, <2>1, <2>2 DEF RxPlain, Ending
<1>5. ASSUME NEW tx, Acked(tx, sk.tx, m.ack),
             \/ HandshakeEnds(m, tx) \/ SynAnswered(m, tx) \/ Takes(m, tx)
             \/ FinWaits(m, tx) \/ FinAnswered(m, tx)
      PROVE  RxPlain(m)
  <2>1. PICK a : Sent({Segment(ACK, sk.seq_num, a, 0, sk.sport)}) \/ Sent({})
    BY <1>5 DEF HandshakeEnds, SynAnswered, Takes, FinWaits, FinAnswered
  <2>2. /\ sk'.sport = sk.sport /\ sk'.seq_num = sk.seq_num /\ sk'.tx = tx /\ UNCHANGED ackt
        /\ \/ sk.state \in {"SYN_RCVD", "SYN_SENT", "ESTABLISHED"} /\ sk'.state = "ESTABLISHED"
           \/ sk.state = "FIN_WAIT_1" /\ sk'.state \in {"FIN_WAIT_1", "CLOSED"}
    BY <1>5 DEF HandshakeEnds, SynAnswered, Takes, FinWaits, FinAnswered, Sock
  <2>3. \A p \in Range(toPeer') :
          \/ p \in Range(toPeer) \/ (p \in TxPackets(sk.tx) /\ p.port = sk.sport)
          \/ p.data = 0 /\ p.flags = ACK
    BY <1>1, <2>1 DEF Sent
  <2>4. /\ \A e \in Range(sk'.tx) : \E f \in Range(sk.tx) : Alike(e, f)
        /\ \A f \in Range(sk.tx) : f.wait_ack_num > m.ack => \E e \in Range(sk'.tx) : Alike(e, f)
    BY <1>5, <2>2 DEF Acked
  <2> QED
    BY <2>2, <2>3, <2>4 DEF RxPlain, Ending
<1> QED
  BY <1>2, <1>3, <1>4, <1>5 DEF RxCase

\* The ranges of the counters the stream is numbered with.
LEMMA CountsTyped ==
    ASSUME TypeInv
    PROVE  /\ ncall.connect \in Nat /\ ncall.send \in Nat /\ Base \in Nat /\ Base > 0
           /\ sk.seq_num \in Nat /\ sk.sport \in Nat /\ sk.tx \in Seq(TxEntries)
           /\ peergot \in Seq(Nat) /\ peer.rcv \in Nat
  BY SockFields, PeerFields DEF TypeInv, Calls, Base

\* The calls and the port stay: what was numbered stays so.
LEMMA SentKeeps ==
    ASSUME TypeInv, SentInv, sk'.sport = sk.sport,
           ncall'.connect = ncall.connect, ncall'.send = ncall.send,
           sk.state \in Ending => sk'.state \in Ending,
           \A m \in Range(toPeer') :
              \/ m \in Range(toPeer) \/ (m \in TxPackets(sk.tx) /\ m.port = sk.sport)
              \/ Numbered(m)',
           \A e \in Range(sk'.tx) : (\E f \in Range(sk.tx) : Alike(e, f)) \/ EntryInv(e)'
    PROVE  SentInv'
<1>1. Base' = Base
  BY DEF Base
<1>2. ASSUME NEW m, Numbered(m)
      PROVE  Numbered(m)'
  BY <1>1, <1>2 DEF Numbered
<1>3. ASSUME NEW e, NEW f \in Range(sk.tx), Alike(e, f)
      PROVE  EntryInv(e)'
  <2>1. EntryInv(f)
    BY DEF SentInv
  <2>2. EntryInv(e)
    BY <1>3, <2>1 DEF EntryInv, Alike
  <2>3. e.pkt.port = sk'.sport => Numbered(e.pkt)
    BY <2>2 DEF EntryInv
  <2> DEFINE p == e.pkt
  <2>4. p.port = sk'.sport => Numbered(p)'
    BY <1>2, <2>3
  <2> QED
    BY <1>1, <2>2, <2>4 DEF EntryInv
<1>4. ASSUME NEW m \in TxPackets(sk.tx), m.port = sk.sport
      PROVE  Numbered(m)
  <2>1. PICK i \in 1 .. Len(sk.tx) : m = sk.tx[i].pkt
    BY DEF TxPackets
  <2>2. sk.tx[i] \in Range(sk.tx)
    BY CountsTyped DEF Range
  <2> QED
    BY <1>4, <2>1, <2>2 DEF SentInv, EntryInv
<1>5. \A m \in Range(toPeer') : Numbered(m)'
  BY <1>2, <1>4 DEF SentInv
<1>6. \A e \in Range(sk'.tx) : EntryInv(e)'
  BY <1>3
<1> QED
  BY <1>5, <1>6 DEF SentInv

\* A segment without data and its entry.
LEMMA EmptyNumbered ==
    ASSUME NEW p, NEW e, p.data = 0, p.port = sk'.sport, sk'.sport \in Nat, e.pkt = p,
           "SYN" \in p.flags => p.seq + 1 = Base',
           "FIN" \in p.flags => p.seq = Base' + ncall'.send /\ sk'.state \in Ending
    PROVE  Numbered(p)' /\ EntryInv(e)'
<1>1. Numbered(p)'
  BY DEF Numbered
<1> QED
  BY <1>1 DEF EntryInv

\* A received segment keeps the numbering,
LEMMA RxStream ==
    ASSUME TypeInv, sk' \in Sockets, PlaceInv, StreamInv, TcpRx
    PROVE  StreamInv'
<1>1. PICK m \in Range(toUs) :
        /\ m \in Segments /\ RxCase(m)
        /\ UNCHANGED <<upc, connt, recvt, matched, ncall, read, eof, panicked, peer, peergot>>
  BY TcpRxIs
<1>2. /\ Base' = Base /\ ncall' = ncall
      /\ ncall.connect \in Nat /\ ncall.send \in Nat /\ sk.seq_num \in Nat /\ sk.sport \in Nat
      /\ SentInv /\ CountInv /\ PeerInv /\ PeerStreamInOrder /\ m.seq + 1 \in Nat
      /\ sk'.sport \in Nat
  <2>1. /\ ncall.connect \in Nat /\ ncall.send \in Nat /\ sk.seq_num \in Nat
        /\ sk.sport \in Nat
    BY CountsTyped
  <2>2. m.seq + 1 \in Nat
    BY <1>1, SegmentFields
  <2>3. sk'.sport \in Nat
    BY DEF Sockets
  <2> QED
    BY <1>1, <2>1, <2>2, <2>3 DEF Base, StreamInv
<1>3. PeerStreamInOrder'
  BY <1>1, <1>2 DEF PeerStreamInOrder
<1>4. CASE RxPlain(m)
  <2>1. \A p : p.data = 0 /\ p.flags = ACK => Numbered(p)'
    BY DEF Numbered, ACK
  <2>2. SentInv'
    BY <1>2, <1>4, <2>1, SentKeeps DEF RxPlain
  <2>3. CountInv'
    <3>1. CASE sk.state \in {"CLOSED", "LISTEN"}
      BY <1>1, <1>2, <1>4, <3>1 DEF RxPlain, CountInv
    <3>2. CASE sk.state \notin {"CLOSED", "LISTEN"}
      <4>1. upc # "bind" /\ sk'.state # "LISTEN"
        BY <1>4, <3>2 DEF RxPlain, PlaceInv
      <4>2. /\ sk'.state \in {"SYN_RCVD", "SYN_SENT"} => sk'.state = sk.state
            /\ sk'.seq_num = sk.seq_num /\ sk'.sport = sk.sport
        BY <1>4 DEF RxPlain
      <4>3. sk'.state \in {"SYN_SENT", "SYN_RCVD", "ESTABLISHED", "CLOSING"} =>
              sk.state \in {"SYN_SENT", "SYN_RCVD", "ESTABLISHED", "CLOSING"}
        BY <1>4 DEF RxPlain
      <4> QED
        BY <1>1, <1>2, <4>1, <4>2, <4>3 DEF CountInv
    <3> QED
      BY <3>1, <3>2
  <2>4. PeerInv'
    BY <1>1, <1>2, <1>4 DEF PeerInv, RxPlain
  <2> QED
    BY <1>3, <2>2, <2>3, <2>4 DEF StreamInv
<1>5. CASE SynTaken(m)
  <2> DEFINE p == Segment(SYN \cup ACK, sk.seq_num, m.seq + 1, 0, sk.sport)
             x == Entry(sk.seq_num, 0, p)
  <2>1. /\ sk.state = "LISTEN" /\ Sent({p})
        /\ sk' = Sock("SYN_RCVD", sk.sport, sk.seq_num + 1, m.seq + 1, sk.rx, Append(sk.tx, x))
    BY <1>5 DEF SynTaken
  <2>2. /\ p.data = 0 /\ p.port = sk.sport /\ p.flags = SYN \cup ACK /\ p.seq = sk.seq_num
        /\ x.pkt = p
    BY DEF Segment, Entry
  <2>3. p \in Segments /\ x \in TxEntries
    BY <1>2, PacketTyped DEF SYN, ACK
  <2> HIDE DEF p, x
  <2>4. /\ sk'.state = "SYN_RCVD" /\ sk'.sport = sk.sport /\ sk'.seq_num = sk.seq_num + 1
        /\ sk'.tx = Append(sk.tx, x)
    BY <2>1 DEF Sock
  <2>5. /\ sk.seq_num = 0 /\ ncall.connect = 0 /\ ncall.send = 0 /\ Base = 1
        /\ upc # "bind" /\ upc \notin {"connect", "connect_sleep"} /\ peer.state # "OPEN"
    BY <1>2, <2>1 DEF CountInv, Base, PlaceInv, StreamInv
  <2>6. ASSUME NEW q, NEW e, q = p, e = x
        PROVE  Numbered(q)' /\ EntryInv(e)'
    <3>1. q.data = 0 /\ q.port = sk'.sport /\ e.pkt = q /\ q.seq + 1 = Base' /\ "FIN" \notin q.flags
      BY <1>2, <2>2, <2>4, <2>5, <2>6 DEF SYN, ACK
    <3> QED
      BY <1>2, <3>1, EmptyNumbered
  <2>7. Range(sk'.tx) = Range(sk.tx) \cup {x}
    BY <2>3, <2>4, CountsTyped, AppendKeeps
  <2>8. \A e : Alike(e, e)
    BY DEF Alike
  <2>9. SentInv'
    BY <1>2, <2>1, <2>4, <2>6, <2>7, <2>8, SentKeeps DEF Sent, Ending
  <2>10. CountInv'
    BY <1>1, <1>2, <2>4, <2>5 DEF CountInv
  <2>11. PeerInv'
    BY <1>1, <1>2, <2>5 DEF PeerInv
  <2> QED
    BY <1>3, <2>9, <2>10, <2>11 DEF StreamInv
<1>6. ASSUME NEW tx, Acked(tx, sk.tx, m.ack), TakesFin(m, tx)
      PROVE  StreamInv'
  <2> DEFINE a == AckAfter(m) + 1
             p == Segment(ACK \cup FIN, sk.seq_num, a, 0, sk.sport)
             x == Entry(sk.seq_num, 0, p)
  <2>1. /\ sk.state = "ESTABLISHED" /\ Sent({p})
        /\ sk' = Sock("CLOSING", sk.sport, sk.seq_num, a, RxAfter(m), Append(tx, x))
    BY <1>6 DEF TakesFin
  <2>0. a \in Nat
    BY <1>1, AfterTyped DEF TypeInv
  <2> HIDE DEF a
  <2>2. /\ p.data = 0 /\ p.port = sk.sport /\ p.flags = ACK \cup FIN /\ p.seq = sk.seq_num
        /\ x.pkt = p
    BY DEF Segment, Entry
  <2>3. p \in Segments /\ x \in TxEntries
    BY <1>2, <2>0, PacketTyped DEF ACK, FIN
  <2> HIDE DEF p, x
  <2>4. /\ sk'.state = "CLOSING" /\ sk'.sport = sk.sport /\ sk'.seq_num = sk.seq_num
        /\ sk'.tx = Append(tx, x)
    BY <2>1 DEF Sock
  <2>5. sk.seq_num = Base + ncall.send /\ upc # "bind"
    BY <1>2, <2>1 DEF CountInv, PlaceInv
  <2>6. ASSUME NEW q, NEW e, q = p, e = x
        PROVE  Numbered(q)' /\ EntryInv(e)'
    <3>1. /\ q.data = 0 /\ q.port = sk'.sport /\ e.pkt = q /\ "SYN" \notin q.flags
          /\ q.seq = Base' + ncall'.send /\ sk'.state \in Ending
      BY <1>2, <2>2, <2>4, <2>5, <2>6 DEF ACK, FIN, Ending
    <3> QED
      BY <1>2, <3>1, EmptyNumbered
  <2>7. Range(sk'.tx) = Range(tx) \cup {x}
    BY <1>6, <2>3, <2>4, AppendKeeps DEF Acked
  <2>8. \A e \in Range(tx) : \E f \in Range(sk.tx) : Alike(e, f)
    BY <1>6 DEF Acked
  <2>9. SentInv'
    BY <1>2, <2>1, <2>4, <2>6, <2>7, <2>8, SentKeeps DEF Sent, Ending
  <2>10. CountInv'
    BY <1>1, <1>2, <2>1, <2>4, <2>5 DEF CountInv
  <2>11. PeerInv'
    BY <1>1, <1>2, <2>1, <2>4 DEF PeerInv, Ending
  <2> QED
    BY <1>3, <2>9, <2>10, <2>11 DEF StreamInv
<1> QED
  BY <1>1, <1>4, <1>5, <1>6, RxViews

\* A step that leaves the packets, the numbers and what the peer has received.
LEMMA QuietStream ==
    ASSUME TypeInv, StreamInv, sk'.sport = sk.sport, sk'.seq_num = sk.seq_num,
           \A e \in Range(sk'.tx) : \E f \in Range(sk.tx) : Alike(e, f),
           sk.tx = << >> => sk'.tx = << >>,
           sk'.state \in {sk.state, "CLOSED"},
           \A m \in Range(toPeer') :
              m \in Range(toPeer) \/ (m \in TxPackets(sk.tx) /\ m.port = sk.sport),
           UNCHANGED <<peer, peergot>>,
           ncall'.connect = ncall.connect, ncall'.send = ncall.send,
           upc' \in {"connect", "connect_sleep"} => upc \in {"connect", "connect_sleep"},
           upc' = "connect_sleep" => upc = "connect_sleep" \/ ncall.connect > 0,
           upc' \in {"bind", "accept", "accept_sleep"} =>
             upc \in {"bind", "accept", "accept_sleep"},
           upc' = "bind" => upc = "bind",
           toPeer = << >> /\ sk.tx = << >> => toPeer' = << >>
    PROVE  StreamInv'
<1>1. SentInv'
  <2>1. sk.state \in Ending => sk'.state \in Ending
    BY DEF Ending
  <2>2. SentInv
    BY DEF StreamInv
  <2> QED
    BY <2>1, <2>2, SentKeeps
<1>2. CountInv'
  BY DEF StreamInv, CountInv, Base
<1>3. PeerInv' /\ PeerStreamInOrder'
  BY DEF StreamInv, PeerInv, PeerStreamInOrder, Base, Ending
<1> QED
  BY <1>1, <1>2, <1>3 DEF StreamInv

\* a new connection starts it again,
LEMMA ConnectStream ==
    ASSUME TypeInv, TypeInv', StreamInv, tcp_socket_connect, sk.state = "CLOSED"
    PROVE  StreamInv'
<1> DEFINE n == ncall.connect + 1
           p == Segment(SYN, sk.seq_num, sk.ack_num, 0, n)
           x == Entry(sk.seq_num, 0, p)
<1>1. /\ sk' = Sock("SYN_SENT", n, sk.seq_num + 1, sk.ack_num, sk.rx, Append(sk.tx, x))
      /\ toPeer' = <<p>>
  BY ConnectIs DEF Connects
<1>2. /\ ncall.connect \in Nat /\ ncall.send \in Nat /\ sk.seq_num \in Nat
      /\ sk.tx \in Seq(TxEntries) /\ peergot \in Seq(Nat) /\ sk.ack_num \in Nat /\ n \in Nat
  <2>1. sk \in Sockets
    BY DEF TypeInv
  <2>2. sk.ack_num \in Nat
    BY <2>1, SockFields
  <2> QED
    BY <2>2, CountsTyped
<1>3. /\ p.data = 0 /\ p.port = n /\ p.flags = SYN /\ p.seq = sk.seq_num /\ x.pkt = p
  BY DEF Segment, Entry
<1>4. p \in Segments /\ x \in TxEntries
  BY <1>2, PacketTyped DEF SYN
<1>5. /\ upc = "connect" /\ upc' = "connect_sleep" /\ peer' = PassivePeer
      /\ UNCHANGED peergot /\ Called("connect")
  BY DEF tcp_socket_connect, SleepIn
<1>6. ncall'.connect = n /\ ncall'.send = ncall.send
  BY <1>5 DEF Called, TypeInv, Calls
<1>7. sk.seq_num = ncall.connect /\ ncall.send = 0 /\ sk.sport = ncall.connect
  BY <1>5 DEF StreamInv, CountInv
<1>8. n = ncall.connect + 1 /\ n > 0
  BY <1>2
<1> HIDE DEF n, p, x
<1>9. /\ sk'.state = "SYN_SENT" /\ sk'.sport = n /\ sk'.seq_num = n
      /\ sk'.tx = Append(sk.tx, x)
  BY <1>1, <1>7, <1>8 DEF Sock
<1>10. Base' = n
  BY <1>6, <1>8, <1>2 DEF Base
<1>11. ASSUME NEW q, NEW e, q = p, e = x
       PROVE  Numbered(q)' /\ EntryInv(e)'
  <2>1. /\ q.data = 0 /\ q.port = sk'.sport /\ e.pkt = q /\ q.seq + 1 = Base'
        /\ "FIN" \notin q.flags
    BY <1>3, <1>7, <1>8, <1>9, <1>10, <1>11 DEF SYN
  <2> QED
    BY <1>2, <1>9, <2>1, EmptyNumbered
<1>12. Range(sk'.tx) = Range(sk.tx) \cup {x} /\ Range(toPeer') \subseteq {p}
  <2>1. Range(<<p>>) \subseteq {p}
    BY DEF Range
  <2>2. Range(Append(sk.tx, x)) = Range(sk.tx) \cup {x}
    BY <1>2, <1>4, AppendKeeps
  <2> QED
    BY <1>1, <1>9, <2>1, <2>2
<1>13. ASSUME NEW e \in Range(sk.tx)
       PROVE  EntryInv(e)'
  <2>1. EntryInv(e) /\ e \in TxEntries
    BY <1>2, RangeTyped DEF StreamInv, SentInv
  <2>2. e.pkt.port \in Nat /\ e.pkt.data \in Nat
    BY <2>1 DEF TxEntries, Segments
  <2>3. e.pkt.port <= ncall.connect /\ e.pkt.data = 0
    BY <1>2, <1>7, <2>1, <2>2 DEF EntryInv
  <2> HIDE DEF EntryInv
  <2>4. e.pkt.port < n
    BY <1>2, <1>8, <2>2, <2>3
  <2> QED
    BY <1>2, <1>9, <2>2, <2>3, <2>4 DEF EntryInv
<1>14. SentInv'
  BY <1>11, <1>12, <1>13 DEF SentInv
<1>15. CountInv'
  BY <1>2, <1>5, <1>6, <1>7, <1>8, <1>9, <1>10 DEF CountInv
<1>16. PeerInv' /\ PeerStreamInOrder'
  <2>1. Len(peergot) = 0 /\ peergot = << >>
    BY <1>2, <1>7 DEF StreamInv, PeerStreamInOrder
  <2>2. peer'.state = "LISTEN"
    BY <1>5 DEF PassivePeer
  <2> QED
    BY <1>2, <1>5, <1>6, <2>1, <2>2 DEF PeerInv, PeerStreamInOrder
<1> QED
  BY <1>14, <1>15, <1>16 DEF StreamInv

\* listening leaves it,
LEMMA BindStream ==
    ASSUME TypeInv, StreamInv, BindListen, sk.state = "CLOSED"
    PROVE  StreamInv'
<1>1. /\ upc = "bind" /\ upc' = "accept" /\ UNCHANGED <<ncall, toPeer, peer, peergot>>
      /\ sk' = [sk EXCEPT !.sport = 1, !.state = "LISTEN"]
  BY DEF BindListen, userlog, netvars, peervars
<1>2. sk'.state = "LISTEN" /\ sk'.tx = sk.tx /\ sk'.seq_num = sk.seq_num
  <2> DEFINE s == [sk EXCEPT !.sport = 1]
  <2>1. s \in Sockets /\ s.tx = sk.tx /\ s.seq_num = sk.seq_num
    BY DEF TypeInv, Sockets
  <2>2. sk' = [s EXCEPT !.state = "LISTEN"]
    BY <1>1
  <2> HIDE DEF s
  <2> QED
    BY <2>1, <2>2 DEF Sockets
<1>3. /\ upc = "bind" /\ upc' = "accept" /\ UNCHANGED <<ncall, toPeer, peer, peergot>>
  BY <1>1
<1>4. /\ sk.seq_num = 0 /\ sk.tx = << >> /\ toPeer = << >> /\ peer.state # "OPEN"
      /\ ncall.connect = 0 /\ ncall.send = 0
  BY <1>3 DEF StreamInv, CountInv
<1>5. SentInv'
  BY <1>2, <1>3, <1>4 DEF SentInv, Range
<1>6. CountInv'
  BY <1>2, <1>3, <1>4 DEF CountInv
<1>7. PeerInv' /\ PeerStreamInOrder'
  BY <1>3, <1>4 DEF StreamInv, PeerInv, PeerStreamInOrder
<1> QED
  BY <1>5, <1>6, <1>7 DEF StreamInv

\* the next piece of data takes the next number,
LEMMA SendStream ==
    ASSUME TypeInv, TypeInv', StreamInv, tcp_socket_send, sk.state = "ESTABLISHED",
           SendsData(ncall.send + 1), Called("send")
    PROVE  StreamInv'
<1> DEFINE d == ncall.send + 1
           p == Segment(ACK, sk.seq_num, sk.ack_num, d, sk.sport)
           x == Entry(sk.seq_num, 1, p)
<1>1. /\ sk' = Sock("ESTABLISHED", sk.sport, sk.seq_num + 1, sk.ack_num, sk.rx,
                    Append(sk.tx, x))
      /\ Sent({p})
  <2>1. d # 0
    BY CountsTyped
  <2> QED
    BY <2>1 DEF SendsData, Len1
<1>2. /\ ncall.connect \in Nat /\ ncall.send \in Nat /\ sk.seq_num \in Nat
      /\ sk.tx \in Seq(TxEntries) /\ peergot \in Seq(Nat) /\ sk.ack_num \in Nat
      /\ sk.sport \in Nat /\ Base \in Nat /\ peer.rcv \in Nat
  <2>1. sk \in Sockets
    BY DEF TypeInv
  <2>2. sk.ack_num \in Nat
    BY <2>1, SockFields
  <2> QED
    BY <2>2, CountsTyped
<1>3. d \in Nat /\ d = ncall.send + 1 /\ d # 0 /\ ncall.send <= d
  BY <1>2
<1>4. /\ p.data = d /\ p.port = sk.sport /\ p.flags = ACK /\ p.seq = sk.seq_num /\ x.pkt = p
      /\ x.wait_ack_num = sk.seq_num + 1
  BY DEF Segment, Entry
<1> HIDE DEF d
<1>5. p \in Segments /\ x \in TxEntries
  BY <1>2, <1>3, PacketTyped DEF ACK
<1>6. upc \in {"open", "refused"} /\ upc' = upc /\ UNCHANGED <<peer, peergot>> /\ Called("send")
  BY DEF tcp_socket_send, peervars
<1>7. ncall'.send = d /\ ncall'.connect = ncall.connect
  BY <1>3, <1>6 DEF Called, TypeInv, Calls
<1> HIDE DEF p, x
<1>8. /\ sk'.state = "ESTABLISHED" /\ sk'.sport = sk.sport /\ sk'.seq_num = sk.seq_num + 1
      /\ sk'.tx = Append(sk.tx, x)
  BY <1>1 DEF Sock
<1>9. Base' = Base /\ sk.seq_num = Base + ncall.send
  BY <1>7 DEF Base, StreamInv, CountInv
<1>10. ASSUME NEW q, q \in Segments, Numbered(q)
       PROVE  Numbered(q)'
  <2>1. q.data \in Nat /\ q.seq \in Nat
    BY <1>10, SegmentFields
  <2>2. q.data # 0 => q.flags = ACK /\ q.data <= d /\ q.seq + 1 = Base + q.data
    BY <1>2, <1>3, <1>10, <2>1 DEF Numbered
  <2>3. ("SYN" \in q.flags => q.seq + 1 = Base) /\ "FIN" \notin q.flags
    BY <1>10 DEF Numbered, Ending
  <2> QED
    BY <1>7, <1>9, <2>2, <2>3 DEF Numbered
<1>11. ASSUME NEW q, NEW e, q = p, e = x
       PROVE  Numbered(q)' /\ EntryInv(e)'
  <2>1. sk.seq_num + 1 = Base + d
    BY <1>2, <1>3, <1>9
  <2>2. d <= d
    BY <1>3
  <2>3. q.data = d /\ q.port = sk.sport /\ q.flags = ACK /\ q.seq = sk.seq_num
    BY <1>4, <1>11
  <2>4. Numbered(q)'
    BY <1>7, <1>9, <2>1, <2>2, <2>3 DEF Numbered, ACK
  <2>5. e.pkt = q /\ e.wait_ack_num = Base' + d /\ sk.sport <= sk.sport
    BY <1>2, <1>4, <1>9, <1>11, <2>1
  <2> QED
    BY <1>7, <1>8, <2>2, <2>3, <2>4, <2>5 DEF EntryInv
<1>12. ASSUME NEW e \in Range(sk.tx)
       PROVE  EntryInv(e)'
  <2>1. EntryInv(e) /\ e \in TxEntries
    BY <1>2, RangeTyped DEF StreamInv, SentInv
  <2>2. e.pkt \in Segments /\ e.pkt.data \in Nat
    BY <2>1 DEF TxEntries, Segments
  <2> DEFINE q == e.pkt
  <2>3. q.port = sk.sport => Numbered(q)
    BY <2>1 DEF EntryInv
  <2>4. q.port = sk'.sport => Numbered(q)'
    BY <1>8, <1>10, <2>2, <2>3
  <2>5. q.data # 0 => q.data <= ncall.send /\ e.wait_ack_num = Base + q.data
    BY <2>1 DEF EntryInv
  <2>6. q.data # 0 => q.data <= d
    BY <1>2, <1>3, <2>2, <2>5
  <2>7. q.port <= sk.sport
    BY <2>1 DEF EntryInv
  <2> QED
    BY <1>7, <1>8, <1>9, <2>4, <2>5, <2>6, <2>7 DEF EntryInv
<1>13. ASSUME NEW q \in TxPackets(sk.tx), q.port = sk.sport
       PROVE  Numbered(q) /\ q \in Segments
  <2>1. PICK i \in 1 .. Len(sk.tx) : q = sk.tx[i].pkt
    BY DEF TxPackets
  <2>2. sk.tx[i] \in Range(sk.tx) /\ sk.tx[i] \in TxEntries
    BY <1>2 DEF Range
  <2> QED
    BY <1>13, <2>1, <2>2 DEF StreamInv, SentInv, EntryInv, TxEntries
<1>14. \A q \in Range(toPeer) : q \in Segments /\ Numbered(q)
  BY RangeTyped DEF StreamInv, SentInv, TypeInv
<1>15. \A q \in Range(toPeer') : Numbered(q)'
  BY <1>1, <1>10, <1>11, <1>13, <1>14 DEF Sent
<1>16. Range(Append(sk.tx, x)) = Range(sk.tx) \cup {x}
  BY <1>2, <1>5, AppendKeeps
<1>17. SentInv'
  BY <1>8, <1>11, <1>12, <1>15, <1>16 DEF SentInv
<1>18. CountInv'
  BY <1>2, <1>3, <1>6, <1>7, <1>8, <1>9 DEF CountInv
<1>19. PeerInv' /\ PeerStreamInOrder'
  <2>1. PeerInv /\ PeerStreamInOrder /\ sk.state \notin Ending
    BY DEF StreamInv, Ending
  <2>2. peer.state = "OPEN" => peer.rcv = Base + Len(peergot)
    BY <2>1 DEF PeerInv
  <2>3. Len(peergot) <= d
    BY <1>2, <1>3, <2>1 DEF PeerStreamInOrder
  <2> QED
    BY <1>6, <1>7, <1>9, <2>1, <2>2, <2>3 DEF PeerInv, PeerStreamInOrder
<1> QED
  BY <1>17, <1>18, <1>19 DEF StreamInv

\* a send without data takes none,
LEMMA EmptyStream ==
    ASSUME TypeInv, TypeInv', StreamInv, tcp_socket_send, sk.state = "ESTABLISHED",
           SendsData(0), Called("empty")
    PROVE  StreamInv'
<1> DEFINE p == Segment(ACK, sk.seq_num, sk.ack_num, 0, sk.sport)
           x == Entry(sk.seq_num, 0, p)
<1>1. /\ sk.seq_num \in Nat /\ sk.tx \in Seq(TxEntries) /\ sk.ack_num \in Nat /\ sk.sport \in Nat
  BY SockFields DEF TypeInv
<1>2. /\ sk' = Sock("ESTABLISHED", sk.sport, sk.seq_num, sk.ack_num, sk.rx, Append(sk.tx, x))
      /\ Sent({p})
  <2>1. Len1(0) = 0 /\ sk.seq_num + 0 = sk.seq_num
    BY <1>1 DEF Len1
  <2> QED
    BY <2>1 DEF SendsData
<1>3. p.data = 0 /\ p.port = sk.sport /\ p.flags = ACK /\ x.pkt = p
  BY DEF Segment, Entry
<1>4. p \in Segments /\ x \in TxEntries
  BY <1>1, PacketTyped DEF ACK
<1>5. upc \in {"open", "refused"} /\ upc' = upc /\ UNCHANGED <<peer, peergot>>
  BY DEF tcp_socket_send, peervars
<1>6. ncall'.send = ncall.send /\ ncall'.connect = ncall.connect
  BY DEF Called, TypeInv, Calls
<1> HIDE DEF p, x
<1>7. /\ sk'.state = "ESTABLISHED" /\ sk'.sport = sk.sport /\ sk'.seq_num = sk.seq_num
      /\ sk'.tx = Append(sk.tx, x)
  BY <1>2 DEF Sock
<1>8. ASSUME NEW q, NEW e, q = p, e = x
      PROVE  Numbered(q)' /\ EntryInv(e)'
  <2>1. /\ q.data = 0 /\ q.port = sk'.sport /\ sk'.sport \in Nat /\ e.pkt = q
        /\ "SYN" \notin q.flags /\ "FIN" \notin q.flags
    BY <1>1, <1>3, <1>7, <1>8 DEF ACK
  <2> QED
    BY <2>1, EmptyNumbered
<1>9. Range(Append(sk.tx, x)) = Range(sk.tx) \cup {x}
  BY <1>1, <1>4, AppendKeeps
<1>10. SentInv'
  <2>1. \A e : Alike(e, e)
    BY DEF Alike
  <2>2. SentInv /\ (sk.state \in Ending => sk'.state \in Ending)
    BY DEF StreamInv, Ending
  <2>3. \A m \in Range(toPeer') :
          \/ m \in Range(toPeer) \/ (m \in TxPackets(sk.tx) /\ m.port = sk.sport)
          \/ Numbered(m)'
    BY <1>2, <1>8 DEF Sent
  <2>4. \A e \in Range(sk'.tx) : (\E f \in Range(sk.tx) : Alike(e, f)) \/ EntryInv(e)'
    BY <1>7, <1>8, <1>9, <2>1
  <2> QED
    BY <1>6, <1>7, <2>2, <2>3, <2>4, SentKeeps
<1>11. CountInv'
  BY <1>5, <1>6, <1>7 DEF StreamInv, CountInv, Base
<1>12. PeerInv' /\ PeerStreamInOrder'
  BY <1>5, <1>6, <1>7 DEF StreamInv, PeerInv, PeerStreamInOrder, Base, Ending
<1> QED
  BY <1>10, <1>11, <1>12 DEF StreamInv

\* the FIN takes the number behind the last byte.
LEMMA CloseStream ==
    ASSUME TypeInv, TypeInv', StreamInv, tcp_socket_close, sk.state = "ESTABLISHED"
    PROVE  StreamInv'
<1> DEFINE p == Segment(ACK \cup FIN, sk.seq_num, sk.ack_num, 0, sk.sport)
           x == Entry(sk.seq_num, 0, p)
<1>1. /\ sk' = Sock("FIN_WAIT_1", sk.sport, sk.seq_num + 1, sk.ack_num, sk.rx,
                    Append(sk.tx, x))
      /\ Sent({p})
  BY CloseIs DEF SendsFin
<1>2. /\ sk.seq_num \in Nat /\ sk.tx \in Seq(TxEntries) /\ sk.ack_num \in Nat /\ sk.sport \in Nat
  BY SockFields DEF TypeInv
<1>3. /\ p.data = 0 /\ p.port = sk.sport /\ p.flags = ACK \cup FIN /\ p.seq = sk.seq_num
      /\ x.pkt = p
  BY DEF Segment, Entry
<1>4. p \in Segments /\ x \in TxEntries
  BY <1>2, PacketTyped DEF ACK, FIN
<1>5. upc = "open" /\ upc' = "close_sleep" /\ UNCHANGED <<peer, peergot, ncall>>
  BY DEF tcp_socket_close, SleepIn, peervars, userlog
<1> HIDE DEF p, x
<1>6. /\ sk'.state = "FIN_WAIT_1" /\ sk'.sport = sk.sport /\ sk'.tx = Append(sk.tx, x)
  BY <1>1 DEF Sock
<1>7. Base' = Base /\ sk.seq_num = Base + ncall.send
  BY <1>5 DEF Base, StreamInv, CountInv
<1>8. ASSUME NEW q, NEW e, q = p, e = x
      PROVE  Numbered(q)' /\ EntryInv(e)'
  <2>1. /\ q.data = 0 /\ q.port = sk'.sport /\ sk'.sport \in Nat /\ e.pkt = q
        /\ "SYN" \notin q.flags
        /\ q.seq = Base' + ncall'.send /\ sk'.state \in Ending
    BY <1>2, <1>3, <1>5, <1>6, <1>7, <1>8 DEF ACK, FIN, Ending
  <2> QED
    BY <2>1, EmptyNumbered
<1>9. Range(Append(sk.tx, x)) = Range(sk.tx) \cup {x}
  BY <1>2, <1>4, AppendKeeps
<1>10. SentInv'
  <2>1. \A e : Alike(e, e)
    BY DEF Alike
  <2>2. SentInv /\ (sk.state \in Ending => sk'.state \in Ending)
    BY <1>6 DEF StreamInv, Ending
  <2>3. \A m \in Range(toPeer') :
          \/ m \in Range(toPeer) \/ (m \in TxPackets(sk.tx) /\ m.port = sk.sport)
          \/ Numbered(m)'
    BY <1>1, <1>8 DEF Sent
  <2>4. \A e \in Range(sk'.tx) : (\E f \in Range(sk.tx) : Alike(e, f)) \/ EntryInv(e)'
    BY <1>6, <1>8, <1>9, <2>1
  <2>5. ncall'.connect = ncall.connect /\ ncall'.send = ncall.send
    BY <1>5
  <2> QED
    BY <1>6, <2>2, <2>3, <2>4, <2>5, SentKeeps
<1>11. CountInv'
  BY <1>5, <1>6 DEF CountInv
<1>12. PeerInv' /\ PeerStreamInOrder'
  BY <1>5, <1>6, <1>7 DEF StreamInv, PeerInv, PeerStreamInOrder, Ending
<1> QED
  BY <1>10, <1>11, <1>12 DEF StreamInv

\* The peer takes the byte that comes next, the FIN after the last one, or
\* neither.
LEMMA PeerRxStream ==
    ASSUME TypeInv, TypeInv', WireInv, StreamInv, PeerRx
    PROVE  StreamInv'
<1>1. PICK m \in Range(toPeer) :
        /\ m \in Segments /\ (Opens(m) \/ Advances(m))
        /\ toPeer' \in Seq(Segments) /\ Range(toPeer') \subseteq Range(toPeer)
        /\ UNCHANGED <<sk, upc, woken, timers, userlog, panicked>>
  BY PeerRxIs
<1>2. /\ Numbered(m) /\ m.data \in Nat /\ m.seq \in Nat /\ toPeer # << >>
      /\ PeerInv /\ PeerStreamInOrder /\ CountInv
  BY <1>1, SegmentFields DEF StreamInv, SentInv, Range
<1>3. /\ Base \in Nat /\ ncall.send \in Nat /\ peergot \in Seq(Nat) /\ peer.rcv \in Nat
      /\ Base' = Base /\ ncall' = ncall
  BY <1>1, CountsTyped DEF userlog, Base
<1>4. SentInv'
  <2>1. Base' = Base /\ ncall' = ncall /\ sk' = sk
    BY <1>1, <1>3
  <2> QED
    BY <1>1, <2>1 DEF StreamInv, SentInv, EntryInv, Numbered
<1>5. CountInv'
  BY <1>1, <1>2, <1>3 DEF CountInv
<1>6. CASE Opens(m)
  <2>1. /\ "SYN" \in m.flags /\ peer.state # "OPEN" /\ peergot' = peergot
        /\ \E una : peer' = PeerOf("OPEN", peer.sent, peer.fin, una, m.seq + 1)
    BY <1>6 DEF Opens
  <2>2. peer'.rcv = m.seq + 1
    BY <2>1 DEF PeerOf
  <2>3. peergot = << >> /\ m.seq + 1 = Base
    BY <1>2, <2>1 DEF PeerInv, Numbered
  <2> QED
    BY <1>2, <1>3, <1>4, <1>5, <2>1, <2>2, <2>3 DEF StreamInv, PeerInv, PeerStreamInOrder
<1>7. CASE Advances(m)
  <2> DEFINE r == IF InOrder(m) THEN peer.rcv + 1 ELSE peer.rcv
             n == Len(peergot)
  <2>1. /\ peer.state = "OPEN"
        /\ \E una : peer' = PeerOf("OPEN", peer.sent, peer.fin, una, r)
        /\ peergot' = IF InOrder(m) /\ m.data # 0 THEN Append(peergot, m.data) ELSE peergot
    BY <1>7 DEF Advances
  <2>2. peer'.rcv = r /\ peer'.state = "OPEN"
    BY <2>1 DEF PeerOf
  <2>3. n \in Nat /\ n <= ncall.send
    BY <1>2, <1>3 DEF PeerStreamInOrder
  <2>4. \/ peer.rcv = Base + n
        \/ peer.rcv = Base + ncall.send + 1 /\ n = ncall.send /\ sk.state \in Ending
    BY <1>2, <2>1 DEF PeerInv
  <2>5. CASE ~InOrder(m)
    <3>1. peer'.rcv = peer.rcv /\ peergot' = peergot
      BY <2>1, <2>2, <2>5
    <3>2. PeerInv'
      BY <1>1, <1>3, <2>2, <2>4, <3>1 DEF PeerInv
    <3>3. PeerStreamInOrder'
      BY <1>2, <1>3, <3>1 DEF PeerStreamInOrder
    <3> QED
      BY <1>4, <1>5, <3>2, <3>3 DEF StreamInv
  <2>6. CASE InOrder(m) /\ m.data # 0
    <3>1. m.seq = peer.rcv /\ m.seq + 1 = Base + m.data /\ m.data <= ncall.send
      BY <1>2, <2>6 DEF InOrder, Numbered
    <3>2. peer.rcv = Base + n /\ m.data = n + 1
      <4>1. peer.rcv + 1 = Base + m.data /\ m.data <= ncall.send
        BY <3>1
      <4>2. peer.rcv # Base + ncall.send + 1
        BY <1>2, <1>3, <4>1
      <4>3. peer.rcv = Base + n
        BY <2>4, <4>2
      <4> QED
        BY <1>2, <1>3, <2>3, <4>1, <4>3
    <3>3. peer'.rcv = Base + (n + 1)
      BY <1>3, <2>2, <2>3, <2>6, <3>2
    <3>4. peergot' = Append(peergot, n + 1)
      BY <2>1, <2>6, <3>2
    <3>5. /\ Len(Append(peergot, n + 1)) = n + 1
          /\ \A i \in 1 .. n : Append(peergot, n + 1)[i] = peergot[i]
          /\ Append(peergot, n + 1)[n + 1] = n + 1
      BY <1>3, <2>3
    <3>6. \A i \in 1 .. n : peergot[i] = i
      BY <1>2 DEF PeerStreamInOrder
    <3> HIDE DEF n
    <3>7. PeerStreamInOrder'
      <4>1. n + 1 <= ncall.send
        BY <3>1, <3>2
      <4>2. \A i \in 1 .. n + 1 : Append(peergot, n + 1)[i] = i
        BY <2>3, <3>5, <3>6
      <4> QED
        BY <1>3, <3>4, <3>5, <4>1, <4>2 DEF PeerStreamInOrder
    <3>8. PeerInv'
      BY <1>3, <2>2, <3>3, <3>4, <3>5 DEF PeerInv
    <3> QED
      BY <1>4, <1>5, <3>7, <3>8 DEF StreamInv
  <2>7. CASE InOrder(m) /\ m.data = 0
    <3>1. m.seq = peer.rcv /\ m.seq = Base + ncall.send /\ sk.state \in Ending
      BY <1>2, <2>7 DEF InOrder, Numbered
    <3>2. n = ncall.send /\ peer'.rcv = Base + ncall.send + 1 /\ peergot' = peergot
      BY <1>2, <1>3, <2>1, <2>2, <2>3, <2>4, <2>7, <3>1
    <3>3. PeerInv'
      BY <1>1, <1>3, <2>2, <3>1, <3>2 DEF PeerInv
    <3>4. PeerStreamInOrder'
      BY <1>2, <1>3, <3>2 DEF PeerStreamInOrder
    <3> QED
      BY <1>4, <1>5, <3>3, <3>4 DEF StreamInv
  <2> QED
    BY <2>5, <2>6, <2>7
<1> QED
  BY <1>1, <1>6, <1>7

\* The calls of the program keep the numbering,
LEMMA UserStream ==
    ASSUME TypeInv, TypeInv', ControlInv, StreamInv, ClientStep \/ ServerStep \/ TalkStep
    PROVE  StreamInv'
<1>1. /\ \A e : Alike(e, e)
      /\ ncall.connect \in Nat /\ StreamInv /\ CountInv /\ PlaceInv /\ sk \in Sockets
      /\ ncall \in Calls
  BY CountsTyped DEF Alike, StreamInv, ControlInv, TypeInv
<1>2. CASE Panic
  <2>1. UNCHANGED <<sk, upc, ncall, toPeer, peer, peergot>>
    BY <1>2 DEF Panic, userlog, netvars, peervars
  <2> QED
    BY <1>1, <2>1, QuietStream
<1>3. CASE tcp_socket_connect
  BY <1>2, <1>3, ConnectStream DEF tcp_socket_connect
<1>4. CASE ConnectReturn
  <2>1. /\ UNCHANGED <<sk, ncall, toPeer, peer, peergot>>
        /\ upc = "connect_sleep" /\ upc' \in {"open", "connect", "done", "refused"}
    BY <1>4 DEF ConnectReturn, userlog, netvars, peervars
  <2>2. ncall'.connect = ncall.connect /\ ncall'.send = ncall.send /\ ncall.connect > 0
    BY <1>1, <2>1 DEF CountInv
  <2> QED
    BY <1>1, <2>1, <2>2, QuietStream
<1>5. CASE BindListen
  BY <1>2, <1>5, BindStream DEF BindListen
<1>6. CASE tcp_socket_accept \/ AcceptReturn
  <2>1. \/ Panic
        \/ /\ UNCHANGED <<sk, ncall, toPeer, peer, peergot>>
           /\ \/ upc = "accept" /\ upc' = "accept_sleep"
              \/ upc = "accept_sleep" /\ upc' = "open"
    BY <1>6 DEF tcp_socket_accept, SleepIn, AcceptReturn, userlog, netvars, peervars
  <2> QED
    BY <1>1, <1>2, <2>1, QuietStream
<1>7. CASE tcp_socket_send
  <2>1. CASE sk.state # "ESTABLISHED"
    BY <1>2, <1>7, <2>1 DEF tcp_socket_send
  <2>2. CASE sk.state = "ESTABLISHED"
    BY <1>7, <2>2, SendIs, SendStream, EmptyStream
  <2> QED
    BY <2>1, <2>2
<1>8. CASE RecvNow \/ RecvReturn
  <2>1. /\ PopRx /\ upc' = "open" /\ UNCHANGED <<ncall, toPeer, peer, peergot>>
    BY <1>8 DEF RecvNow, RecvReturn, userlog, netvars, peervars
  <2>2. /\ sk'.sport = sk.sport /\ sk'.seq_num = sk.seq_num /\ sk'.tx = sk.tx
        /\ sk'.state = sk.state
    BY <2>1, PopRxIs DEF Sock
  <2> QED
    BY <1>1, <2>1, <2>2, QuietStream
<1>9. CASE RecvSleep
  <2>1. /\ upc' = "recv_sleep" /\ UNCHANGED <<toPeer, peer, peergot>> /\ Called("recv")
    BY <1>9 DEF RecvSleep, SleepIn, netvars, peervars
  <2>2. /\ sk'.sport = sk.sport /\ sk'.seq_num = sk.seq_num /\ sk'.tx = sk.tx
        /\ sk'.state = sk.state
    BY <1>1, <1>9 DEF RecvSleep, Sockets
  <2>3. ncall'.connect = ncall.connect /\ ncall'.send = ncall.send
    BY <1>1, <2>1 DEF Called, Calls
  <2> QED
    BY <1>1, <2>1, <2>2, <2>3, QuietStream
<1>10. CASE tcp_socket_close /\ sk.state = "ESTABLISHED"
  BY <1>10, CloseStream
<1>11. CASE (tcp_socket_close /\ sk.state # "ESTABLISHED") \/ CloseReturn
  <2>1. \/ Panic
        \/ /\ UNCHANGED <<sk, ncall, toPeer, peer, peergot>>
           /\ upc' \in {"done", "close_sleep"}
    BY <1>11 DEF tcp_socket_close, SleepIn, CloseReturn, userlog, netvars, peervars
  <2> QED
    BY <1>1, <1>2, <2>1, QuietStream
<1> QED
  BY <1>3, <1>4, <1>5, <1>6, <1>7, <1>8, <1>9, <1>10, <1>11
     DEF ClientStep, ServerStep, TalkStep

\* and every step does.
LEMMA StreamStep ==
    ASSUME TypeInv, TypeInv', WireInv, ControlInv, StreamInv, [TcpNext]_vars
    PROVE  StreamInv'
<1>1. /\ \A e : Alike(e, e)
      /\ toPeer \in Seq(Segments) /\ sk \in Sockets /\ sk' \in Sockets
      /\ PlaceInv /\ CountInv
  BY DEF Alike, TypeInv, ControlInv, StreamInv
<1>2. CASE TcpRx
  BY <1>1, <1>2, RxStream
<1>3. CASE tcp_connect_timeout
  <2>1. /\ UNCHANGED <<upc, ncall, toPeer, peer, peergot>>
        /\ sk' = sk \/ sk' = Sock("CLOSED", sk.sport, sk.seq_num, sk.ack_num, sk.rx, sk.tx)
    BY <1>3, ConnectTimeoutIs DEF userlog, netvars, peervars
  <2>2. /\ sk'.sport = sk.sport /\ sk'.seq_num = sk.seq_num /\ sk'.tx = sk.tx
        /\ sk'.state \in {sk.state, "CLOSED"}
    BY <2>1 DEF Sock
  <2> QED
    BY <1>1, <2>1, <2>2, QuietStream
<1>4. ASSUME NEW n \in ackt, tcp_ack_timeout(n)
      PROVE  StreamInv'
  <2>1. UNCHANGED <<upc, ncall, peer, peergot>>
    BY <1>4 DEF tcp_ack_timeout, userlog, peervars
  <2>2. UNCHANGED sk /\ (Sent({}) \/ UNCHANGED toPeer)
    BY <1>4, AckTimeoutIs
  <2>3. \A m \in Range(toPeer') :
          m \in Range(toPeer) \/ (m \in TxPackets(sk.tx) /\ m.port = sk.sport)
    BY <2>2 DEF Sent
  <2>4. toPeer = << >> /\ sk.tx = << >> => toPeer' = << >>
    <3> SUFFICES ASSUME toPeer = << >>, sk.tx = << >>
                 PROVE  toPeer' = << >>
      OBVIOUS
    <3>1. Waiting(n) = {}
      BY DEF Waiting, Range
    <3> QED
      BY <1>4, <3>1 DEF tcp_ack_timeout
  <2> QED
    BY <1>1, <2>1, <2>2, <2>3, <2>4, QuietStream
<1>5. ASSUME NEW w \in recvt, tcp_socket_recv_timeout(w)
      PROVE  StreamInv'
  <2>1. UNCHANGED <<sk, upc, ncall, toPeer, peer, peergot>>
    BY <1>5 DEF tcp_socket_recv_timeout, userlog, netvars, peervars
  <2> QED
    BY <1>1, <2>1, QuietStream
<1>6. CASE RecvTimeoutWake
  <2>1. UNCHANGED <<sk, upc, ncall, toPeer, peer, peergot>>
    BY <1>6 DEF RecvTimeoutWake, userlog, netvars, peervars
  <2> QED
    BY <1>1, <2>1, QuietStream
<1>7. CASE PeerRx
  BY <1>7, PeerRxStream
<1>8. CASE PeerConnect \/ PeerSend \/ PeerFin \/ PeerRetransmit
  <2>1. PeerMoves
    BY <1>8, PeerMovesIs
  <2>2. /\ UNCHANGED <<sk, upc, ncall, toPeer, peergot>>
        /\ peer'.rcv = peer.rcv
        /\ peer'.state = peer.state \/ (peer.state = "IDLE" /\ peer'.state = "SYN_SENT")
    BY <2>1 DEF PeerMoves, userlog
  <2>3. SentInv' /\ PeerStreamInOrder'
    BY <2>2 DEF StreamInv, SentInv, EntryInv, Numbered, Base, PeerStreamInOrder
  <2>4. CountInv' /\ PeerInv'
    BY <2>2 DEF StreamInv, CountInv, PeerInv, Base
  <2> QED
    BY <2>3, <2>4 DEF StreamInv
<1>9. CASE Lose
  <2>1. /\ toPeer' \in Seq(Segments) /\ Range(toPeer') \subseteq Range(toPeer)
        /\ UNCHANGED <<sk, upc, ncall, peer, peergot>>
    BY <1>9, LoseIs DEF userlog, peervars
  <2>2. toPeer = << >> => toPeer' = << >>
    <3> SUFFICES ASSUME toPeer = << >>
                 PROVE  toPeer' = << >>
      OBVIOUS
    <3>1. Range(toPeer') = {}
      BY <2>1 DEF Range
    <3>2. Len(toPeer') = 0 \/ 1 \in DOMAIN toPeer'
      BY <2>1
    <3> QED
      BY <2>1, <3>1, <3>2 DEF Range
  <2> QED
    BY <1>1, <2>1, <2>2, QuietStream
<1>10. CASE UNCHANGED vars
  <2>1. UNCHANGED <<sk, upc, ncall, toPeer, peer, peergot>>
    BY <1>10 DEF vars
  <2> QED
    BY <1>1, <2>1, QuietStream
<1> QED
  BY <1>2, <1>3, <1>4, <1>5, <1>6, <1>7, <1>8, <1>9, <1>10, UserStream
     DEF TcpNext, WorkStep, PeerStep

\* The numbering of what we send and of what the peer has received.
LEMMA StreamHolds == TcpSpec => []StreamInv
<1>1. TcpInit => StreamInv
  <2> SUFFICES ASSUME TcpInit
               PROVE  StreamInv
    OBVIOUS
  <2>1. /\ sk.state = "CLOSED" /\ sk.seq_num = 0 /\ sk.tx = << >> /\ sk.sport = 0
        /\ upc \in {"connect", "bind"} /\ ncall.connect = 0 /\ ncall.send = 0
        /\ toPeer = << >> /\ peergot = << >> /\ peer.state # "OPEN"
    <3>1. PassivePeer.state = "LISTEN" /\ ActivePeer.state = "IDLE"
      BY DEF PassivePeer, ActivePeer
    <3> QED
      BY <3>1 DEF TcpInit, NewSocket
  <2>2. SentInv /\ PeerStreamInOrder
    BY <2>1 DEF SentInv, PeerStreamInOrder, Range
  <2>3. CountInv /\ PeerInv
    BY <2>1 DEF CountInv, PeerInv
  <2> QED
    BY <2>2, <2>3 DEF StreamInv
<1>2. TypeInv /\ TypeInv' /\ WireInv /\ ControlInv /\ StreamInv /\ [TcpNext]_vars => StreamInv'
  BY StreamStep
<1> QED
  BY WellTyped, ControlHolds, <1>1, <1>2, PTL DEF TcpSpec

\* The peer receives the data of tcp_socket_send in order, without a gap and
\* each once: tcp_send numbers them from where the SYNs have left seq_num, what
\* tcp_ack_timeout and handle_ack send again keeps its number, and no FIN of
\* tcp_socket_close or tcp_recv_pkt overtakes them.
THEOREM PeerReceivesInOrder == TcpSpec => []PeerStreamInOrder
  BY StreamHolds, PTL DEF StreamInv

-----------------------------------------------------------------------------
(* What the peer has not received is kept.                                 *)

Open == {"ESTABLISHED", "FIN_WAIT_1", "CLOSING"}

\* A step after which what was held still is, or has been received.
LEMMA HeldKept ==
    ASSUME UnackedKept, sk'.state \in Open => sk.state \in Open \/ ncall'.send = 0,
           ncall'.send = ncall.send, Range(peergot) \subseteq Range(peergot'),
           sk.state \in Open /\ sk'.state \in Open =>
             \A e \in Range(sk.tx) :
                e.send_seq_num \in ackt /\ e.pkt.data \in 1 .. ncall.send =>
                  \/ e.pkt.data \in Range(peergot')
                  \/ \E f \in Range(sk'.tx) : f.pkt = e.pkt /\ f.send_seq_num \in ackt'
    PROVE  UnackedKept'
<1> SUFFICES ASSUME sk'.state \in Open, NEW d \in 1 .. ncall'.send
             PROVE  \/ d \in Range(peergot')
                    \/ \E e \in Range(sk'.tx) : e.pkt.data = d /\ e.send_seq_num \in ackt'
  BY DEF UnackedKept, Open
<1>1. sk.state \in Open /\ d \in 1 .. ncall.send
  BY DEF Open
<1>2. CASE d \in Range(peergot)
  BY <1>2
<1>3. CASE d \notin Range(peergot)
  <2>1. PICK e \in Range(sk.tx) : e.pkt.data = d /\ e.send_seq_num \in ackt
    BY <1>1, <1>3 DEF UnackedKept, Open
  <2> QED
    BY <1>1, <2>1
<1> QED
  BY <1>2, <1>3

\* What the peer acknowledges it has received.
LEMMA AckedReceived ==
    ASSUME TypeInv, StreamInv, NEW m \in Segments, Proper(m, peer), WireInv,
           NEW e \in Range(sk.tx), ~(e.wait_ack_num > m.ack), e.pkt.data \in 1 .. ncall.send
    PROVE  e.pkt.data \in Range(peergot)
<1> DEFINE d == e.pkt.data
           n == Len(peergot)
<1>1. /\ ncall.send \in Nat /\ Base \in Nat /\ Base > 0 /\ peer.rcv \in Nat
      /\ peergot \in Seq(Nat) /\ n \in Nat /\ m.ack \in Nat
  BY CountsTyped, SegmentFields
<1>2. e.wait_ack_num = Base + d /\ d \in 1 .. ncall.send
  BY <1>1 DEF StreamInv, SentInv, EntryInv
<1>3. m.ack <= peer.rcv
  BY DEF Proper
<1> HIDE DEF d
<1>4. Base + d <= peer.rcv
  BY <1>1, <1>2, <1>3
<1>5. peer.state = "OPEN"
  BY <1>1, <1>2, <1>4 DEF WireInv
<1>6. d \in 1 .. n
  BY <1>1, <1>2, <1>4, <1>5 DEF StreamInv, PeerInv
<1>7. peergot[d] = d
  BY <1>6 DEF StreamInv, PeerStreamInOrder
<1> QED
  BY <1>1, <1>6, <1>7 DEF Range, d

\* An acknowledgement frees only bytes the peer has received.
LEMMA RxHeld ==
    ASSUME TypeInv, WireInv, StreamInv, UnackedKept, TcpRx
    PROVE  UnackedKept'
<1>1. PICK m \in Range(toUs) :
        /\ m \in Segments /\ RxCase(m)
        /\ UNCHANGED <<upc, connt, recvt, matched, ncall, read, eof, panicked, peer, peergot>>
  BY TcpRxIs
<1>2. Proper(m, peer) /\ CountInv /\ ncall' = ncall /\ peergot' = peergot
  BY <1>1 DEF WireInv, StreamInv
<1>3. ASSUME NEW tx,
             \A f \in Range(sk.tx) : f.wait_ack_num > m.ack => \E e \in Range(tx) : Alike(e, f),
             Range(tx) \subseteq Range(sk'.tx), ackt \subseteq ackt',
             sk'.state \in Open => sk.state \in Open \/ ncall.send = 0
      PROVE  UnackedKept'
  <2>1. ASSUME NEW f \in Range(sk.tx), f.send_seq_num \in ackt, f.pkt.data \in 1 .. ncall.send
        PROVE  \/ f.pkt.data \in Range(peergot')
               \/ \E e \in Range(sk'.tx) : e.pkt = f.pkt /\ e.send_seq_num \in ackt'
    <3>1. CASE f.wait_ack_num > m.ack
      BY <1>3, <2>1, <3>1 DEF Alike
    <3>2. CASE ~(f.wait_ack_num > m.ack)
      BY <1>1, <1>2, <2>1, <3>2, AckedReceived
    <3> QED
      BY <3>1, <3>2
  <2> QED
    BY <1>2, <1>3, <2>1, HeldKept
<1>4. CASE RxPlain(m)
  <2>1. sk'.state \in Open => sk.state \in Open \/ ncall.send = 0
    BY <1>2, <1>4 DEF RxPlain, CountInv, Open
  <2> QED
    BY <1>3, <1>4, <2>1 DEF RxPlain
<1>5. CASE SynTaken(m)
  <2>1. sk'.state = "SYN_RCVD"
    BY <1>5 DEF SynTaken, Sock
  <2> QED
    BY <2>1 DEF UnackedKept
<1>6. ASSUME NEW tx, Acked(tx, sk.tx, m.ack), TakesFin(m, tx)
      PROVE  UnackedKept'
  <2> DEFINE x == Entry(sk.seq_num, 0,
                        Segment(ACK \cup FIN, sk.seq_num, AckAfter(m) + 1, 0, sk.sport))
  <2>1. /\ sk.state = "ESTABLISHED" /\ ackt' = ackt \cup {sk.seq_num}
        /\ sk' = Sock("CLOSING", sk.sport, sk.seq_num, AckAfter(m) + 1, RxAfter(m),
                      Append(tx, x))
    BY <1>6 DEF TakesFin
  <2>2. x \in TxEntries /\ tx \in Seq(TxEntries)
    <3>1. AckAfter(m) + 1 \in Nat /\ sk.seq_num \in Nat /\ sk.sport \in Nat
      <4>1. AckAfter(m) \in Nat
        BY <1>1, AfterTyped DEF TypeInv
      <4> QED
        BY <4>1, CountsTyped
    <3> QED
      BY <1>6, <3>1, PacketTyped DEF ACK, FIN, Acked
  <2> HIDE DEF x
  <2>3. sk'.tx = Append(tx, x) /\ sk.state \in Open
    BY <2>1 DEF Sock, Open
  <2>4. Range(tx) \subseteq Range(sk'.tx)
    BY <2>2, <2>3, AppendKeeps
  <2> QED
    BY <1>3, <1>6, <2>1, <2>3, <2>4 DEF Acked
<1> QED
  BY <1>1, <1>4, <1>5, <1>6, RxViews

\* A step that adds an entry, and one that changes nothing of the matter.
LEMMA JoinHeld ==
    ASSUME TypeInv, UnackedKept, NEW x \in TxEntries, sk'.tx = Append(sk.tx, x),
           ackt \subseteq ackt', x.send_seq_num \in ackt', sk.state \in Open,
           UNCHANGED peergot,
           ncall'.send = ncall.send
             \/ (ncall'.send = ncall.send + 1 /\ x.pkt.data = ncall.send + 1)
    PROVE  UnackedKept'
<1>1. Range(sk'.tx) = Range(sk.tx) \cup {x} /\ ncall.send \in Nat
  BY CountsTyped, AppendKeeps
<1> SUFFICES ASSUME NEW d \in 1 .. ncall'.send
             PROVE  \/ d \in Range(peergot')
                    \/ \E e \in Range(sk'.tx) : e.pkt.data = d /\ e.send_seq_num \in ackt'
  BY DEF UnackedKept
<1>2. CASE d \in 1 .. ncall.send
  BY <1>1, <1>2 DEF UnackedKept, Open
<1>3. CASE d \notin 1 .. ncall.send
  <2>1. x.pkt.data = d
    BY <1>1, <1>3
  <2> QED
    BY <1>1, <2>1
<1> QED
  BY <1>2, <1>3

\* A step that leaves tx_data_list alone frees nothing.
LEMMA QuietHeld ==
    ASSUME UnackedKept, sk'.tx = sk.tx, UNCHANGED ackt, ncall'.send = ncall.send,
           Range(peergot) \subseteq Range(peergot'),
           sk'.state \in Open => sk.state \in Open
    PROVE  UnackedKept'
  BY HeldKept

\* The calls of the program keep what the peer has not received.
LEMMA UserHeld ==
    ASSUME TypeInv, UnackedKept, ClientStep \/ ServerStep \/ TalkStep
    PROVE  UnackedKept'
<1>1. sk \in Sockets /\ ncall \in Calls /\ ncall.send \in Nat
  BY CountsTyped DEF TypeInv
<1>2. CASE Panic
  <2>1. UNCHANGED <<sk, ackt, ncall, peergot>>
    BY <1>2 DEF Panic, timers, userlog, peervars
  <2> QED
    BY <2>1, QuietHeld
<1>3. CASE tcp_socket_connect
  <2>1. CASE sk.state = "CLOSED"
    <3>1. sk'.state = "SYN_SENT"
      BY <1>3, <2>1, ConnectIs DEF Connects, Sock
    <3> QED
      BY <3>1 DEF UnackedKept
  <2> QED
    BY <1>2, <1>3, <2>1 DEF tcp_socket_connect
<1>4. CASE BindListen
  <2>1. CASE ~Panic
    <3>1. sk' = [sk EXCEPT !.sport = 1, !.state = "LISTEN"]
      BY <1>4, <2>1 DEF BindListen
    <3>2. sk'.state = "LISTEN"
      <4> DEFINE s == [sk EXCEPT !.sport = 1]
      <4>1. s \in Sockets
        BY <1>1 DEF Sockets
      <4>2. sk' = [s EXCEPT !.state = "LISTEN"]
        BY <3>1
      <4> HIDE DEF s
      <4> QED
        BY <4>1, <4>2 DEF Sockets
    <3> QED
      BY <3>2 DEF UnackedKept
  <2> QED
    BY <1>2, <2>1
<1>5. CASE ConnectReturn \/ tcp_socket_accept \/ AcceptReturn \/ CloseReturn
  <2>1. Panic \/ UNCHANGED <<sk, ackt, ncall, peergot>>
    BY <1>5 DEF ConnectReturn, tcp_socket_accept, AcceptReturn, CloseReturn, timers, userlog,
                peervars
  <2> QED
    BY <1>2, <2>1, QuietHeld
<1>6. ASSUME sk.state = "ESTABLISHED", NEW d \in Nat, SendsData(d), UNCHANGED peergot,
             ncall'.send = ncall.send \/ (ncall'.send = ncall.send + 1 /\ d = ncall.send + 1)
      PROVE  UnackedKept'
  <2> DEFINE l == Len1(d)
             p == Segment(ACK, sk.seq_num, sk.ack_num, d, sk.sport)
             x == Entry(sk.seq_num, l, p)
  <2>1. /\ sk' = Sock("ESTABLISHED", sk.sport, sk.seq_num + l, sk.ack_num, sk.rx,
                      Append(sk.tx, x))
        /\ ackt' = ackt \cup {sk.seq_num}
    BY <1>6 DEF SendsData
  <2>2. x.send_seq_num = sk.seq_num /\ x.pkt.data = d
    BY DEF Entry, Segment
  <2>3. x \in TxEntries
    <3>1. /\ sk.seq_num \in Nat /\ sk.ack_num \in Nat /\ sk.sport \in Nat /\ l \in Nat
          /\ ACK \in SUBSET {"SYN", "ACK", "FIN"}
      BY <1>1, SockFields DEF ACK, Len1
    <3> HIDE DEF l
    <3> QED
      BY <1>6, <3>1, PacketTyped
  <2> HIDE DEF x, p, l
  <2>4. sk'.tx = Append(sk.tx, x) /\ sk.state \in Open
    BY <1>6, <2>1 DEF Sock, Open
  <2> QED
    BY <1>6, <2>1, <2>2, <2>3, <2>4, JoinHeld
<1>7. CASE tcp_socket_send
  <2>1. CASE sk.state = "ESTABLISHED"
    <3>1. UNCHANGED peergot
      BY <1>7, <2>1 DEF tcp_socket_send, peervars
    <3>2. /\ Called("send") => ncall'.send = ncall.send + 1
          /\ Called("empty") => ncall'.send = ncall.send
      BY <1>1 DEF Called, Calls
    <3>3. 0 \in Nat /\ ncall.send + 1 \in Nat
      BY <1>1
    <3> QED
      BY <1>6, <1>7, <2>1, <3>1, <3>2, <3>3, SendIs
  <2>2. CASE sk.state # "ESTABLISHED"
    BY <1>2, <1>7, <2>2 DEF tcp_socket_send
  <2> QED
    BY <2>1, <2>2
<1>8. CASE RecvNow \/ RecvReturn
  <2>1. PopRx /\ UNCHANGED <<ackt, ncall, peergot>>
    BY <1>8 DEF RecvNow, RecvReturn, timers, peervars
  <2>2. sk'.state = sk.state /\ sk'.tx = sk.tx
    BY <2>1, PopRxIs DEF Sock
  <2> QED
    BY <2>1, <2>2, QuietHeld
<1>9. CASE RecvSleep
  <2>1. UNCHANGED <<ackt, peergot>> /\ Called("recv")
    BY <1>9 DEF RecvSleep, peervars
  <2>2. sk'.state = sk.state /\ sk'.tx = sk.tx
    BY <1>1, <1>9 DEF RecvSleep, Sockets
  <2>3. ncall'.send = ncall.send
    BY <1>1, <2>1 DEF Called, Calls
  <2> QED
    BY <2>1, <2>2, <2>3, QuietHeld
<1>10. CASE tcp_socket_close
  <2>1. CASE sk.state = "ESTABLISHED"
    <3> DEFINE p == Segment(ACK \cup FIN, sk.seq_num, sk.ack_num, 0, sk.sport)
               x == Entry(sk.seq_num, 0, p)
    <3>1. /\ sk' = Sock("FIN_WAIT_1", sk.sport, sk.seq_num + 1, sk.ack_num, sk.rx,
                        Append(sk.tx, x))
          /\ ackt' = ackt \cup {sk.seq_num}
      BY <1>10, <2>1, CloseIs DEF SendsFin
    <3>2. UNCHANGED <<peergot, ncall>>
      BY <1>10, <2>1 DEF tcp_socket_close, peervars, userlog
    <3>3. x.send_seq_num = sk.seq_num
      BY DEF Entry
    <3>4. x \in TxEntries
      BY <1>1, SockFields, PacketTyped DEF ACK, FIN
    <3> HIDE DEF x, p
    <3>5. sk'.tx = Append(sk.tx, x) /\ sk.state \in Open
      BY <2>1, <3>1 DEF Sock, Open
    <3> QED
      BY <3>1, <3>2, <3>3, <3>4, <3>5, JoinHeld
  <2>2. CASE sk.state # "ESTABLISHED"
    <3>1. Panic \/ UNCHANGED <<sk, ackt, ncall, peergot>>
      BY <1>10, <2>2 DEF tcp_socket_close, timers, userlog, peervars
    <3> QED
      BY <1>2, <3>1, QuietHeld
  <2> QED
    BY <2>1, <2>2
<1> QED
  BY <1>3, <1>4, <1>5, <1>7, <1>8, <1>9, <1>10 DEF ClientStep, ServerStep, TalkStep

\* So does every step.
LEMMA HeldStep ==
    ASSUME TypeInv, TypeInv', WireInv, StreamInv, UnackedKept, [TcpNext]_vars
    PROVE  UnackedKept'
<1>1. CASE tcp_connect_timeout
  <2>1. /\ UNCHANGED <<ackt, ncall, peergot>>
        /\ sk' = sk \/ sk' = Sock("CLOSED", sk.sport, sk.seq_num, sk.ack_num, sk.rx, sk.tx)
    BY <1>1, ConnectTimeoutIs DEF userlog, peervars
  <2>2. sk'.tx = sk.tx /\ sk'.state \in {sk.state, "CLOSED"}
    BY <2>1 DEF Sock
  <2> QED
    BY <2>1, <2>2, QuietHeld DEF Open
<1>2. ASSUME NEW n \in ackt, tcp_ack_timeout(n)
      PROVE  UnackedKept'
  <2>1. UNCHANGED <<ncall, peergot>>
    BY <1>2 DEF tcp_ack_timeout, userlog, peervars
  <2>2. /\ UNCHANGED sk
        /\ ackt' = ackt \/ (/\ ackt' = ackt \ {n}
                            /\ \/ sk.state = "CLOSED"
                               \/ \A e \in Range(sk.tx) : e.send_seq_num # n)
    BY <1>2, AckTimeoutIs
  <2> QED
    BY <2>1, <2>2, HeldKept DEF Open
<1>3. ASSUME NEW w \in recvt, tcp_socket_recv_timeout(w)
      PROVE  UnackedKept'
  <2>1. UNCHANGED <<sk, ackt, ncall, peergot>>
    BY <1>3 DEF tcp_socket_recv_timeout, userlog, peervars
  <2> QED
    BY <2>1, QuietHeld
<1>4. CASE RecvTimeoutWake
  <2>1. UNCHANGED <<sk, ackt, ncall, peergot>>
    BY <1>4 DEF RecvTimeoutWake, userlog, peervars
  <2> QED
    BY <2>1, QuietHeld
<1>5. CASE PeerRx
  <2>1. PICK m \in Range(toPeer) :
          /\ m \in Segments /\ (Opens(m) \/ Advances(m))
          /\ UNCHANGED <<sk, upc, woken, timers, userlog, panicked>>
    BY <1>5, PeerRxIs
  <2>2. peergot' = peergot \/ peergot' = Append(peergot, m.data)
    BY <2>1 DEF Opens, Advances
  <2>3. Range(peergot) \subseteq Range(peergot')
    <3>1. peergot \in Seq(Nat) /\ m.data \in Nat
      BY <2>1, CountsTyped, SegmentFields
    <3>2. Range(Append(peergot, m.data)) = Range(peergot) \cup {m.data}
      BY <3>1, AppendKeeps
    <3> QED
      BY <2>2, <3>2
  <2> QED
    BY <2>1, <2>3, QuietHeld DEF timers, userlog
<1>6. CASE PeerConnect \/ PeerSend \/ PeerFin \/ PeerRetransmit \/ Lose \/ UNCHANGED vars
  <2>1. UNCHANGED <<sk, ackt, ncall, peergot>>
    BY <1>6 DEF PeerConnect, PeerSend, PeerFin, PeerRetransmit, Lose, vars, timers, userlog,
                peervars
  <2> QED
    BY <2>1, QuietHeld
<1> QED
  BY <1>1, <1>2, <1>3, <1>4, <1>5, <1>6, RxHeld, UserHeld DEF TcpNext, WorkStep, PeerStep

\* As long as the connection lasts, data of tcp_socket_send that the peer has
\* not received is in tx_data_list and tcp_ack_timeout is armed for it: handle_ack
\* drops an entry for an ack only the receiver of its data sends, and a timer
\* ends only when its packet is gone or the socket is closed.
THEOREM UnackedIsKept == TcpSpec => []UnackedKept
<1>1. TcpInit => UnackedKept
  BY DEF TcpInit, NewSocket, UnackedKept
<1>2. TypeInv /\ TypeInv' /\ WireInv /\ StreamInv /\ UnackedKept /\ [TcpNext]_vars
        => UnackedKept'
  BY HeldStep
<1> QED
  BY WellTyped, StreamHolds, <1>1, <1>2, PTL DEF TcpSpec

-----------------------------------------------------------------------------
(* The bytes we receive.                                                   *)

TakenInv == RecvInv /\ OrderInv

\* The segments the program has taken.
LEMMA TakenIs ==
    ASSUME TypeInv
    PROVE  Taken \in Seq(Nat) /\ Len(Taken) = Len(read)
<1>1. read \in Seq(Reads)
  BY DEF TypeInv
<1>2. \A i \in 1 .. Len(read) : read[i].data \in Nat
  BY <1>1 DEF Reads
<1>3. Len(read) \in Nat
  BY <1>1
<1> DEFINE n == Len(read)
           f == [i \in 1 .. n |-> read[i].data]
<1>4. f \in [1 .. n -> Nat]
  BY <1>2
<1> HIDE DEF n
<1>5. f \in Seq(Nat) /\ Len(f) = n
  BY <1>3, <1>4 DEF n
<1> QED
  BY <1>5 DEF Taken, n

\* The program has not taken more,
LEMMA TakenSame ==
    ASSUME read' = read
    PROVE  Taken' = Taken
  BY DEF Taken

\* or one segment more.
LEMMA TakenMore ==
    ASSUME TypeInv, NEW x \in Reads, read' = Append(read, x)
    PROVE  Taken' = Append(Taken, x.data)
<1> DEFINE n == Len(read)
           f == [i \in 1 .. n |-> read[i].data]
           g == [i \in 1 .. n + 1 |-> Append(read, x)[i].data]
<1>1. read \in Seq(Reads)
  BY DEF TypeInv
<1>2. /\ n \in Nat /\ Len(Append(read, x)) = n + 1
      /\ \A i \in 1 .. n : Append(read, x)[i] = read[i]
      /\ Append(read, x)[n + 1] = x
  BY <1>1
<1>3. Taken = f /\ Taken' = g
  BY <1>2 DEF Taken
<1>4. x.data \in Nat /\ \A i \in 1 .. n : read[i].data \in Nat
  BY <1>1 DEF Reads
<1>5. \A i \in 1 .. n : g[i] = f[i]
  BY <1>2
<1>6. g[n + 1] = x.data
  BY <1>2
<1>7. f \in Seq(Nat) /\ Len(f) = n
  BY <1>3, TakenIs
<1>8. g \in Seq(Nat) /\ Len(g) = n + 1
  <2>1. \A i \in 1 .. n + 1 : g[i] \in Nat
    <3> TAKE i \in 1 .. n + 1
    <3>1. i \in 1 .. n \/ i = n + 1
      BY <1>2
    <3> QED
      BY <1>4, <1>5, <1>6, <3>1
  <2>2. g \in [1 .. n + 1 -> Nat]
    BY <2>1
  <2> HIDE DEF g, n
  <2> QED
    BY <1>2, <2>2
<1> HIDE DEF f, g, n
<1>9. g = Append(f, x.data)
  <2> DEFINE h == Append(f, x.data)
  <2>1. /\ h \in Seq(Nat) /\ Len(h) = n + 1 /\ h[n + 1] = x.data
        /\ \A i \in 1 .. n : h[i] = f[i]
    BY <1>2, <1>4, <1>7
  <2> HIDE DEF h
  <2>2. \A i \in 1 .. n + 1 : g[i] = h[i]
    <3> TAKE i \in 1 .. n + 1
    <3>1. i \in 1 .. n \/ i = n + 1
      BY <1>2
    <3> QED
      BY <1>5, <1>6, <2>1, <3>1
  <2>3. DOMAIN g = DOMAIN h /\ DOMAIN g = 1 .. n + 1
    BY <1>8, <2>1
  <2>4. g = h
    BY <1>8, <2>1, <2>2
  <2> QED
    BY <2>4 DEF h
<1> QED
  BY <1>3, <1>9

\* What a segment does to the state, ack_num and the data.
Gets(m) ==
    \/ sk'.state \in {sk.state, "CLOSED"} /\ sk'.rx = sk.rx /\ sk'.ack_num = sk.ack_num
    \/ sk'.state = "CLOSED" /\ sk'.rx = sk.rx
    \/ sk.state = "LISTEN" \/ sk.state = "SYN_RCVD"
    \/ /\ sk.state = "SYN_SENT" /\ sk'.state = "ESTABLISHED" /\ "SYN" \in m.flags
       /\ sk'.rx = sk.rx /\ sk'.ack_num = m.seq + 1
    \/ /\ sk.state = "ESTABLISHED" /\ Expected(m) /\ sk'.rx = RxAfter(m)
       /\ \/ sk'.state = "ESTABLISHED" /\ sk'.ack_num = AckAfter(m)
          \/ sk'.state = "CLOSING"

\* What a segment adds to what has been received.
LEMMA RxGets ==
    ASSUME TypeInv, NEW m \in Segments, RxCase(m)
    PROVE  Gets(m)
<1>1. CASE Ignored \/ Repeats
  BY <1>1 DEF Ignored, Repeats, Gets
<1>2. CASE SynTaken(m)
  BY <1>2 DEF SynTaken, Gets
<1>3. CASE LastAck
  BY <1>3 DEF LastAck, Sock, Gets
<1>4. ASSUME NEW tx, HandshakeEnds(m, tx) \/ SynAnswered(m, tx)
      PROVE  Gets(m)
  BY <1>4 DEF HandshakeEnds, SynAnswered, Sock, Gets
<1>5. ASSUME NEW tx, FinWaits(m, tx) \/ FinAnswered(m, tx)
      PROVE  Gets(m)
  BY <1>5 DEF FinWaits, FinAnswered, Sock, Gets
<1>6. ASSUME NEW tx, Takes(m, tx) \/ TakesFin(m, tx)
      PROVE  Gets(m)
  BY <1>6 DEF Takes, TakesFin, Sock, Gets
<1> QED
  BY <1>1, <1>2, <1>3, <1>4, <1>5, <1>6 DEF RxCase

\* What the program has read with what waits in rx_data_list.
LEMMA ReceivedIs ==
    ASSUME NEW r \in Seq(Nat), NEW q \in Seq(Nat)
    PROVE  /\ r \o q \in Seq(Nat) /\ Len(r \o q) = Len(r) + Len(q)
           /\ Len(r) \in Nat /\ Len(q) \in Nat
  OBVIOUS

\* One more at the end of what has been received.
LEMMA ReceivedJoins ==
    ASSUME NEW r \in Seq(Nat), NEW q \in Seq(Nat), NEW x \in Nat, NEW n \in Nat,
           Len(r \o q) = n, \A i \in 1 .. n : (r \o q)[i] = i, x = n + 1
    PROVE  /\ Len(r \o Append(q, x)) = n + 1
           /\ \A i \in 1 .. n + 1 : (r \o Append(q, x))[i] = i
<1>1. r \o Append(q, x) = Append(r \o q, x)
  <2>1. r \o q \in Seq(Nat) /\ <<x>> \in Seq(Nat)
    OBVIOUS
  <2>2. Append(q, x) = q \o <<x>> /\ Append(r \o q, x) = (r \o q) \o <<x>>
    BY <2>1, AppendIsConcat
  <2>3. (r \o q) \o <<x>> = r \o (q \o <<x>>)
    BY <2>1, ConcatAssociative
  <2> QED
    BY <2>2, <2>3
<1> DEFINE s == r \o q
<1>2. s \in Seq(Nat)
  OBVIOUS
<1> HIDE DEF s
<1>3. /\ Len(Append(s, x)) = Len(s) + 1
      /\ \A i \in 1 .. Len(s) : Append(s, x)[i] = s[i]
      /\ Append(s, x)[Len(s) + 1] = x
  BY <1>2
<1>4. Len(s) = n /\ \A i \in 1 .. n : s[i] = i
  BY DEF s
<1>5. \A i \in 1 .. n + 1 : Append(s, x)[i] = i
  BY <1>3, <1>4
<1> QED
  BY <1>1, <1>3, <1>4, <1>5 DEF s

\* The first packet goes from rx_data_list to the program.
LEMMA ReceivedMoves ==
    ASSUME NEW r \in Seq(Nat), NEW q \in Seq(Nat), q # << >>
    PROVE  /\ Append(r, Head(q)) \o Tail(q) = r \o q
           /\ Len(Append(r, Head(q))) + Len(Tail(q)) = Len(r) + Len(q)
<1> DEFINE h == Head(q)
           u == Tail(q)
<1>1. h \in Nat /\ u \in Seq(Nat) /\ Len(u) = Len(q) - 1 /\ q = <<h>> \o u
  OBVIOUS
<1> HIDE DEF h, u
<1>2. <<h>> \in Seq(Nat) /\ Len(r) \in Nat /\ Len(q) \in Nat
  BY <1>1
<1>3. Append(r, h) = r \o <<h>> /\ Len(Append(r, h)) = Len(r) + 1
  BY <1>1, AppendIsConcat, AppendProperties
<1>4. (r \o <<h>>) \o u = r \o (<<h>> \o u)
  BY <1>1, <1>2, ConcatAssociative
<1>5. Append(r, h) \o u = r \o q
  BY <1>1, <1>3, <1>4, Zenon
<1>6. Len(Append(r, h)) + Len(u) = Len(r) + Len(q)
  BY <1>1, <1>2, <1>3
<1> QED
  BY <1>5, <1>6 DEF h, u

\* A step that leaves the data, and the state or closes it.
LEMMA QuietTaken ==
    ASSUME TypeInv, TakenInv, ncall'.connect = ncall.connect,
           Received' = Received, Len(Taken') + Len(sk'.rx) = Len(Taken) + Len(sk.rx),
           Taken = << >> /\ sk.rx = << >> => Taken' = << >> /\ sk'.rx = << >>,
           \/ sk'.state = sk.state /\ sk'.ack_num = sk.ack_num
           \/ sk'.state \notin {"LISTEN", "SYN_RCVD", "SYN_SENT", "ESTABLISHED"},
           peer.sent <= peer'.sent, peer'.sent \in Nat,
           ncall.connect = 0 /\ upc' = "connect" => upc = "connect"
    PROVE  TakenInv'
<1>1. /\ Received \in Seq(Nat) /\ Len(Received) \in Nat /\ peer.sent \in Nat
  <2>1. Taken \in Seq(Nat) /\ sk.rx \in Seq(Nat) /\ peer.sent \in Nat
    BY TakenIs, SockFields, PeerFields DEF TypeInv
  <2> QED
    BY <2>1, ReceivedIs DEF Received
<1>2. OrderInv'
  BY <1>1 DEF TakenInv, OrderInv
<1>3. RecvInv'
  BY DEF TakenInv, RecvInv
<1> QED
  BY <1>2, <1>3 DEF TakenInv

\* A received segment keeps the order of the bytes.
LEMMA RxTaken ==
    ASSUME TypeInv, WireInv, PlaceInv, TakenInv, TcpRx
    PROVE  TakenInv'
<1>1. PICK m \in Range(toUs) :
        /\ m \in Segments /\ RxCase(m)
        /\ UNCHANGED <<upc, connt, recvt, matched, ncall, read, eof, panicked, peer, peergot>>
  BY TcpRxIs
<1>2. Gets(m) /\ Proper(m, peer)
  BY <1>1, RxGets DEF WireInv
<1>3. /\ Taken \in Seq(Nat) /\ sk.rx \in Seq(Nat) /\ peer.sent \in Nat /\ sk.ack_num \in Nat
      /\ m.data \in Nat /\ m.seq \in Nat
      /\ ncall' = ncall /\ Taken' = Taken /\ peer' = peer /\ upc' = upc
  BY <1>1, TakenIs, TakenSame, SockFields, PeerFields, SegmentFields DEF TypeInv
<1>4. CASE /\ sk'.rx = sk.rx
           /\ \/ sk'.state \in {sk.state, "CLOSED"} /\ sk'.ack_num = sk.ack_num
              \/ sk'.state = "CLOSED"
  <2>1. Received' = Received /\ Len(sk'.rx) = Len(sk.rx) /\ peer.sent <= peer'.sent
    BY <1>3, <1>4 DEF Received
  <2> QED
    BY <1>3, <1>4, <2>1, QuietTaken
<1>5. CASE sk.state \in {"LISTEN", "SYN_RCVD"}
  <2>1. ncall.connect # 1 /\ upc # "connect"
    BY <1>5 DEF TakenInv, RecvInv, PlaceInv
  <2> QED
    BY <1>3, <2>1 DEF TakenInv, RecvInv, OrderInv
<1>6. CASE /\ sk.state = "SYN_SENT" /\ sk'.state = "ESTABLISHED" /\ "SYN" \in m.flags
           /\ sk'.rx = sk.rx /\ sk'.ack_num = m.seq + 1
  <2>1. m.seq = 0 /\ upc # "connect"
    BY <1>2, <1>6 DEF Proper, PlaceInv
  <2>2. ncall.connect = 1 => Taken = << >> /\ sk.rx = << >>
    BY <1>6 DEF TakenInv, RecvInv
  <2>3. ncall.connect = 1 => sk'.ack_num = Len(Taken') + Len(sk'.rx) + 1
    BY <1>3, <1>6, <2>1, <2>2
  <2>4. RecvInv'
    BY <1>3, <1>6, <2>1, <2>3 DEF RecvInv
  <2>5. OrderInv'
    BY <1>3, <1>6 DEF TakenInv, OrderInv, Received
  <2> QED
    BY <2>4, <2>5 DEF TakenInv
<1>7. CASE /\ sk.state = "ESTABLISHED" /\ Expected(m) /\ sk'.rx = RxAfter(m)
           /\ \/ sk'.state = "ESTABLISHED" /\ sk'.ack_num = AckAfter(m)
              \/ sk'.state = "CLOSING"
  <2>1. upc # "connect" /\ (ncall.connect = 1 => sk.ack_num = Len(Taken) + Len(sk.rx) + 1)
    BY <1>7 DEF PlaceInv, TakenInv, RecvInv
  <2>2. CASE m.data = 0
    <3>1. sk'.rx = sk.rx /\ (sk'.state = "ESTABLISHED" => sk'.ack_num = sk.ack_num)
      BY <1>7, <2>2 DEF RxAfter, AckAfter
    <3>2. RecvInv'
      BY <1>3, <1>7, <2>1, <3>1 DEF RecvInv
    <3>3. OrderInv'
      BY <1>3, <3>1 DEF TakenInv, OrderInv, Received
    <3> QED
      BY <3>2, <3>3 DEF TakenInv
  <2>3. CASE m.data # 0 /\ ncall.connect # 1
    BY <1>3, <2>1, <2>3 DEF TakenInv, RecvInv, OrderInv
  <2>4. CASE m.data # 0 /\ ncall.connect = 1
    <3> DEFINE n == Len(Taken \o sk.rx)
               x == m.data
    <3>1. /\ n \in Nat /\ n = Len(Taken) + Len(sk.rx) /\ n <= peer.sent
          /\ \A i \in 1 .. n : (Taken \o sk.rx)[i] = i
          /\ Len(sk.rx) \in Nat /\ Len(Taken) \in Nat
      BY <1>3, <2>4, ReceivedIs DEF TakenInv, OrderInv, Received
    <3>2. m.seq = sk.ack_num /\ x = m.seq /\ x <= peer.sent
      BY <1>2, <1>7, <2>4 DEF Expected, Proper
    <3>3. x = n + 1
      BY <2>1, <2>4, <3>1, <3>2
    <3>4. sk'.rx = Append(sk.rx, x) /\ (sk'.state = "ESTABLISHED" => sk'.ack_num = m.seq + 1)
      BY <1>7, <2>4 DEF RxAfter, AckAfter
    <3>5. Len(Append(sk.rx, x)) = Len(sk.rx) + 1
      BY <1>3
    <3> HIDE DEF n, x
    <3>6. RecvInv'
      <4>1. sk'.state = "ESTABLISHED" => sk'.ack_num = Len(Taken') + Len(sk'.rx) + 1
        BY <1>3, <3>1, <3>2, <3>3, <3>4, <3>5
      <4> QED
        BY <1>3, <1>7, <2>1, <4>1 DEF RecvInv
    <3>7. /\ Len(Taken \o Append(sk.rx, x)) = n + 1
          /\ \A i \in 1 .. n + 1 : (Taken \o Append(sk.rx, x))[i] = i
      <4>1. x \in Nat /\ n = Len(Taken \o sk.rx)
        BY <1>3 DEF x, n
      <4> QED
        BY <1>3, <3>1, <3>3, <4>1, ReceivedJoins
    <3>8. Received' = Taken \o Append(sk.rx, x)
      BY <1>3, <3>4 DEF Received
    <3>9. OrderInv'
      BY <1>3, <3>2, <3>3, <3>7, <3>8 DEF OrderInv
    <3> QED
      BY <3>6, <3>9 DEF TakenInv
  <2> QED
    BY <2>2, <2>3, <2>4
<1> QED
  BY <1>2, <1>4, <1>5, <1>6, <1>7 DEF Gets

\* tcp_socket_recv moves a segment from rx_data_list to the program.
LEMMA PopTaken ==
    ASSUME TypeInv, PopRx
    PROVE  /\ Received' = Received /\ Len(Taken') + Len(sk'.rx) = Len(Taken) + Len(sk.rx)
           /\ Taken = << >> /\ sk.rx = << >> => Taken' = << >> /\ sk'.rx = << >>
           /\ sk'.state = sk.state /\ sk'.ack_num = sk.ack_num
<1>1. Taken \in Seq(Nat) /\ sk.rx \in Seq(Nat)
  BY TakenIs, SockFields DEF TypeInv
<1>2. CASE sk.rx = << >>
  <2>1. UNCHANGED <<sk, Taken>>
    BY <1>2, PopRxIs, TakenSame
  <2> QED
    BY <2>1 DEF Received
<1>3. CASE sk.rx # << >>
  <2>1. /\ sk'.rx = Tail(sk.rx) /\ sk'.state = sk.state /\ sk'.ack_num = sk.ack_num
        /\ Taken' = Append(Taken, Head(sk.rx))
    <3>1. /\ sk' = Sock(sk.state, sk.sport, sk.seq_num, sk.ack_num, Tail(sk.rx), sk.tx)
          /\ Taken' = Append(Taken, Head(sk.rx))
      BY <1>3, PopRxIs, TakenMore
    <3>2. sk'.rx = Tail(sk.rx) /\ sk'.state = sk.state /\ sk'.ack_num = sk.ack_num
      BY <3>1 DEF Sock
    <3> QED
      BY <3>1, <3>2
  <2>2. /\ Append(Taken, Head(sk.rx)) \o Tail(sk.rx) = Taken \o sk.rx
        /\ Len(Append(Taken, Head(sk.rx))) + Len(Tail(sk.rx)) = Len(Taken) + Len(sk.rx)
    BY <1>1, <1>3, ReceivedMoves
  <2> QED
    BY <1>3, <2>1, <2>2 DEF Received
<1> QED
  BY <1>2, <1>3

\* The calls of the program keep the order.
LEMMA UserTaken ==
    ASSUME TypeInv, TypeInv', CountInv, PlaceInv, TakenInv, ClientStep \/ ServerStep \/ TalkStep
    PROVE  TakenInv'
<1>1. /\ sk \in Sockets /\ ncall \in Calls /\ ncall.connect \in Nat /\ peer.sent \in Nat
  BY CountsTyped, PeerFields DEF TypeInv
<1>2. ASSUME sk'.rx = sk.rx, read' = read
      PROVE  /\ Received' = Received /\ Len(Taken') + Len(sk'.rx) = Len(Taken) + Len(sk.rx)
             /\ Taken = << >> /\ sk.rx = << >> => Taken' = << >> /\ sk'.rx = << >>
  BY <1>2, TakenSame DEF Received
<1>3. ASSUME sk'.rx = sk.rx, UNCHANGED <<read, peer>>, ncall'.connect = ncall.connect,
             \/ sk'.state = sk.state /\ sk'.ack_num = sk.ack_num
             \/ sk'.state \notin {"LISTEN", "SYN_RCVD", "SYN_SENT", "ESTABLISHED"},
             ncall.connect = 0 /\ upc' = "connect" => upc = "connect"
      PROVE  TakenInv'
  <2>1. peer.sent <= peer'.sent /\ peer'.sent \in Nat
    BY <1>1, <1>3
  <2> QED
    BY <1>2, <1>3, <2>1, QuietTaken
<1>4. CASE Panic
  BY <1>3, <1>4 DEF Panic, userlog, peervars
<1>5. CASE tcp_socket_connect /\ sk.state = "CLOSED"
  <2>1. /\ upc = "connect" /\ upc' = "connect_sleep" /\ Called("connect") /\ Taken' = Taken
        /\ peer' = PassivePeer
    BY <1>5, TakenSame DEF tcp_socket_connect, SleepIn
  <2>2. sk'.state = "SYN_SENT" /\ sk'.rx = sk.rx
    BY <1>5, ConnectIs DEF Connects, Sock
  <2>3. ncall'.connect = ncall.connect + 1
    BY <1>1, <2>1 DEF Called, Calls
  <2>4. ncall'.connect = 1 => Taken = << >> /\ sk.rx = << >>
    BY <1>1, <2>1, <2>3 DEF TakenInv, RecvInv
  <2>5. RecvInv'
    BY <2>1, <2>2, <2>4 DEF RecvInv
  <2>6. OrderInv'
    <3>1. peer'.sent = 0
      BY <2>1 DEF PassivePeer
    <3>2. ncall'.connect = 1 => Received' = << >>
      BY <2>1, <2>2, <2>4 DEF Received
    <3> QED
      BY <3>1, <3>2 DEF OrderInv
  <2> QED
    BY <2>5, <2>6 DEF TakenInv
<1>6. CASE BindListen /\ ~Panic
  <2>1. /\ upc = "bind" /\ upc' = "accept" /\ UNCHANGED <<ncall, read, peer>>
        /\ sk' = [sk EXCEPT !.sport = 1, !.state = "LISTEN"]
    BY <1>6 DEF BindListen, userlog, peervars
  <2>2. ncall'.connect = 0 /\ upc' # "connect"
    BY <2>1 DEF CountInv
  <2> QED
    BY <2>2 DEF TakenInv, RecvInv, OrderInv
<1>7. CASE ConnectReturn
  <2>1. /\ UNCHANGED <<sk, ncall, read, peer>> /\ upc = "connect_sleep"
    BY <1>7 DEF ConnectReturn, userlog, peervars
  <2>2. ncall.connect > 0
    BY <2>1 DEF CountInv
  <2> QED
    BY <1>1, <1>3, <2>1, <2>2
<1>8. CASE /\ tcp_socket_accept \/ AcceptReturn \/ CloseReturn
           /\ ~Panic
  <2>1. UNCHANGED <<sk, ncall, read, peer>> /\ upc' \in {"accept_sleep", "open", "done"}
    BY <1>8 DEF tcp_socket_accept, AcceptReturn, CloseReturn, SleepIn, userlog, peervars
  <2> QED
    BY <1>3, <2>1
<1>9. CASE tcp_socket_send /\ sk.state = "ESTABLISHED"
  <2>1. UNCHANGED <<upc, read, peer>> /\ (Called("send") \/ Called("empty"))
    BY <1>9 DEF tcp_socket_send, peervars
  <2>2. sk'.rx = sk.rx /\ sk'.state = sk.state /\ sk'.ack_num = sk.ack_num
    BY <1>9, SendIs DEF SendsData, Sock
  <2>3. ncall'.connect = ncall.connect
    BY <1>1, <2>1 DEF Called, Calls
  <2> QED
    BY <1>3, <2>1, <2>2, <2>3
<1>10. CASE RecvNow \/ RecvReturn
  <2>1. PopRx /\ upc' = "open" /\ UNCHANGED <<ncall, peer>>
    BY <1>10 DEF RecvNow, RecvReturn, peervars
  <2>2. peer.sent <= peer'.sent /\ peer'.sent \in Nat /\ ncall'.connect = ncall.connect
    BY <1>1, <2>1
  <2> QED
    BY <2>1, <2>2, PopTaken, QuietTaken
<1>11. CASE RecvSleep
  <2>1. UNCHANGED <<read, peer>> /\ Called("recv") /\ upc' = "recv_sleep"
    BY <1>11 DEF RecvSleep, SleepIn, peervars
  <2>2. sk'.rx = sk.rx /\ sk'.state = sk.state /\ sk'.ack_num = sk.ack_num
    BY <1>1, <1>11 DEF RecvSleep, Sockets
  <2>3. ncall'.connect = ncall.connect
    BY <1>1, <2>1 DEF Called, Calls
  <2> QED
    BY <1>3, <2>1, <2>2, <2>3
<1>12. CASE tcp_socket_close /\ sk.state = "ESTABLISHED"
  <2>1. UNCHANGED <<read, peer, ncall>> /\ upc' = "close_sleep"
    BY <1>12 DEF tcp_socket_close, SleepIn, userlog, peervars
  <2>2. sk'.rx = sk.rx /\ sk'.state = "FIN_WAIT_1"
    BY <1>12, CloseIs DEF SendsFin, Sock
  <2> QED
    BY <1>3, <2>1, <2>2
<1>13. CASE tcp_socket_close /\ sk.state # "ESTABLISHED" /\ ~Panic
  <2>1. UNCHANGED <<sk, ncall, read, peer>> /\ upc' \in {"close_sleep", "done"}
    BY <1>13 DEF tcp_socket_close, SleepIn, userlog, peervars
  <2> QED
    BY <1>3, <2>1
<1>14. CASE \/ tcp_socket_send /\ sk.state # "ESTABLISHED"
            \/ tcp_socket_connect /\ sk.state # "CLOSED"
  <2>1. Panic
    BY <1>14 DEF tcp_socket_send, tcp_socket_connect
  <2> QED
    BY <1>4, <2>1
<1> QED
  BY <1>4, <1>5, <1>6, <1>7, <1>8, <1>9, <1>10, <1>11, <1>12, <1>13, <1>14
     DEF ClientStep, ServerStep, TalkStep

\* Every step keeps it.
LEMMA TakenStep ==
    ASSUME TypeInv, TypeInv', WireInv, CountInv, PlaceInv, TakenInv, [TcpNext]_vars
    PROVE  TakenInv'
<1>1. peer.sent \in Nat /\ peer'.sent \in Nat
  BY PeerFields DEF TypeInv, Peers
<1>2. ASSUME sk'.rx = sk.rx, UNCHANGED <<upc, ncall, read>>, peer.sent <= peer'.sent,
             \/ sk'.state = sk.state /\ sk'.ack_num = sk.ack_num
             \/ sk'.state = "CLOSED"
      PROVE  TakenInv'
  <2>1. Taken' = Taken
    BY <1>2, TakenSame
  <2>2. Received' = Received /\ Len(Taken') + Len(sk'.rx) = Len(Taken) + Len(sk.rx)
    BY <1>2, <2>1 DEF Received
  <2> QED
    BY <1>1, <1>2, <2>1, <2>2, QuietTaken
<1>3. CASE tcp_connect_timeout
  <2>1. /\ UNCHANGED <<upc, ncall, read, peer>>
        /\ sk' = sk \/ sk' = Sock("CLOSED", sk.sport, sk.seq_num, sk.ack_num, sk.rx, sk.tx)
    BY <1>3, ConnectTimeoutIs DEF userlog, peervars
  <2>2. /\ sk'.rx = sk.rx
        /\ \/ sk'.state = "CLOSED"
           \/ sk'.state = sk.state /\ sk'.ack_num = sk.ack_num
    BY <2>1 DEF Sock
  <2> QED
    BY <1>1, <1>2, <2>1, <2>2
<1>4. CASE \/ \E n \in ackt : tcp_ack_timeout(n)
           \/ \E w \in recvt : tcp_socket_recv_timeout(w)
           \/ RecvTimeoutWake \/ Lose \/ UNCHANGED vars
  <2>1. UNCHANGED <<sk, upc, ncall, read, peer>>
    BY <1>4 DEF tcp_ack_timeout, tcp_socket_recv_timeout, RecvTimeoutWake, Lose, vars, userlog,
                peervars
  <2> QED
    BY <1>1, <1>2, <2>1
<1>5. CASE PeerRx
  <2>1. PICK m \in Range(toPeer) :
          /\ m \in Segments /\ (Opens(m) \/ Advances(m))
          /\ UNCHANGED <<sk, upc, woken, timers, userlog, panicked>>
    BY <1>5, PeerRxIs
  <2>2. peer'.sent = peer.sent
    BY <2>1, PeerTaken
  <2> QED
    BY <1>1, <1>2, <2>1, <2>2 DEF userlog
<1>6. CASE PeerConnect \/ PeerSend \/ PeerFin \/ PeerRetransmit
  <2>1. UNCHANGED <<sk, upc, ncall, read>> /\ peer.sent <= peer'.sent
    BY <1>6, PeerMovesIs DEF PeerMoves, userlog
  <2> QED
    BY <1>2, <2>1
<1> QED
  BY <1>3, <1>4, <1>5, <1>6, RxTaken, UserTaken DEF TcpNext, WorkStep, PeerStep

\* On the first connection of a socket that connects, tcp_socket_recv takes the
\* peer's segments in order, each one once and none left out: tcp_recv_pkt appends to
\* rx_data_list only what carries the number ack_num, which counts what has been
\* received.  A segment from which it gives less than all was asked for less than all;
\* the rest of that segment is lost (tcp.c:521-524).
THEOREM ReceivedInOrder == TcpSpec => []StreamInOrder
<1>1. TcpInit => TakenInv
  <2> SUFFICES ASSUME TcpInit
               PROVE  TakenInv
    OBVIOUS
  <2>1. Taken = << >> /\ sk.rx = << >> /\ ncall.connect = 0
    BY DEF TcpInit, NewSocket, Taken
  <2> QED
    BY <2>1 DEF TakenInv, RecvInv, OrderInv
<1>2. TypeInv /\ TypeInv' /\ WireInv /\ StreamInv /\ ControlInv /\ TakenInv /\ [TcpNext]_vars
        => TakenInv'
  BY TakenStep DEF StreamInv, ControlInv
<1>3. TypeInv /\ TakenInv => StreamInOrder
  <2> SUFFICES ASSUME TypeInv, OrderInv
               PROVE  StreamInOrder
    BY DEF TakenInv
  <2>1. \A i \in 1 .. Len(read) : read[i] \in Reads
    BY DEF TypeInv
  <2> QED
    BY <2>1 DEF OrderInv, StreamInOrder, Reads
<1> QED
  BY WellTyped, ControlHolds, StreamHolds, <1>1, <1>2, <1>3, PTL DEF TcpSpec

=============================================================================
