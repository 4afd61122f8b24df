------------------------------ MODULE NetProofs ------------------------------
(***************************************************************************)
(* No IP packet leaves with the hardware address of another host or with   *)
(* that of an entry still being written, for any number of hosts and       *)
(* frames and any size of the ARP table, whichever store of                *)
(* register_arpentry a system call comes in after.                         *)
(***************************************************************************)
EXTENDS Net, WellFoundedInduction, TLAPS

EntryIndex == 0 .. MAX_ARP_TABLE - 1

\* Table entries hold an address and a hardware address, set or not.
Entry == [ip_addr : Hosts \cup {0}, mac_addr : {Mac(h) : h \in Hosts} \cup {ZeroMac}]

NetTypeOK ==
    /\ arptable \in [next_entry_idx : Nat, table : [EntryIndex -> Entry]]
    /\ kpc \in {"idle", "reg_ip", "reg_mac", "reg_next"}
    /\ kreg \in Hosts
    /\ asked \subseteq Hosts
    /\ \A f \in rx : f.type \in {"arp_request", "arp_response"} => f.from \in Hosts

\* An entry that a reader of the table can see is complete.
EntriesRight ==
    \A i \in EntryIndex : i < arptable.next_entry_idx =>
      arptable.table[i].mac_addr = Mac(arptable.table[i].ip_addr)

\* The entry behind the last one holds what register_arpentry has stored so far.
RegisterHalf ==
    \A i \in EntryIndex : i = arptable.next_entry_idx =>
      /\ kpc \in {"reg_mac", "reg_next"} => arptable.table[i].ip_addr = kreg
      /\ kpc = "reg_next" => arptable.table[i].mac_addr = Mac(kreg)

NetInv == NetTypeOK /\ EntriesRight /\ RegisterHalf /\ RightNextHop

-----------------------------------------------------------------------------
\* A set of numbers that is not empty has a least one.
LEMMA LeastNatural ==
    ASSUME NEW T, T \subseteq Nat, T # {}
    PROVE  \E n \in T : \A m \in T : n <= m
<1>1. PICK n \in T : \A m \in T : ~(<<m, n>> \in OpToRel(<, Nat))
  BY NatLessThanWellFounded, WFMin
<1>2. \A m \in T : ~(m < n)
  BY <1>1 DEF OpToRel
<1> QED
  BY <1>2

\* What find_mac_addr finds is the hardware address of the host asked for.
LEMMA FoundIsRight ==
    ASSUME NetInv, NEW h, find_mac_addr(h) # NULL
    PROVE  find_mac_addr(h) = Mac(h)
<1>1. Matching(h) # {} /\ Matching(h) \subseteq Nat
  BY DEF find_mac_addr, Matching, Entries, NetInv, NetTypeOK
<1> DEFINE i == CHOOSE i \in Matching(h) : \A j \in Matching(h) : i <= j
<1>2. i \in Matching(h)
  BY <1>1, LeastNatural
<1>3. find_mac_addr(h) = arptable.table[i].mac_addr
  BY <1>1 DEF find_mac_addr
<1> HIDE DEF i
<1>4. /\ i \in EntryIndex /\ i < arptable.next_entry_idx
      /\ arptable.table[i].ip_addr = h
  BY <1>2, NetAssumption DEF Matching, Entries, EntryIndex, NetInv, NetTypeOK
<1> QED
  BY <1>3, <1>4 DEF NetInv, EntriesRight

\* ip_tx asks for a host of the local network, or sends to the right one.
LEMMA SendsRight ==
    ASSUME NetInv, NEW dip, ip_tx(dip)
    PROVE  RightNextHop' /\ asked' \subseteq Hosts
<1>1. nexthop_ip(dip) \in Hosts
  BY NetAssumption DEF nexthop_ip
<1>2. CASE find_mac_addr(nexthop_ip(dip)) = NULL
  BY <1>1, <1>2 DEF ip_tx, arp_tx, NetInv, NetTypeOK, RightNextHop
<1>3. CASE find_mac_addr(nexthop_ip(dip)) # NULL
  <2>1. out' = [dip |-> dip, dmac |-> Mac(nexthop_ip(dip))] /\ asked' = asked
    BY <1>3, FoundIsRight DEF ip_tx, ether_tx
  <2> QED
    BY <2>1 DEF nexthop_ip, RightNextHop, NetInv, NetTypeOK
<1> QED
  BY <1>2, <1>3

\* Steps that leave the table and the kernel task alone.
LEMMA TableUntouched ==
    ASSUME NetInv, UNCHANGED netstate, asked' \subseteq Hosts, RightNextHop',
           \A f \in rx' : f \in rx \/ (f.type \in {"arp_request", "arp_response"}
                                         => f.from \in Hosts)
    PROVE  NetInv'
  BY DEF NetInv, netstate, NetTypeOK, EntriesRight, RegisterHalf

\* The stores of register_arpentry: the entry they fill is seen by no reader.
LEMMA RegisterKeeps ==
    ASSUME NetInv, RegisterIp \/ RegisterMac \/ RegisterNext
    PROVE  NetInv'
<1> USE DEF NetInv
<1>1. RightNextHop' /\ kreg' = kreg /\ asked' = asked /\ rx' = rx
  BY DEF RegisterIp, RegisterMac, RegisterNext, RightNextHop, lan
<1> DEFINE n == arptable.next_entry_idx
<1>2. CASE RegisterIp /\ n < MAX_ARP_TABLE
  <2>1. /\ n \in EntryIndex /\ kpc' = "reg_mac"
        /\ arptable' = [arptable EXCEPT !.table[n] = [@ EXCEPT !["ip_addr"] = kreg]]
    <3>1. n \in EntryIndex
      BY <1>2, NetAssumption DEF NetTypeOK, EntryIndex
    <3> QED
      BY <1>2, <3>1 DEF RegisterIp, Stored
  <2>2. [arptable.table[n] EXCEPT !["ip_addr"] = kreg] \in Entry
    BY <2>1 DEF NetTypeOK, Entry
  <2>3. /\ arptable'.next_entry_idx = n
        /\ arptable'.table = [arptable.table EXCEPT ![n] = [@ EXCEPT !["ip_addr"] = kreg]]
        /\ arptable' \in [next_entry_idx : Nat, table : [EntryIndex -> Entry]]
    BY <2>1, <2>2 DEF NetTypeOK
  <2>4. arptable'.table[n].ip_addr = kreg
    BY <2>1, <2>3 DEF NetTypeOK, Entry
  <2>5. NetTypeOK'
    BY <1>1, <2>1, <2>3 DEF NetTypeOK
  <2>6. EntriesRight'
    BY <2>3 DEF NetTypeOK, EntriesRight, EntryIndex
  <2>7. RegisterHalf'
    BY <1>1, <2>1, <2>3, <2>4 DEF RegisterHalf
  <2> QED
    BY <1>1, <2>5, <2>6, <2>7
<1>3. CASE RegisterMac /\ n < MAX_ARP_TABLE
  <2>1. /\ n \in EntryIndex /\ kpc' = "reg_next" /\ kpc = "reg_mac"
        /\ arptable' = [arptable EXCEPT !.table[n] = [@ EXCEPT !["mac_addr"] = Mac(kreg)]]
    <3>1. n \in EntryIndex
      BY <1>3, NetAssumption DEF NetTypeOK, EntryIndex
    <3> QED
      BY <1>3, <3>1 DEF RegisterMac, Stored
  <2>2. [arptable.table[n] EXCEPT !["mac_addr"] = Mac(kreg)] \in Entry
    BY <2>1 DEF NetTypeOK, Entry
  <2>3. /\ arptable'.next_entry_idx = n
        /\ arptable'.table = [arptable.table EXCEPT ![n] = [@ EXCEPT !["mac_addr"] = Mac(kreg)]]
        /\ arptable' \in [next_entry_idx : Nat, table : [EntryIndex -> Entry]]
    BY <2>1, <2>2 DEF NetTypeOK
  <2>4. arptable'.table[n].ip_addr = kreg /\ arptable'.table[n].mac_addr = Mac(kreg)
    BY <2>1, <2>3 DEF NetTypeOK, Entry, RegisterHalf
  <2>5. NetTypeOK'
    BY <1>1, <2>1, <2>3 DEF NetTypeOK
  <2>6. EntriesRight'
    BY <2>3 DEF NetTypeOK, EntriesRight, EntryIndex
  <2>7. RegisterHalf'
    BY <1>1, <2>1, <2>3, <2>4 DEF RegisterHalf
  <2> QED
    BY <1>1, <2>5, <2>6, <2>7
<1>4. CASE RegisterNext
  <2>1. /\ kpc = "reg_next" /\ kpc' = "idle"
        /\ arptable'.next_entry_idx = n + 1 /\ arptable'.table = arptable.table
        /\ arptable' \in [next_entry_idx : Nat, table : [EntryIndex -> Entry]]
    BY <1>4 DEF RegisterNext, NetTypeOK
  <2>2. NetTypeOK'
    BY <1>1, <2>1 DEF NetTypeOK
  <2>3. EntriesRight'
    BY <2>1 DEF NetTypeOK, EntriesRight, RegisterHalf, EntryIndex
  <2>4. RegisterHalf'
    BY <2>1 DEF RegisterHalf
  <2> QED
    BY <1>1, <2>2, <2>3, <2>4
<1>5. CASE (RegisterIp \/ RegisterMac) /\ ~(n < MAX_ARP_TABLE)
  <2>1. arptable' = arptable /\ kpc' \in {"reg_mac", "reg_next"}
    BY <1>5 DEF RegisterIp, RegisterMac, Stored
  <2>2. NetTypeOK' /\ EntriesRight'
    BY <1>1, <2>1 DEF NetTypeOK, EntriesRight
  <2>3. RegisterHalf'
    BY <1>5, <2>1, NetAssumption DEF RegisterHalf, EntryIndex, NetTypeOK
  <2> QED
    BY <1>1, <2>2, <2>3
<1> QED
  BY <1>2, <1>3, <1>4, <1>5

\* ether_rx: an ARP frame starts a registration, an echo request sends.
LEMMA EtherRxKeeps ==
    ASSUME NetInv, ether_rx
    PROVE  NetInv'
<1>1. PICK f \in rx : Take(f) /\ (ArpRx(f) \/ IcmpRx(f) \/ IgnoreRx(f))
  BY DEF ether_rx
<1>2. rx' \subseteq rx
  BY <1>1 DEF Take
<1>3. CASE ArpRx(f)
  <2>1. kreg' \in Hosts /\ kpc' = "reg_ip" /\ UNCHANGED <<arptable, asked, out>>
    BY <1>3 DEF ArpRx, NetInv, NetTypeOK
  <2> QED
    BY <1>2, <2>1 DEF NetInv, NetTypeOK, EntriesRight, RegisterHalf, RightNextHop
<1>4. CASE IcmpRx(f)
  BY <1>2, <1>4, SendsRight, TableUntouched DEF IcmpRx
<1>5. CASE IgnoreRx(f)
  <2>1. RightNextHop' /\ asked' \subseteq Hosts
    BY <1>5 DEF IgnoreRx, NetInv, NetTypeOK, RightNextHop
  <2> QED
    BY <1>2, <1>5, <2>1, TableUntouched DEF IgnoreRx
<1> QED
  BY <1>1, <1>3, <1>4, <1>5

\* What comes from the network and from system calls leaves the table alone.
LEMMA OthersKeep ==
    ASSUME NetInv,
           HostSends \/ \E h \in Hosts : SyscallTx(h) \/ HostAnswers(h) \/ Lose(h)
    PROVE  NetInv'
<1>1. CASE HostSends
  <2>1. RightNextHop' /\ asked' \subseteq Hosts /\ UNCHANGED netstate
    BY <1>1 DEF HostSends, NetInv, NetTypeOK, RightNextHop
  <2>2. \A f \in rx' : f \in rx \/ (f.type \in {"arp_request", "arp_response"}
                                      => f.from \in Hosts)
    BY <1>1 DEF HostSends, Frame
  <2> QED
    BY <2>1, <2>2, TableUntouched
<1>2. ASSUME NEW h \in Hosts, SyscallTx(h) PROVE NetInv'
  <2>1. PICK dip \in Addr : ip_tx(dip)
    BY <1>2 DEF SyscallTx
  <2>2. rx' = rx /\ UNCHANGED netstate
    BY <1>2 DEF SyscallTx, lan
  <2> QED
    BY <2>1, <2>2, SendsRight, TableUntouched
<1>3. ASSUME NEW h \in Hosts, HostAnswers(h) PROVE NetInv'
  <2>1. RightNextHop' /\ asked' \subseteq Hosts /\ UNCHANGED netstate
    BY <1>3 DEF HostAnswers, NetInv, NetTypeOK, RightNextHop
  <2>2. \A f \in rx' : f \in rx \/ f.from \in Hosts
    BY <1>3 DEF HostAnswers, Frame
  <2> QED
    BY <2>1, <2>2, TableUntouched
<1>4. ASSUME NEW h \in Hosts, Lose(h) PROVE NetInv'
  <2>1. RightNextHop' /\ asked' \subseteq Hosts /\ UNCHANGED netstate /\ rx' = rx
    BY <1>4 DEF Lose, lan, NetInv, NetTypeOK, RightNextHop
  <2> QED
    BY <2>1, TableUntouched
<1> QED
  BY <1>1, <1>2, <1>3, <1>4

-----------------------------------------------------------------------------
\* Every IP packet carries the hardware address of its own next hop
\* (RightNextHop): ip_tx takes whatever bytes the entry it finds holds, but
\* register_arpentry fills entries behind next_entry_idx and advances it only
\* when both fields are stored, so no entry in sight is half written
\* (arp.c:27-44, ip.c:80-117).
THEOREM NextHopAlwaysRight == NetSpec => []RightNextHop
<1>1. NetInit => NetInv
  <2> SUFFICES ASSUME NetInit PROVE NetInv
    OBVIOUS
  <2>1. [ip_addr |-> 0, mac_addr |-> ZeroMac] \in Entry
    BY DEF Entry
  <2>2. [i \in 0 .. MAX_ARP_TABLE - 1 |-> [ip_addr |-> 0, mac_addr |-> ZeroMac]]
          \in [EntryIndex -> Entry]
    BY <2>1 DEF EntryIndex
  <2>3. NetTypeOK
    BY <2>2, NetAssumption DEF NetInit, init_arptable, NetTypeOK
  <2>4. EntriesRight /\ RegisterHalf /\ RightNextHop
    BY NetAssumption DEF NetInit, init_arptable, EntriesRight, EntryIndex, RegisterHalf, RightNextHop
  <2> QED
    BY <2>3, <2>4 DEF NetInv
<1>2. NetInv /\ [NetNext]_vars => NetInv'
  <2> SUFFICES ASSUME NetInv, [NetNext]_vars PROVE NetInv'
    OBVIOUS
  <2>1. CASE UNCHANGED vars
    BY <2>1 DEF vars, NetInv, NetTypeOK, EntriesRight, RegisterHalf, RightNextHop
  <2>2. CASE KernelTask
    BY <2>2, EtherRxKeeps, RegisterKeeps DEF KernelTask
  <2>3. CASE HostSends \/ \E h \in Hosts : SyscallTx(h) \/ HostAnswers(h) \/ Lose(h)
    BY <2>3, OthersKeep
  <2> QED
    BY <2>1, <2>2, <2>3 DEF NetNext
<1>3. NetInv => RightNextHop
  BY DEF NetInv
<1> QED
  BY <1>1, <1>2, <1>3, PTL DEF NetSpec

=============================================================================
