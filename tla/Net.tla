--------------------------------- MODULE Net ---------------------------------
(***************************************************************************)
(* The network layer below the sockets: ether_rx, ARP, IP and ICMP echo    *)
(* (net/ether.c, arp.c, ip.c, icmp.c), and the hosts of the local network. *)
(*                                                                         *)
(* Frames are handled by the work ether_rx in the kernel task, with        *)
(* interrupts enabled; ip_tx is also called from system calls, which run   *)
(* with interrupts disabled and may come between any two stores of the     *)
(* kernel task.  register_arpentry is therefore cut at its stores; ip_tx   *)
(* only reads the table.  A packet is its destination; the card sees all   *)
(* frames of the network (AcceptAllPhys).                                  *)
(***************************************************************************)
EXTENDS Integers, FiniteSets

CONSTANTS
    MAX_ARP_TABLE,      \* 256
    Hosts,              \* addresses on the local network
    gw_addr,            \* the one of them that is the gateway
    Remote,             \* addresses behind the gateway
    MaxFrames,          \* bound: frames from the hosts
    MaxLoss             \* bound: frames of ours that are lost

ASSUME NetAssumption ==
    /\ MAX_ARP_TABLE \in Nat \ {0} /\ {MaxFrames, MaxLoss} \subseteq Nat
    /\ gw_addr \in Hosts /\ Hosts \cap Remote = {} /\ 0 \notin Hosts \cup Remote

VARIABLES
    arptable,   \* [next_entry_idx, table]
    kpc,        \* the kernel task: "idle" or the store of register_arpentry it is at
    kreg,       \* the host register_arpentry registers
    rx,         \* frames from the hosts that ether_rx has not handled
    asked,      \* hosts we have sent an ARP request that is still to be answered
    out,        \* the last IP packet given to the card: destination and dmac
    nframe, nloss

netstate == <<arptable, kpc, kreg>>
lan  == <<rx, nframe>>
vars == <<arptable, kpc, kreg, rx, asked, out, nframe, nloss>>

Addr == Hosts \cup Remote

\* The hardware address of a host of the local network, the zero bytes of an
\* entry whose address is not stored yet, and the pointer to no entry.
Mac(h)  == <<"mac", h>>
ZeroMac == <<"mac", 0>>
NULL    == <<"null">>

NoPacket == [dip |-> 0, dmac |-> ZeroMac]

Frame(type, from) == [type |-> type, from |-> from]

-----------------------------------------------------------------------------
(* arp.c.                                                                  *)

init_arptable ==
    [next_entry_idx |-> 0,
     table |-> [i \in 0 .. MAX_ARP_TABLE - 1 |-> [ip_addr |-> 0, mac_addr |-> ZeroMac]]]

\* Mutant of Entries: the loop looks at one entry too many, the one that
\* register_arpentry is writing.
EntriesBehind == 0 .. arptable.next_entry_idx

Entries == 0 .. arptable.next_entry_idx - 1

Matching(ip) ==
    {i \in Entries : i < MAX_ARP_TABLE /\ arptable.table[i].ip_addr = ip}

\* The hardware address in the first entry for ip, whatever is stored there, or
\* NULL when there is no entry.
find_mac_addr(ip) ==
    IF Matching(ip) = {} THEN NULL
    ELSE arptable.table[CHOOSE i \in Matching(ip) :
                          \A j \in Matching(ip) : i <= j].mac_addr

\* register_arpentry: the entry at next_entry_idx, field by field, and then the
\* index.  Nothing looks for an older entry or for the end of the table; a
\* store past it goes elsewhere.
Stored(field, value) ==
    LET i == arptable.next_entry_idx
    IN  IF i < MAX_ARP_TABLE
        THEN [arptable EXCEPT !.table[i] = [@ EXCEPT ![field] = value]]
        ELSE arptable

RegisterIp ==
    /\ kpc = "reg_ip" /\ kpc' = "reg_mac"
    /\ arptable' = Stored("ip_addr", kreg)
    /\ UNCHANGED <<kreg, lan, asked, out, nloss>>

RegisterMac ==
    /\ kpc = "reg_mac" /\ kpc' = "reg_next"
    /\ arptable' = Stored("mac_addr", Mac(kreg))
    /\ UNCHANGED <<kreg, lan, asked, out, nloss>>

\* Mutant of RegisterNext: the index stays.
RegisterNextLost ==
    /\ kpc = "reg_next" /\ kpc' = "idle"
    /\ UNCHANGED <<arptable, kreg, lan, asked, out, nloss>>

RegisterNext ==
    /\ kpc = "reg_next" /\ kpc' = "idle"
    /\ arptable' = [arptable EXCEPT !.next_entry_idx = @ + 1]
    /\ UNCHANGED <<kreg, lan, asked, out, nloss>>

-----------------------------------------------------------------------------
(* ip_tx.                                                                  *)

nexthop_ip(dip) == IF dip \in Hosts THEN dip ELSE gw_addr

\* The ARP request for ip, broadcast on the local network.
arp_tx(ip) == asked' = asked \cup {ip}

\* The frame for the hardware address mac, given to the card.
ether_tx(dip, mac) == out' = [dip |-> dip, dmac |-> mac]

\* The packet goes to the address found, or is given up for an ARP request when
\* there is no entry.
ip_tx(dip) ==
    LET hop == nexthop_ip(dip)
        mac == find_mac_addr(hop)
    IN  IF mac = NULL
        THEN arp_tx(hop) /\ UNCHANGED out
        ELSE ether_tx(dip, mac) /\ UNCHANGED asked

\* A system call sends a packet by way of the host hop.
SyscallTx(hop) ==
    /\ \E dip \in Addr : nexthop_ip(dip) = hop /\ ip_tx(dip)
    /\ UNCHANGED <<netstate, lan, nloss>>

-----------------------------------------------------------------------------
(* ether_rx: what the kernel task does with a frame.                       *)

Take(f) == f \in rx /\ rx' = rx \ {f}

\* handle_arp_request for our address (the reply is sent first), and
\* handle_arp_response.
ArpRx(f) ==
    /\ f.type \in {"arp_request", "arp_response"}
    /\ kpc' = "reg_ip" /\ kreg' = f.from
    /\ UNCHANGED <<arptable, asked, out>>

\* icmp_rx: the answer to an echo request.
IcmpRx(f) ==
    /\ f.type = "echo_request"
    /\ ip_tx(f.from)
    /\ UNCHANGED netstate

\* Requests for others, packets to others, unknown types.
IgnoreRx(f) ==
    /\ f.type = "other"
    /\ UNCHANGED <<netstate, asked, out>>

ether_rx ==
    /\ kpc = "idle"
    /\ \E f \in rx : Take(f) /\ (ArpRx(f) \/ IcmpRx(f) \/ IgnoreRx(f))
    /\ UNCHANGED <<nframe, nloss>>

-----------------------------------------------------------------------------
(* The local network.                                                      *)

\* A host answers our request.
HostAnswers(h) ==
    /\ h \in asked
    /\ asked' = asked \ {h}
    /\ rx' = rx \cup {Frame("arp_response", h)}
    /\ UNCHANGED <<netstate, out, nframe, nloss>>

Lose(h) ==
    /\ h \in asked /\ nloss < MaxLoss
    /\ asked' = asked \ {h} /\ nloss' = nloss + 1
    /\ UNCHANGED <<netstate, lan, out>>

\* A host asks for our address, or a host near or far pings us, or anything else
\* is on the network.
HostSends ==
    /\ nframe < MaxFrames /\ nframe' = nframe + 1
    /\ \E f \in {Frame("arp_request", h) : h \in Hosts}
             \cup {Frame("echo_request", a) : a \in Addr}
             \cup {Frame("other", gw_addr)} :
          f \notin rx /\ rx' = rx \cup {f}
    /\ UNCHANGED <<netstate, asked, out, nloss>>

-----------------------------------------------------------------------------
NetInit ==
    /\ arptable = init_arptable
    /\ kpc = "idle" /\ kreg = gw_addr
    /\ rx = {} /\ asked = {} /\ out = NoPacket
    /\ nframe = 0 /\ nloss = 0

KernelTask == ether_rx \/ RegisterIp \/ RegisterMac \/ RegisterNext

NetNext ==
    \/ KernelTask
    \/ HostSends
    \/ \E h \in Hosts : SyscallTx(h) \/ HostAnswers(h) \/ Lose(h)

\* The kernel task is scheduled, hosts answer, and programs try again (ping
\* every second, tcp_ack_timeout).
NetSpec ==
    /\ NetInit /\ [][NetNext]_vars
    /\ WF_vars(KernelTask)
    /\ \A h \in Hosts : WF_vars(HostAnswers(h)) /\ WF_vars(SyscallTx(h))

-----------------------------------------------------------------------------
\* Every IP packet goes to the hardware address of its own next hop, the host
\* itself or the gateway, never to that of another host or to the zero bytes of
\* an entry that is still being written, although ip_tx reads the table from
\* system calls that come between any two stores of register_arpentry
\* (arp.c:27-44, ip.c:80-117).
RightNextHop ==
    out # NoPacket =>
      out.dmac = Mac(IF out.dip \in Hosts THEN out.dip ELSE gw_addr)

\* A next hop that was unknown becomes known: the packet that found it missing
\* is given up, but the retries of its sender get through, although requests
\* are lost (ip.c:102-117, arp.c:94-97).
Resolved == \A h \in Hosts : h \in asked ~> find_mac_addr(h) = Mac(h)

=============================================================================
