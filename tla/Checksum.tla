------------------------------ MODULE Checksum ------------------------------
(***************************************************************************)
(* The Internet checksum (net/netutil.c), as ip_tx, udp_socket_send,       *)
(* tcp_send, icmp_rx and ping use it: over words in the byte order of the  *)
(* machine, stored without hton16.  A word is two bytes of BYTE values.    *)
(***************************************************************************)
EXTENDS Integers, Sequences

CONSTANTS
    BYTE,       \* 256
    MaxLen      \* bound: bytes of data

ASSUME ChecksumAssumption == BYTE \in Nat \ {0, 1} /\ MaxLen \in Nat

VARIABLES
    data,       \* the bytes, with the field of the checksum still 0
    idx, sum    \* the loop

sumvars == <<data, idx, sum>>

WORD == BYTE * BYTE

-----------------------------------------------------------------------------
ChecksumInit ==
    /\ data \in UNION {[1 .. n -> 0 .. BYTE - 1] : n \in 0 .. MaxLen}
    /\ idx = 0 /\ sum = 0

\* data[idx]: the first byte is the lower one.
LoadWord == data[2 * idx + 1] + BYTE * data[2 * idx + 2]

\* Mutant of Folded: the carry is dropped.
FoldedCut(s) == s % WORD

\* The carry out of a word is added back, once.
Folded(s) == IF s \div WORD # 0 THEN (s % WORD) + (s \div WORD) ELSE s

AddWord ==
    /\ idx < Len(data) \div 2
    /\ sum' = Folded(sum + LoadWord)
    /\ idx' = idx + 1
    /\ UNCHANGED data

\* The last byte of an odd length is a word with a zero behind it.
AddOddByte ==
    /\ idx = Len(data) \div 2 /\ Len(data) % 2 = 1
    /\ sum' = Folded(sum + data[Len(data)])
    /\ idx' = idx + 1
    /\ UNCHANGED data

ChecksumNext == AddWord \/ AddOddByte

ChecksumSpec == ChecksumInit /\ [][ChecksumNext]_sumvars

\* ~sum & 0xffff, when the loop is over.
checksum == WORD - 1 - (sum % WORD)

Finished == 2 * idx >= Len(data)

\* The same two bytes the other way round.
reverse16(w) == (w \div BYTE) + BYTE * (w % BYTE)

-----------------------------------------------------------------------------
\* The words as the receiver reads them, in network order, and their sums; an odd
\* length has a zero behind it.
ByteAt(k) == IF k <= Len(data) THEN data[k] ELSE 0
NetworkWord(n) == BYTE * ByteAt(2 * n - 1) + ByteAt(2 * n)
NetworkSum[n \in 0 .. MaxLen] ==
    IF n = 0 THEN 0 ELSE NetworkSum[n - 1] + NetworkWord(n)

\* A receiver that adds up the words in network order, the stored checksum
\* among them, gets all ones: summing in the other byte order, folding the
\* carry once per word and storing without hton16 make no difference; nor does
\* an odd length (netutil.c:40-60, ip.c:78, udp.c:125, tcp.c:419, icmp.c:45).
ReceiverAccepts ==
    Finished => /\ (NetworkSum[idx] + reverse16(checksum)) % (WORD - 1) = 0
                /\ checksum = WORD - 1 => \A k \in DOMAIN data : data[k] = 0

=============================================================================
