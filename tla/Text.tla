-------------------------------- MODULE Text --------------------------------
(***************************************************************************)
(* Conversions of text: destinations typed by the user into addresses and  *)
(* DNS questions (user/user_app.c, user/dns.c), names in DNS answers, and  *)
(* numbers into digits (lib/print.c).  A string is the sequence of its     *)
(* character codes, without the 0 at its end; a uint32_t is the pair of    *)
(* its 16-bit halves.                                                      *)
(***************************************************************************)
EXTENDS Integers, Sequences, SequencesExt

CONSTANTS
    Pieces,         \* what is typed at once: a character, or the digits of a number
    MaxText,        \* bound: pieces of the text
    MaxNum          \* bound: the numbers printed

VARIABLES
    typed,      \* what has been typed so far, piece by piece
    num         \* the number printed next

textvars == <<typed, num>>

DOT   == 46
ZERO  == 48
Digits == ZERO .. ZERO + 9

ASSUME TextAssumption ==
    /\ \A p \in Pieces : p \in Seq(1 .. 127)
    /\ {MaxText, MaxNum} \subseteq Nat

-----------------------------------------------------------------------------
(* The loop that parse_ipaddr and set_qsection share: cut the text at its  *)
(* dots.  The position is moved on before the character is looked at, also *)
(* after a dot.                                                            *)
Blocks(buf) ==
    LET n == Len(buf)
        Cut[start \in 0 .. n, end \in 0 .. n] ==
          IF end >= n THEN <<SubSeq(buf, start + 1, end)>>
          ELSE IF end + 1 < n /\ buf[end + 2] = DOT
          THEN <<SubSeq(buf, start + 1, end + 1)>> \o Cut[end + 2, end + 2]
          ELSE Cut[start, end + 1]
    IN  Cut[0, 0]

\* The halves of a number below 2^31, and ret * base + more in a uint32_t.
UInt32(n) == <<n \div 65536, n % 65536>>

MulAdd(ret, base, more) ==
    LET low == ret[2] * base + more[2]
    IN  <<(ret[1] * base + more[1] + (low \div 65536)) % 65536, low % 65536>>

\* 0 for anything but digits.
stoi(buf) ==
    IF \E k \in DOMAIN buf : buf[k] \notin Digits THEN UInt32(0)
    ELSE FoldLeft(LAMBDA ret, ch : MulAdd(ret, 10, UInt32(ch - ZERO)), UInt32(0), buf)

parse_ipaddr(buf) ==
    IF Len(Blocks(buf)) # 4 THEN UInt32(0)
    ELSE FoldLeft(LAMBDA ret, b : MulAdd(ret, 256, stoi(b)), UInt32(0), Blocks(buf))

-----------------------------------------------------------------------------
(* DNS.                                                                    *)

\* The name as set_qsection writes it: each block behind its length, 0 at the end.
QName(name) ==
    FlattenSeq([k \in DOMAIN Blocks(name) |->
                  <<Len(Blocks(name)[k])>> \o Blocks(name)[k]]) \o <<0>>

\* The question section: the name, the type and the class.
set_qsection(name, type, class) == QName(name) \o <<0, type>> \o <<0, class>>

\* parse_domain_name: what is written to wbuf, with -1 for a compressed name or
\* one that does not fit.  As each block takes as much room behind as it did
\* before, what is left of wlen follows from the position.
parse_domain_name(rbuf, wlen) ==
    LET Failed == [ret |-> -1, buf |-> << >>]
        Walk[r \in 1 .. Len(rbuf) + 1] ==
          LET nextlen == rbuf[r]
              rest    == Walk[r + nextlen + 1]
          IN  IF r > Len(rbuf) \/ nextlen = 0 THEN [ret |-> 0, buf |-> << >>]
              ELSE IF nextlen = 192 \/ wlen - (r - 1) - nextlen < 0 THEN Failed
              ELSE [rest EXCEPT !.buf = SubSeq(rbuf, r + 1, r + nextlen) \o <<DOT>> \o @]
    IN  Walk[1]

-----------------------------------------------------------------------------
(* Numbers.                                                                *)

\* printnum: the digits from the lowest, then the other way round.
printnum(n) ==
    LET Low[m \in 0 .. n] == IF m = 0 THEN << >> ELSE <<ZERO + (m % 10)>> \o Low[m \div 10]
    IN  IF n = 0 THEN <<ZERO>> ELSE Reverse(Low[n])


\* A byte of an address in decimal, as generate_arpa_address writes it.
set_num(orinum) ==
    LET rest == orinum % 100
    IN  (IF orinum >= 100 THEN <<ZERO + (orinum \div 100)>> ELSE << >>)
          \o (IF orinum >= 100 \/ rest >= 10 THEN <<ZERO + (rest \div 10)>> ELSE << >>)
          \o <<ZERO + (rest % 10)>>

\* generate_arpa_address: the bytes of the address from the lowest, and the
\* domain they are looked up in.
arpa == <<105, 110, 45, 97, 100, 100, 114, DOT, 97, 114, 112, 97>>

generate_arpa_address(ip) ==
    FlattenSeq([k \in 1 .. 4 |-> set_num(ip[5 - k]) \o <<DOT>>]) \o arpa

-----------------------------------------------------------------------------
TextInit == typed = << >> /\ num = 0

Type(piece) == Len(typed) < MaxText /\ typed' = Append(typed, piece) /\ UNCHANGED num

CountUp == typed = << >> /\ num < MaxNum /\ num' = num + 1 /\ UNCHANGED typed

TextNext == (\E piece \in Pieces : num = 0 /\ Type(piece)) \/ CountUp

TextSpec == TextInit /\ [][TextNext]_textvars

-----------------------------------------------------------------------------
text == FlattenSeq(typed)

\* How much of a message the resolver reads as the question, and so repeats in
\* front of its answer: labels up to the empty one, a type and a class.
QuestionLength(q) ==
    LET End[r \in 1 .. Len(q)] == IF q[r] = 0 THEN r ELSE End[r + q[r] + 1]
    IN  End[1] + 4

\* set_qsection has cut the name at a dot at its end.
EndsInDot == Last(Blocks(text)) = << >>

\* The name comes back from the question it is written into, with one dot at its
\* end.  The answer is looked for behind the question as it was written
\* (dns.c:133): where it is, unless the name ends in a dot itself.  Then the
\* name is followed by a second empty label, the resolver reads one byte less,
\* and the answer is looked for one byte too far.
NamesSurviveDns ==
    LET question == set_qsection(text, 1, 1)
    IN  /\ parse_domain_name(QName(text), 200) =
             [ret |-> 0, buf |-> IF EndsInDot THEN text ELSE Append(text, DOT)]
        /\ Len(question) = QuestionLength(question) + (IF EndsInDot THEN 1 ELSE 0)

DotsIn(s) == {k \in DOMAIN s : s[k] = DOT}

\* A text without a dot at its start and without two dots in a row.
Dotted(s) == s # << >> /\ s[1] # DOT /\ \A k \in DotsIn(s) : k + 1 \notin DotsIn(s)

\* What four short decimal numbers with dots between them stand for: the halves
\* of an address, a number above 255 being carried into the one before it.
Quad(a, b, c, d) ==
    LET low == c * 256 + d
    IN  <<(a * 256 + b + (low \div 65536)) % 65536, low % 65536>>

\* The number a part of an address stands for, an empty one being 0.
PartValue(s) == FoldLeft(LAMBDA v, ch : v * 10 + (ch - ZERO), 0, s)

\* (A name with three dots is taken for an address as soon as one of its parts
\* is a number.)
AddressesParsed ==
    Dotted(text) =>
      IF Cardinality(DotsIn(text)) # 3 THEN parse_ipaddr(text) = UInt32(0)
      ELSE LET Part(from, to) == SubSeq(text, from + 1, to - 1)
               Short(s) == Len(s) <= 4 /\ \A k \in DOMAIN s : s[k] \in Digits
           IN  \A p, q, r \in DotsIn(text) : (p < q /\ q < r) =>
                 LET parts == <<Part(0, p), Part(p, q), Part(q, r), Part(r, Len(text) + 1)>>
                 IN  (\A k \in 1 .. 4 : Short(parts[k])) =>
                       parse_ipaddr(text) = Quad(PartValue(parts[1]), PartValue(parts[2]),
                                                 PartValue(parts[3]), PartValue(parts[4]))

NumbersReadBack ==
    /\ stoi(printnum(num)) = UInt32(num)
    /\ num < 256 =>
         /\ set_num(num) = printnum(num)
         /\ LET labels == Blocks(generate_arpa_address(<<num, 0, 255, 8>>))
            IN  /\ Len(labels) = 6
                /\ \A k \in 1 .. 4 : stoi(labels[k]) = UInt32(<<8, 255, 0, num>>[k])


=============================================================================
