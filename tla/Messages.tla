------------------------------ MODULE Messages -----------------------------
(***************************************************************************)
(* DNS messages, as the handler builds them and the DNS library packs      *)
(* them.  A resource record is its type, owner, TTL and length on the      *)
(* wire, and whether the library can pack it; an OPT record also holds its *)
(* EDNS fields and the codes of its options.  Names are not compressed     *)
(* (nothing sets Compress), so lengths add up.                             *)
(***************************************************************************)
EXTENDS QueryNames

CONSTANTS
    ZoneBytes,      \* length of the zone's name on the wire
    LabelBytes,     \* length of a label: only sums of lengths matter
    RequestId       \* the transaction ID of requests

ASSUME MessagesAssumption == ZoneBytes \in Nat /\ LabelBytes \in Nat /\ RequestId \in Nat

NoError == 0
FormErr == 1
ServFail == 2
NXDomain == 3
Refused == 5
BadVers == 16
MaxRcode == 4095    \* the header's four bits and the eight of an OPT record

NameBytes(labels) == ZoneBytes + LabelBytes * Len(labels)
RR(type, owner, ttl, rdata) ==
    [type |-> type, owner |-> owner, ttl |-> ttl, packs |-> TRUE,
     bytes |-> NameBytes(owner) + 10 + rdata]

SumOf(lengths) == FoldLeft(LAMBDA a, b : a + b, 0, lengths)

\* A TXT record of strings of these lengths; a string is packed only up to 255 bytes.
TXT(owner, ttl, strings) ==
    [RR("TXT", owner, ttl, SumOf(strings) + Len(strings))
        EXCEPT !.packs = \A i \in DOMAIN strings : strings[i] <= 255]

\* SetReply, and the AA bit Handle sets.
Reply(labels) ==
    [id |-> RequestId, rcode |-> NoError, qr |-> TRUE, aa |-> TRUE, tc |-> FALSE,
     compress |-> FALSE, qname |-> labels, answer |-> <<>>, ns |-> <<>>, extra |-> <<>>]

SectionBytes(rrs) == FoldLeft(LAMBDA n, rr : n + rr.bytes, 0, rrs)
Size(m) == 12 + NameBytes(m.qname) + 4
              + SectionBytes(m.answer) + SectionBytes(m.ns) + SectionBytes(m.extra)

(***************************************************************************)
(* EDNS.  IsEdns0 finds the last OPT record, SetEdns0 appends one.         *)
(***************************************************************************)
IsOpt(rr) == rr.type = "OPT"
NotOpt(rr) == ~IsOpt(rr)
HasOpt(m) == \E i \in DOMAIN m.extra : IsOpt(m.extra[i])
OptIndex(m) == SelectLastInSeq(m.extra, IsOpt)
OptOf(m) == m.extra[OptIndex(m)]

SetEdns0(m, udp, do) ==
    [m EXCEPT !.extra = Append(@, [type |-> "OPT", owner |-> <<>>, ttl |-> 0, packs |-> TRUE,
                                   bytes |-> 11, udp |-> udp, do |-> do, codes |-> {}])]
EnsureOpt(m) == IF HasOpt(m) THEN m ELSE SetEdns0(m, 4096, FALSE)
WithOption(rr, code, length) == [rr EXCEPT !.bytes = @ + 4 + length, !.codes = @ \cup {code}]
AddOption(m, code, length) == [m EXCEPT !.extra[OptIndex(m)] = WithOption(@, code, length)]

\* Msg.Pack succeeds: every record packs, and a response code above 15 needs an
\* OPT record to hold its upper eight bits.
Packs(m) ==
    /\ m.rcode \in 0..MaxRcode
    /\ m.rcode > 15 => HasOpt(m)
    /\ \A rrs \in {m.answer, m.ns, m.extra} : \A i \in DOMAIN rrs : rrs[i].packs

(***************************************************************************)
(* truncateToUDPSize drops records from the end of the answer, then of the *)
(* authority, then of the additional section, until the message fits.      *)
(***************************************************************************)
Least(a, b) == IF a < b THEN a ELSE b
DropLast(rrs, n) == SubSeq(rrs, 1, Len(rrs) - n)
Dropped(m, n) ==
    LET a == Least(n, Len(m.answer))
        b == Least(n - a, Len(m.ns))
    IN  [m EXCEPT !.answer = DropLast(@, a), !.ns = DropLast(@, b),
                  !.extra = DropLast(@, n - a - b)]

\* (Variant: the message is marked before its size is tested.)
TruncatedInAdvance(m, maxSize) ==
    LET records == Len(m.answer) + Len(m.ns) + Len(m.extra)
        fits(n) == n = records \/ Size(Dropped(m, n)) <= maxSize
        count   == CHOOSE n \in 0..records : fits(n) /\ \A k \in 0..(n - 1) : ~fits(k)
    IN  IF Packs(m) THEN Dropped([m EXCEPT !.tc = TRUE], count) ELSE m
truncateToUDPSize(m, maxSize) ==
    LET records == Len(m.answer) + Len(m.ns) + Len(m.extra)
        fits(n) == n = records \/ Size(Dropped(m, n)) <= maxSize
        count   == CHOOSE n \in 0..records : fits(n) /\ \A k \in 0..(n - 1) : ~fits(k)
    IN  IF ~Packs(m) \/ Size(m) <= maxSize THEN m
        ELSE Dropped([m EXCEPT !.tc = TRUE], count)
=============================================================================
