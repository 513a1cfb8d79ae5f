----------------------------- MODULE NsecChain -----------------------------
(***************************************************************************)
(* The zone as internal/dnssec/signer.go sees it: a list of names written  *)
(* by hand, sorted in canonical order, and the NSEC records that prove     *)
(* from it that a name, a type or a wildcard does not exist.  The handler  *)
(* has a view of its own (Answers); nothing but the comment "Keep in sync  *)
(* with handler" connects the two.                                         *)
(***************************************************************************)
EXTENDS QueryNames, FiniteSets

Apex == <<>>
BadSignatures == {"sig-fail", "rrsig-expired", "rrsig-future", "rrsig-wrong-alg",
                  "rrsig-wrong-rrset", "rrsig-missing"}
BadDenials == {"nsec-missing", "nsec-wrong-next", "nsec3-instead"}
FailNamed(labels, kind) == labels = <<Plain(kind), Plain("dnssec-failed")>>

\* NewSigner's list: gadgets, hosts, and the test names below them.
\* (Variant: a gadget forgotten.)
ListedLabelsShort ==
    {"addr", "connection", "diag", "help", "counter", "ecs", "edns", "edns-cs", "ip", "myaddr",
     "myconnection", "myip", "myport", "port", "protocol", "www"}
ListedLabels ==
    {"addr", "connection", "diag", "help", "counter", "ecs", "edns", "edns-cs", "ip", "myaddr",
     "myconnection", "myip", "myport", "port", "protocol", "random", "www"}
Unresolvable == <<Plain("unresolvable"), Plain("ns-test")>>
ListedNames ==
    {Apex, Unresolvable, <<Plain("ns1")>> \o Unresolvable, <<Plain("ns2")>> \o Unresolvable}
        \cup {<<Plain(l)>> : l \in ListedLabels}
        \cup {<<Plain(l), Plain("dnssec-failed")>> : l \in BadSignatures \cup BadDenials}
        \cup {<<Plain(l), Plain("txt-test")>> : l \in {"alert", "bobby-tables", "href"}}

-----------------------------------------------------------------------------
(***************************************************************************)
(* Canonical order.  Labels compare by their bytes: '!' and '*' come       *)
(* first, '-' before digits, digits before letters.  A kind that takes a   *)
(* value stands for the prefix of its label, and no label of the list      *)
(* begins with such a prefix.                                              *)
(***************************************************************************)
ByteOrder ==
    <<"", "!", "*", "0", "a", "addr", "alert", "bobby-tables", "connection", "coo", "cookie",
      "counter", "delay", "diag", "dnssec-failed", "ecs", "edns", "edns-cs", "entropy", "fee", "help",
      "href", "ip", "myaddr", "myconnection", "myip", "myport", "nothing", "ns-test", "ns1",
      "ns2", "nsec-missing", "nsec-wrong-next", "nsec3-instead", "other", "port", "protocol",
      "qname-min", "quiz", "random", "rrsig-expired", "rrsig-future", "rrsig-missing",
      "rrsig-wrong-alg", "rrsig-wrong-rrset", "run", "set-answer", "set-answer-txt",
      "set-cookie", "set-delay", "set-ede", "set-flags", "set-id", "set-nocompress",
      "set-noedns", "set-nsid", "set-rcode", "set-ttl", "setednspad", "sig-fail", "size",
      "timestamp", "tok", "ttl", "txt-test", "unresolvable", "www", "zzz">>
Kinds == {ByteOrder[i] : i \in DOMAIN ByteOrder}
Rank == [kind \in Kinds |-> CHOOSE i \in DOMAIN ByteOrder : ByteOrder[i] = kind]
Label == [kind : Kinds \ {""}, arg : Int]

\* The k-th label from the right; a name that has none is padded with "".
LabelFromRight(name, k) == IF k <= Len(name) THEN name[Len(name) + 1 - k] ELSE NoLabel
LabelLess(a, b) == \/ Rank[a.kind] < Rank[b.kind]
                   \/ a.kind = b.kind /\ a.arg < b.arg

dnsCanonicalLess(a, b) ==
    \E k \in 1..(Len(a) + Len(b)) :
        /\ \A j \in 1..(k - 1) : LabelFromRight(a, j) = LabelFromRight(b, j)
        /\ LabelLess(LabelFromRight(a, k), LabelFromRight(b, k))

\* sort.Slice: the i-th name has i - 1 names before it.
existingNames ==
    [i \in 1..Cardinality(ListedNames) |->
        CHOOSE n \in ListedNames : Cardinality({o \in ListedNames : dnsCanonicalLess(o, n)}) = i - 1]

\* The binary search of sort.Search: the first name that is not before this one.
canonicalSearch(name) ==
    CHOOSE i \in 1..(Len(existingNames) + 1) :
        /\ \A j \in 1..(i - 1) : dnsCanonicalLess(existingNames[j], name)
        /\ i <= Len(existingNames) => ~dnsCanonicalLess(existingNames[i], name)

IsListed(name) == name \in ListedNames
NameAt(i) == IF i <= Len(existingNames) THEN existingNames[i] ELSE Apex

\* prevNext: the names around one that is not listed.
Prev(name) == existingNames[canonicalSearch(name) - 1]
NextOrSame(name) == NameAt(canonicalSearch(name))

\* nextForExistingName and nextNameInZoneAfter: the next name, past a listed one.
NextAfter(name) == NameAt(canonicalSearch(name) + IF IsListed(name) THEN 1 ELSE 0)

-----------------------------------------------------------------------------
(***************************************************************************)
(* The records, without their bytes: owner, next name and types.           *)
(***************************************************************************)
\* (Variant: the apex forgot what the delegation needs.)
typesAtNameShort(labels) ==
    CASE labels = Apex -> {"SOA", "RRSIG", "NSEC", "DNSKEY"}
      [] labels # Apex -> {"A", "AAAA", "TXT"}
typesAtName(labels) ==
    CASE labels = Apex -> {"A", "NS", "SOA", "AAAA", "RRSIG", "NSEC", "DNSKEY", "CDS"}
      [] labels # Apex /\ ( \/ labels[1].kind \in {"delay", "ttl", "timestamp", "size"}
                           \/ \E kind \in BadDenials : FailNamed(labels, kind)) -> {"TXT"}
      [] OTHER -> {"A", "AAAA", "TXT"}

Span(owner, next, types) == [owner |-> owner, next |-> next, types |-> types]

\* The record of a name that exists, without the type that was asked for; none if
\* that leaves no type.  The name nsec-wrong-next is to get another next name if
\* its own is the apex.
WrongNext(name) ==
    IF FailNamed(name, "nsec-wrong-next") /\ NextAfter(name) = Apex
    THEN existingNames[2] ELSE NextAfter(name)
SpanAt(name, qtype) ==
    LET types == typesAtName(name) \ {qtype}
    IN  IF types = {} THEN <<>> ELSE <<Span(name, WrongNext(name), types)>>

\* nsecForName.  No name of the zone sorts before its apex, so there is a
\* previous name for every other one.
nsecForName(name, qtype, isNoData) ==
    IF isNoData \/ IsListed(name) THEN SpanAt(name, qtype)
    ELSE <<Span(Prev(name), NextOrSame(name), typesAtName(Prev(name)))>>

\* nsecForWildcard: the wildcard of the zone, whatever name was asked for.
Wildcard == <<Plain("*")>>
\* (Variant: the wildcard's own name as the owner.)
nsecAtWildcard == Span(Wildcard, NextOrSame(Wildcard), {"NSEC", "RRSIG"})
nsecForWildcard == Span(<<Plain("!")>>, NextOrSame(Wildcard), {"NSEC", "RRSIG"})

-----------------------------------------------------------------------------
(***************************************************************************)
(* What an NSEC record says to a validator (RFC 4034, section 4).          *)
(***************************************************************************)
Covers(nsec, name) ==
    /\ dnsCanonicalLess(nsec.owner, name)
    /\ nsec.next = Apex \/ dnsCanonicalLess(name, nsec.next)
IsBelow(name, ancestor) ==
    Len(name) > Len(ancestor) /\ SubSeq(name, Len(name) - Len(ancestor) + 1, Len(name)) = ancestor
IsEmptyNonTerminal(name) == ~IsListed(name) /\ \E n \in ListedNames : IsBelow(n, name)

\* The longest ancestor that exists, as a name or as an empty non-terminal.
ClosestEncloser(name) ==
    LET suffix(k) == SubSeq(name, Len(name) - k + 1, Len(name))
        exists(k) == IsListed(suffix(k)) \/ IsEmptyNonTerminal(suffix(k))
    IN  suffix(CHOOSE k \in 0..(Len(name) - 1) :
            exists(k) /\ \A j \in (k + 1)..(Len(name) - 1) : ~exists(j))
WildcardOf(encloser) == Wildcard \o encloser
=============================================================================
