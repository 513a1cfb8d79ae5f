----------------------------- MODULE DnsHandler ----------------------------
(***************************************************************************)
(* The life of a query, from the listener to the wire: ServeDNS of         *)
(* internal/handler/handler.go for UDP, TCP and DoT, and the two           *)
(* transports that drive the handler themselves, internal/server/doh.go    *)
(* and internal/server/doq.go.  They agree on Handle and on little else:   *)
(* the order of metrics, diagnostics and FinalizeResponse, and whether     *)
(* they happen at all, is the transport's.                                 *)
(*                                                                         *)
(* A handler is a goroutine that answers one query.  The goroutines share  *)
(* the counter, and the recorders, which have modules of their own         *)
(* (DiagStore, EntropyStore, QnameMinStore): here a recorder is what it    *)
(* was told about this query.                                              *)
(***************************************************************************)
EXTENDS Answers, Finalize, FiniteSets

CONSTANTS
    Handlers,           \* goroutines, one per query
    Queries,            \* the queries each of them may get
    SequenceLengths     \* how many names a qname-min answer may list

ServeDNSTransports == {"UDP", "TCP", "DoT"}

\* What the listeners hand over: names of at most 255 bytes, with labels that have a place
\* in the canonical order, and the EDNS fields of the request.
IsQuery(q) ==
    /\ DOMAIN q = {"asked", "zone", "class", "labels", "qtype", "edns", "transport", "client"}
    /\ q.transport \in ServeDNSTransports \cup {"DoH", "DoQ"}
    /\ q.labels \in Seq(Label) /\ NameBytes(q.labels) <= 255
    /\ q.edns.present \in BOOLEAN /\ q.edns.do \in BOOLEAN /\ q.edns.udp \in Nat
ASSUME HandlerAssumption ==
    /\ \A h \in Handlers : \A q \in Queries[h] : IsQuery(q)
    /\ SequenceLengths \subseteq Nat

VARIABLES
    pc,         \* what the goroutine does next
    query,      \* its query
    reply,      \* the message it is building
    handled,    \* history: the message as Handle returned it
    captured,   \* the response RecordDiag was given
    related,    \* the response RecordRelatedIfInSession was given
    metered,    \* the response code the metrics were given
    sent,       \* the message written to the client
    counter,    \* h.counter
    ticket      \* the number a counter reply shows, 0 if it shows none

vars == <<pc, query, reply, handled, captured, related, metered, sent, counter, ticket>>

NoQuery == [none |-> TRUE]
NoMsg == [none |-> TRUE]
NotMetered == -1

Init ==
    /\ pc       = [h \in Handlers |-> "idle"]
    /\ query    = [h \in Handlers |-> NoQuery]
    /\ reply    = [h \in Handlers |-> NoMsg]
    /\ handled  = [h \in Handlers |-> NoMsg]
    /\ captured = [h \in Handlers |-> NoMsg]
    /\ related  = [h \in Handlers |-> NoMsg]
    /\ metered  = [h \in Handlers |-> NotMetered]
    /\ sent     = [h \in Handlers |-> NoMsg]
    /\ counter  = 0
    /\ ticket   = [h \in Handlers |-> 0]

-----------------------------------------------------------------------------
Receive(h) ==
    /\ pc[h] = "idle"
    /\ \E q \in Queries[h] : query' = [query EXCEPT ![h] = q]
    /\ pc' = [pc EXCEPT ![h] = "handle"]
    /\ UNCHANGED <<reply, handled, captured, related, metered, sent, counter, ticket>>

\* Handle goes on to the zone: no early return for BADVERS, FORMERR, CH or REFUSED.
ReachesZone(q) ==
    /\ q.asked /\ q.class # "CH" /\ q.zone = "in"
    /\ ~(q.edns.present /\ q.edns.version # 0)
IsCounted(q) ==
    ReachesZone(q) /\ q.qtype = "TXT" /\ Parsed(q.labels).gadget = Plain("counter")

\* h.counter.Add(1), whose result is the number shown.
\* (Variant: the number is loaded after the increment, and another handler's
\* increment may come between.)
CountThenLoad(h) ==
    /\ counter' = counter + 1
    /\ \E n \in {counter + 1, counter + 2} : ticket' = [ticket EXCEPT ![h] = n]
Count(h) ==
    /\ counter' = counter + 1
    /\ ticket' = [ticket EXCEPT ![h] = counter + 1]

AfterHandle(transport) ==
    CASE transport \in ServeDNSTransports -> "meter"
      [] transport = "DoH"                -> "finalize"
      [] transport = "DoQ"                -> "write"

\* What a query for a token's name shows the dashboard: the signed reply.
Capture(q, m) == m

HandleQuery(h) ==
    /\ pc[h] = "handle"
    /\ LET q == query[h]
       IN  /\ \E seen \in (IF IsIn(q.labels, "qname-min") THEN SequenceLengths ELSE {0}) :
                 LET m == Handle(q, seen)
                 IN  /\ reply' = [reply EXCEPT ![h] = m]
                     /\ handled' = [handled EXCEPT ![h] = m]
                     /\ captured' = IF ReachesZone(q) /\ IsUnder(q.labels, "diag")
                                    THEN [captured EXCEPT ![h] = Capture(q, m)]
                                    ELSE captured
           /\ IF IsCounted(q) THEN Count(h) ELSE UNCHANGED <<counter, ticket>>
           /\ pc' = [pc EXCEPT ![h] = AfterHandle(q.transport)]
    /\ UNCHANGED <<query, related, metered, sent>>

\* RecordDNS: ServeDNS counts the reply as Handle left it, DoH as it is sent.
Meter(h) ==
    /\ pc[h] = "meter"
    /\ metered' = [metered EXCEPT ![h] = reply[h].rcode]
    /\ pc' = [pc EXCEPT ![h] = IF query[h].transport = "DoH" THEN "write" ELSE "relate"]
    /\ UNCHANGED <<query, reply, handled, captured, related, sent, counter, ticket>>

\* RecordRelatedIfInSession is told of successful replies for names of the zone
\* outside diag, whatever the class.
IsRelated(q, m) ==
    /\ q.asked /\ q.zone = "in" /\ m.rcode = NoError
    /\ ~IsIn(q.labels, "diag")

Relate(h) ==
    /\ pc[h] = "relate"
    /\ related' = IF IsRelated(query[h], reply[h])
                  THEN [related EXCEPT ![h] = reply[h]] ELSE related
    /\ pc' = [pc EXCEPT ![h] = "finalize"]
    /\ UNCHANGED <<query, reply, handled, captured, metered, sent, counter, ticket>>

FinalizeReply(h) ==
    /\ pc[h] = "finalize"
    /\ reply' = [reply EXCEPT ![h] = FinalizeResponse(query[h], @, HostnameBytes)]
    /\ pc' = [pc EXCEPT ![h] = IF query[h].transport = "DoH" THEN "meter" ELSE "write"]
    /\ UNCHANGED <<query, handled, captured, related, metered, sent, counter, ticket>>

\* A message that does not pack is not sent: WriteMsg's error is ignored, DoQ
\* closes the stream, DoH answers with an HTTP error.
Write(h) ==
    /\ pc[h] = "write"
    /\ sent' = IF Packs(reply[h]) THEN [sent EXCEPT ![h] = reply[h]] ELSE sent
    /\ pc' = [pc EXCEPT ![h] = "done"]
    /\ UNCHANGED <<query, reply, handled, captured, related, metered, counter, ticket>>

Next ==
    \E h \in Handlers :
        Receive(h) \/ HandleQuery(h) \/ Meter(h) \/ Relate(h) \/ FinalizeReply(h) \/ Write(h)

Spec == Init /\ [][Next]_vars

-----------------------------------------------------------------------------
(***************************************************************************)
(* Properties the code keeps.                                              *)
(***************************************************************************)
Answered(h) == pc[h] = "done" /\ sent[h] # NoMsg
IsFinalized(q) == q.transport # "DoQ"
Asks(q, kind) == HasOption(OptionsOf(q), kind)
AsksValidly(q, kind) == ValidOptions(OptionsOf(q), kind) # <<>>
IsSized(q) == ReachesZone(q) /\ q.qtype = "TXT" /\ Parsed(q.labels).gadget.kind = "size"
Opts(m) == Only(m.extra, IsOpt)
\* The records Handle or set-answer gave, before anything is dropped.
Given(h) == applySetAnswer(handled[h], OptionsOf(query[h]), query[h].labels, query[h].qtype)
HasFewer(m, given) == Len(m.answer) < Len(given.answer) \/ Len(m.ns) < Len(given.ns)

\* The dashboard's help: "set-noedns always wins".  Whatever other options, the
\* client's EDNS or the gadget would add, the reply has no OPT record, fits 512
\* bytes, and says TC if that cost it records.
NoEdnsWins ==
    \A h \in Handlers : LET q == query[h] IN
        Answered(h) /\ IsFinalized(q) /\ Asks(q, "set-noedns") =>
            /\ ~HasOpt(sent[h])
            /\ Size(sent[h]) <= 512
            /\ HasFewer(sent[h], Given(h)) => sent[h].tc

Capped(udp) == IF udp \in 1..4096 THEN udp ELSE 4096

\* A finalized reply mirrors the request's EDNS: exactly one OPT record with the
\* request's DO bit, a UDP size of at most 4096, and an NSID exactly if the
\* client or the name asked for one.  size-N, whose Handle adds an OPT of its
\* own, is the exception.
EdnsMirrored ==
    \A h \in Handlers : LET q == query[h] IN
        /\ Answered(h) /\ IsFinalized(q) /\ q.asked /\ q.edns.present
        /\ ~Asks(q, "set-noedns") /\ ~IsSized(q)
        /\ BadVers \notin {handled[h].rcode, sent[h].rcode}
        => /\ Len(Opts(sent[h])) = 1
           /\ OptOf(sent[h]).do = q.edns.do
           /\ OptOf(sent[h]).udp = Capped(q.edns.udp)
           /\ "NSID" \in OptOf(sent[h]).codes <=> q.edns.nsid \/ AsksValidly(q, "set-nsid")

\* The dashboard's help: set-ttl-N sets "the TTL of all response RRs (Answer and
\* Authority)", those set-answer and the signer added included.
TtlsAsAsked ==
    \A h \in Handlers : LET q == query[h] ttls == ValidOptions(OptionsOf(q), "set-ttl") IN
        Answered(h) /\ IsFinalized(q) /\ ttls # <<>> =>
            \A rrs \in {sent[h].answer, sent[h].ns} : \A i \in DOMAIN rrs :
                rrs[i].ttl = Last(ttls).arg

\* A query is left without a reply only if its name asked for a response code
\* that does not fit the header, if it is a signed sig-fail reply, or if a text of it
\* is too long for a string, a qname-min list or the configured hostname: no other
\* combination of options makes a message the library cannot pack.
UnansweredOnlyIf ==
    \A h \in Handlers : LET q == query[h] IN
        pc[h] = "done" /\ sent[h] = NoMsg =>
            \/ reply[h].rcode \notin 0..MaxRcode
            \/ reply[h].rcode > 15 /\ ~HasOpt(reply[h])
            \/ IsIn(q.labels, "qname-min") /\ q.qtype = "TXT"
            \/ q.zone = "hostname.bind" /\ HostnameBytes > 255
            \/ FailNamed(q.labels, "sig-fail") /\ wantDNSSEC(q)

\* size-N is "approximately N bytes": at most one more, as long as nothing is
\* added to it, the name, which is in the reply twice, leaves room, and it is not the
\* name of a nameserver, whose addresses Handle answers first.
SizedAsAsked ==
    \A h \in Handlers : LET q == query[h] gadget == Parsed(q.labels).gadget IN
        /\ handled[h] # NoMsg /\ IsSized(q) /\ ~wantDNSSEC(q) /\ q.labels \notin Nameservers
        /\ gadget.arg \in ValidArgs("size") /\ 2 * NameBytes(q.labels) + 46 <= gadget.arg
        => Size(handled[h]) \in {gadget.arg, gadget.arg + 1}

\* setednspad-N pads "so the wire size is at least N bytes": up to the four bytes
\* of a header that no byte of padding would follow, and exactly N if padding was
\* added and no NSID came after it.
PaddedAsAsked ==
    \A h \in Handlers : LET q == query[h] pads == ValidOptions(OptionsOf(q), "setednspad") IN
        Answered(h) /\ IsFinalized(q) /\ pads # <<>> /\ ~Asks(q, "set-noedns") =>
            /\ Size(sent[h]) >= Last(pads).arg - 4
            /\ "PADDING" \in OptOf(sent[h]).codes /\ ~q.edns.nsid =>
                  Size(sent[h]) = Last(pads).arg

\* TC is set only where the client is to retry: records were dropped, the apex's
\* keys are asked for with a small buffer (on TCP and in replies that would fit,
\* too), or set-flags asks for the bit.
TruncatedOnlyIf ==
    \A h \in Handlers : LET q == query[h] m == sent[h] IN
        Answered(h) /\ m.tc =>
            \/ IsApexDnskey(q) /\ (~q.edns.present \/ handled[h].rcode = BadVers \/ UdpSize(q.edns) <= 512)
            \/ AsksValidly(q, "set-flags") /\ Bit(Last(ValidOptions(OptionsOf(q), "set-flags")).arg, 9)
            \/ Asks(q, "set-noedns") /\ Size(m) <= 512 /\ HasFewer(m, Given(h))

\* Concurrent counter replies show each number once and leave none out.
CounterIsExact ==
    /\ {ticket[h] : h \in Handlers} \ {0} = 1..counter
    /\ \A g, h \in Handlers : g # h /\ ticket[g] # 0 => ticket[g] # ticket[h]

-----------------------------------------------------------------------------
(***************************************************************************)
(* Properties of the denials: what a validator may conclude from them.     *)
(***************************************************************************)
IsNegative(m) == m.rcode = NXDomain \/ (m.rcode = NoError /\ m.answer = <<>>)
SignedIn(rrs, type) ==
    \A i \in DOMAIN rrs : rrs[i].type = type =>
        \E j \in DOMAIN rrs : rrs[j].type = "RRSIG" /\ rrs[j].owner = rrs[i].owner
IsSignedDenial(h) ==
    /\ pc[h] = "done" /\ ReachesZone(query[h]) /\ HasSigner /\ wantDNSSEC(query[h])
    /\ IsNegative(handled[h])
NsecsIn(m) == {m.ns[i] : i \in {i \in DOMAIN m.ns : m.ns[i].type = "NSEC"}}

\* RFC 2308 and RFC 4035, as the comments of Handle and SignResponse cite them: a
\* negative answer of the zone has the SOA and, for a client that wants DNSSEC, a
\* signature for it and a signed NSEC.  Not for the names that are to fail,
\* referrals, a DNSKEY query without a signer, and names that the signer believes
\* to have no other type (delay-5.entropy is one: handler and signer disagree).
HasProof(q, m) ==
    /\ m.ns # <<>> /\ m.ns[1].type = "SOA"
    /\ HasSigner /\ wantDNSSEC(q) =>
          NsecsIn(m) # {} /\ SignedIn(m.ns, "SOA") /\ SignedIn(m.ns, "NSEC")
ToBeProven(q) ==
    /\ ~IsIn(q.labels, "ns-test") /\ ~IsIn(q.labels, "dnssec-failed")
    /\ ~IsApexDnskey(q) /\ typesAtName(q.labels) # {q.qtype}

\* RFC 4035, section 3.1.3.2: the proof of a signed NXDOMAIN says that the name does
\* not exist, not even as an empty non-terminal, and that no wildcard could answer.
\* Three kinds of names lack a part of it: names the signer lists and the handler
\* denies, names between listed ones and the apex (the proof says they exist, and
\* have no records), and names whose closest encloser is not the apex, because only
\* the wildcard of the zone is denied.
DenialProven ==
    \A h \in Handlers : LET q == query[h] m == handled[h] IN
        /\ m # NoMsg /\ ReachesZone(q) /\ IsNegative(m) /\ ToBeProven(q) => HasProof(q, m)
        /\ IsSignedDenial(h) /\ m.rcode = NXDomain =>
            /\ IsListed(q.labels) \/ \E n \in NsecsIn(m) : Covers(n, q.labels)
            /\ IsEmptyNonTerminal(q.labels) \/
                  \A n \in NsecsIn(m) : Covers(n, q.labels) => ~IsBelow(n.next, q.labels)
            /\ ClosestEncloser(q.labels) # Apex \/
                  \E n \in NsecsIn(m) : Covers(n, WildcardOf(Apex))

\* "Keep in sync with handler": a validator that caches the denials it was sent,
\* of names or of types, would refuse to ask for a name they cover.  That hits no name the
\* handler answers, but for the gadget cookie, the entropy and qname-min apexes and
\* the nameservers, which the list lacks, and names that carry a value or a token.
FixedNames ==
    {<<Plain(g)>> : g \in (Gadgets \cup Families)
                          \ {"delay", "ttl", "timestamp", "size", "dnssec-failed", "txt-test", "ns-test"}}
        \cup {<<Plain(f), Plain("dnssec-failed")>> : f \in BadSignatures \cup BadDenials}
        \cup TxtTests \cup Nameservers
Unlisted == {<<Plain(l)>> : l \in {"cookie", "entropy", "qname-min"}} \cup Nameservers
DeniesOnlyTheMissing ==
    \A h \in Handlers : IsSignedDenial(h) =>
        \A n \in NsecsIn(handled[h]) : \A name \in FixedNames : Covers(n, name) => name \in Unlisted

\* The types of a NODATA proof include every other type the handler answers at the
\* name.  The signer reads the kind of name from its first label, the handler from
\* its last: where they differ (delay-5.entropy, a nameserver called delay-5) the proof
\* denies what is there.
AnsweredTypes(q) ==
    {t \in {"A", "AAAA", "TXT", "SOA", "NS", "CDS"} \ {q.qtype} :
        ZoneReply([q EXCEPT !.qtype = t], Reply(q.labels), 1).answer # <<>>}
BitmapAdmitsAnswers ==
    \A h \in Handlers : LET q == query[h] m == handled[h] IN
        /\ IsSignedDenial(h) /\ m.rcode = NoError
        /\ q.labels # Apex /\ q.labels[1].kind \in {"delay", "ttl", "timestamp", "size"} =>
               Parsed(q.labels).gadget = q.labels[1] /\ q.labels \notin Nameservers
        => \A n \in NsecsIn(m) : AnsweredTypes(q) \subseteq n.types

-----------------------------------------------------------------------------
(***************************************************************************)
(* A statement of the dashboard's help that the code does not keep.        *)
(***************************************************************************)
\* The help on nsec-wrong-next: "NSEC with wrong NextDomain (chain broken)".  A
\* signed reply for the name has an NSEC record whose next name is not the one that
\* follows.
WrongNextSent ==
    \A h \in Handlers : LET q == query[h] IN
        /\ Answered(h) /\ FailNamed(q.labels, "nsec-wrong-next") /\ wantDNSSEC(q)
        => \A n \in NsecsIn(sent[h]) : n.next # NextAfter(n.owner)
=============================================================================
