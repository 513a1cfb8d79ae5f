------------------------------ MODULE Answers ------------------------------
(***************************************************************************)
(* Handle of internal/handler/handler.go: the reply to a query, before     *)
(* FinalizeResponse, and the DNSSEC records SignResponse of                *)
(* internal/dnssec/signer.go adds to it.  The contents of records (client  *)
(* addresses, random strings, signatures) are left out; which records      *)
(* there are, their TTLs and their lengths are not.                        *)
(***************************************************************************)
EXTENDS Messages, NsecChain

CONSTANTS
    HasSigner,      \* Config.Signer is set
    PublishCDS,     \* Config.PublishCDS
    Nameservers,    \* Config.NSRecords that are under the zone: names with A/AAAA
    IPv4s, IPv6s,   \* how many of Config.ServerIPs are of each family
    HostnameBytes   \* length of Config.Hostname

\* The last labels with a meaning of their own.
Families == {"www", "diag", "help", "txt-test", "ns-test", "entropy", "qname-min", "dnssec-failed"}

ASSUME AnswersAssumption ==
    /\ HasSigner \in BOOLEAN /\ PublishCDS \in BOOLEAN
    /\ IsFiniteSet(Nameservers)
    /\ \A name \in Nameservers : /\ name # <<>> /\ Last(name).kind \notin Families
                                 /\ Len(name) \in Nat
    /\ IPv4s \in Nat /\ IPv6s \in Nat
    /\ HostnameBytes \in Nat          \* the domain's name, or any configured text

SoaBytes == 2 * ZoneBytes + 31
SigBytes == 82 + ZoneBytes
NsecTypeBytes == 9
Nsec3Bytes == 10
KeyBytes == 68

SOA(ttl) == RR("SOA", Apex, ttl, SoaBytes)

-----------------------------------------------------------------------------
(***************************************************************************)
(* Building blocks of replies.                                             *)
(***************************************************************************)
setNodataSOA(m) == [m EXCEPT !.rcode = NoError, !.ns = <<SOA(0)>>]
NameError(m) == [m EXCEPT !.rcode = NXDomain, !.ns = <<SOA(0)>>]
Answering(m, rr) == [m EXCEPT !.answer = Append(@, rr)]
appendTXT(m, ttl, strings) == Answering(m, TXT(m.qname, ttl, strings))

Copies(rr, n) == [i \in 1..n |-> rr]
addAaaaFromIPs(m, qtype) ==
    [m EXCEPT !.answer = @ \o
        CASE qtype = "A"    -> Copies(RR("A", m.qname, 0, 4), IPv4s)
          [] qtype = "AAAA" -> Copies(RR("AAAA", m.qname, 0, 16), IPv6s)
          [] OTHER          -> <<>>]

OrNodata(m) == IF m.answer = <<>> THEN setNodataSOA(m) ELSE m

\* The names with fixed content: a text, the server's addresses, or both.
Hosted(m, qtype, types, ttl, length) ==
    OrNodata(CASE qtype \in types /\ qtype = "TXT" -> appendTXT(m, ttl, <<length>>)
               [] qtype \in types /\ qtype # "TXT" -> addAaaaFromIPs(m, qtype)
               [] qtype \notin types                -> m)

-----------------------------------------------------------------------------
(***************************************************************************)
(* handleApex.  A DNSKEY answer is left to the signer.                     *)
(***************************************************************************)
NsRecords ==
    LET names == IF Nameservers = {} THEN <<Apex>> ELSE SetToSeq(Nameservers)
    IN  [i \in DOMAIN names |-> RR("NS", Apex, 0, NameBytes(names[i]))]

handleApex(q, m) ==
    CASE q.qtype = "SOA" -> Answering(m, SOA(0))
      [] q.qtype = "NS" -> [m EXCEPT !.answer = NsRecords]
      [] q.qtype = "CDS" /\ PublishCDS /\ HasSigner -> Answering(m, RR("CDS", Apex, 0, 36))
      [] q.qtype = "DNSKEY" -> m
      [] q.qtype \notin {"SOA", "NS", "DNSKEY"} /\ ~(q.qtype = "CDS" /\ PublishCDS /\ HasSigner) ->
            OrNodata(addAaaaFromIPs(m, q.qtype))

(***************************************************************************)
(* handleDnssecFailed.  The kind of failure is the first label of the      *)
(* whole name.                                                             *)
(***************************************************************************)
dnssecFailedExists(q) == q.labels[1].kind \in BadSignatures \cup BadDenials
handleDnssecFailed(q, m) ==
    CASE q.labels[1].kind \in BadSignatures /\ q.qtype = "A" ->
            Answering(m, RR("A", m.qname, 0, 4))
      [] q.labels[1].kind \in BadSignatures /\ q.qtype = "TXT" -> appendTXT(m, 0, <<16>>)
      [] OTHER -> setNodataSOA(m)

(***************************************************************************)
(* handleGadget.                                                           *)
(***************************************************************************)
TxtGadgets == {"myport", "port", "myaddr", "addr", "connection", "myconnection", "counter",
               "edns", "edns-cs", "ecs", "cookie", "protocol", "ttl", "timestamp", "delay",
               "size"}
Gadgets == TxtGadgets \cup {"myip", "ip", "random", "dnssec-failed"}

GadgetExists(g, q) ==
    /\ g.kind \in Gadgets
    /\ g.arg \in ValidArgs(g.kind)
    /\ g.kind = "dnssec-failed" => dnssecFailedExists(q)

GadgetTtl(g) == IF g.kind \in {"ttl", "timestamp"} THEN g.arg ELSE 0

\* The loop of size-N: strings of at most 255 bytes, each with its length byte,
\* are added until the packed message has n bytes.
\* (Variant: an if where the loop was, so one string at most is added.)
SizedOnce(len, n) == IF len >= n THEN len ELSE len + 1 + Least(n - len, 255)
SizedTo(len, n) ==
    LET grown[l \in 0..(n + 1)] == IF l >= n THEN l ELSE grown[l + 1 + Least(n - l, 255)]
    IN  IF len >= n THEN len ELSE grown[len]

sizeReply(m, n) ==
    LET start == appendTXT(EnsureOpt(m), 0, <<8>>)
    IN  [start EXCEPT !.answer[1].bytes = @ + SizedTo(Size(start), n) - Size(start)]

\* The requested family in the answer, the other one in the additional section.
myipReply(q, m) ==
    LET a(type) == RR(type, m.qname, 0, IF type = "A" THEN 4 ELSE 16)
    IN  CASE q.client = "unparsable" -> [m EXCEPT !.rcode = ServFail]
          [] q.client # "unparsable" /\ q.qtype = "TXT"  -> appendTXT(m, 0, <<9>>)
          [] q.client # "unparsable" /\ q.qtype = "A"    ->
                [Answering(m, a("A")) EXCEPT !.extra = <<a("AAAA")>>]
          [] q.client # "unparsable" /\ q.qtype = "AAAA" ->
                [Answering(m, a("AAAA")) EXCEPT !.extra = <<a("A")>>]
          [] OTHER -> setNodataSOA(m)

randomReply(q, m) ==
    CASE q.qtype = "A"    -> Answering(m, RR("A", m.qname, 0, 4))
      [] q.qtype = "AAAA" -> Answering(m, RR("AAAA", m.qname, 0, 16))
      [] q.qtype = "TXT"  -> appendTXT(m, 0, <<16>>)
      [] OTHER            -> setNodataSOA(m)

handleGadget(g, q, m) ==
    CASE g.kind \in {"myip", "ip"} -> myipReply(q, m)
      [] g.kind = "random"         -> randomReply(q, m)
      [] g.kind = "dnssec-failed"  -> handleDnssecFailed(q, m)
      [] g.kind \in TxtGadgets /\ q.qtype # "TXT" -> setNodataSOA(m)
      [] g.kind = "size" /\ q.qtype = "TXT"       -> sizeReply(m, g.arg)
      [] g.kind \in TxtGadgets \ {"size"} /\ q.qtype = "TXT" ->
            appendTXT(m, GadgetTtl(g), <<16>>)

GadgetOrNameError(g, q, m) ==
    IF GadgetExists(g, q) THEN handleGadget(g, q, m) ELSE NameError(m)

\* A name of set-options only: each must be valid.
setOptionsOnly(options, m) ==
    IF \A i \in DOMAIN options : isValidSetOption(options[i])
    THEN setNodataSOA(m) ELSE NameError(m)

-----------------------------------------------------------------------------
(***************************************************************************)
(* Handle: what the zone answers, by the family of the name.               *)
(***************************************************************************)
TxtTests == {<<Plain(t), Plain("txt-test")>> : t \in {"alert", "href", "bobby-tables"}}
IsIn(labels, kind) == labels # <<>> /\ Last(labels) = Plain(kind)

\* seen names are in the sequence a qname-min answer lists, itself included.
SequenceBytes(seen, m) == 37 + seen * (5 + NameBytes(m.qname))
qnameMinReply(q, m, seen) ==
    IF q.qtype # "TXT" THEN setNodataSOA(m)
    ELSE appendTXT(m, 0, <<16 + NameBytes(m.qname)>> \o
                         (IF seen = 0 THEN <<>> ELSE <<SequenceBytes(seen, m)>>))

referral(m) ==
    [m EXCEPT !.ns = Copies(RR("NS", m.qname, 60, NameBytes(m.qname) + LabelBytes), 2)]

TopLevelReply(q, m) ==
    LET parsed == parseTopLevel(q.labels)
    IN  IF parsed.gadget = NoLabel THEN setOptionsOnly(parsed.setOptions, m)
        ELSE GadgetOrNameError(parsed.gadget, q, m)

DiagReply(q, m) ==
    LET gadget == parseDiag(q.labels).gadget
    IN  IF gadget = NoLabel THEN Hosted(m, q.qtype, {"TXT", "A", "AAAA"}, 0, 60)
        ELSE GadgetOrNameError(gadget, q, m)

ZoneReply(q, m, seen) ==
    CASE q.labels = Apex -> handleApex(q, m)
      [] q.labels = <<Plain("www")>> -> Hosted(m, q.qtype, {"A", "AAAA"}, 0, 0)
      [] q.labels = <<Plain("diag")>> -> Hosted(m, q.qtype, {"TXT", "A", "AAAA"}, 0, 60)
      [] IsUnder(q.labels, "diag") -> DiagReply(q, m)
      [] q.labels = <<Plain("help")>> -> Hosted(m, q.qtype, {"TXT"}, 3600, 30)
      [] q.labels \in TxtTests -> Hosted(m, q.qtype, {"TXT"}, 0, 20)
      [] q.labels = Unresolvable -> referral(m)
      [] IsIn(q.labels, "entropy") -> Hosted(m, q.qtype, {"A", "AAAA"}, 0, 0)
      [] q.labels \in Nameservers -> Hosted(m, q.qtype, {"A", "AAAA"}, 0, 0)
      [] IsIn(q.labels, "qname-min") -> qnameMinReply(q, m, seen)
      [] IsIn(q.labels, "dnssec-failed") ->
            IF dnssecFailedExists(q) THEN handleDnssecFailed(q, m) ELSE NameError(m)
      [] OTHER -> TopLevelReply(q, m)

-----------------------------------------------------------------------------
(***************************************************************************)
(* SignResponse: signatures for both sections, then the denial.            *)
(***************************************************************************)
DnssecTypes == {"RRSIG", "NSEC", "NSEC3", "DNSKEY", "DS"}
wantDNSSEC(q) == (q.edns.present /\ q.edns.do) \/ q.qtype \in DnssecTypes

Keys == Copies(RR("DNSKEY", Apex, 3600, KeyBytes), 2)

\* A signature has the owner of what was signed.  For rrsig-wrong-rrset that is a SOA
\* set of the apex, whose name the library's Sign puts in the place of the set's own.
SignedOwner(set) == IF FailNamed(set.owner, "rrsig-wrong-rrset") THEN Apex ELSE set.owner

\* The corrupted signature of sig-fail is no longer base64 and does not pack.
\* (Variant: the signatures of every failure are corrupted.)
RrsigOfAnyFailure(set) ==
    [RR("RRSIG", SignedOwner(set), set.ttl, SigBytes)
        EXCEPT !.packs = ~(set.owner # Apex /\ Last(set.owner) = Plain("dnssec-failed"))]
Rrsig(set) ==
    [RR("RRSIG", SignedOwner(set), set.ttl, SigBytes)
        EXCEPT !.packs = ~(FailNamed(set.owner, "sig-fail") /\ set.type # "NSEC")]
SameSet(a, b) == a.owner = b.owner /\ a.type = b.type

\* The signatures that follow the last record of a set.
SignaturesOf(rr) ==
    CASE FailNamed(rr.owner, "rrsig-missing") -> <<>>
      [] rr.type = "DNSKEY"                   -> Copies(Rrsig(rr), 2)
      [] OTHER                                -> <<Rrsig(rr)>>
signSection(rrs) ==
    FlattenSeq([i \in DOMAIN rrs |->
        <<rrs[i]>> \o (IF i < Len(rrs) /\ SameSet(rrs[i], rrs[i + 1])
                       THEN <<>> ELSE SignaturesOf(rrs[i]))])

WithKeys(q, m) ==
    CASE q.labels = Apex /\ q.qtype = "DNSKEY" -> [m EXCEPT !.answer = @ \o Keys]
      [] q.labels = Apex /\ q.qtype # "DNSKEY" /\ m.ns # <<>> -> [m EXCEPT !.ns = @ \o Keys]
      [] OTHER -> m

isNoData(m) == m.rcode = NoError /\ m.answer = <<>> /\ m.ns # <<>> /\ m.ns[1].type = "SOA"

NSEC(span) ==
    [type |-> "NSEC", owner |-> span.owner, ttl |-> 300, packs |-> TRUE,
     next |-> span.next, types |-> span.types,
     bytes |-> NameBytes(span.owner) + 10 + NameBytes(span.next) + NsecTypeBytes]
NsecsOf(q, m) ==
    LET spans == nsecForName(q.labels, q.qtype, isNoData(m)) \o
                 (IF m.rcode = NXDomain THEN <<nsecForWildcard>> ELSE <<>>)
    IN  [i \in DOMAIN spans |-> NSEC(spans[i])]

Denial(q, m) ==
    LET nsecs == NsecsOf(q, m)
    IN  CASE ~(m.rcode = NXDomain \/ isNoData(m)) -> <<>>
          [] FailNamed(q.labels, "nsec-missing")  -> <<>>
          [] FailNamed(q.labels, "nsec3-instead") -> <<RR("NSEC3", <<Plain("0")>>, 300, Nsec3Bytes)>>
          [] OTHER -> nsecs \o [i \in DOMAIN nsecs |-> Rrsig(nsecs[i])]

SignResponse(q, m) ==
    IF ~HasSigner \/ ~wantDNSSEC(q) THEN m
    ELSE LET keyed == WithKeys(q, m)
         IN  [keyed EXCEPT !.answer = signSection(@),
                           !.ns = signSection(@) \o Denial(q, m)]

-----------------------------------------------------------------------------
\* CH class: hostname.bind and version.bind have TXT records, nothing else exists.
Chaos(q, m) ==
    CASE q.zone = "hostname.bind" /\ q.qtype = "TXT" -> appendTXT(m, 0, <<HostnameBytes>>)
      [] q.zone = "version.bind" /\ q.qtype = "TXT"  -> appendTXT(m, 0, <<24, 51>>)
      [] OTHER -> m

Handle(q, seen) ==
    LET m == Reply(q.labels)
    IN  IF q.edns.present /\ q.edns.version # 0
        THEN SetEdns0([m EXCEPT !.rcode = BadVers], 4096, FALSE)
        ELSE IF ~q.asked THEN [m EXCEPT !.rcode = FormErr]
        ELSE IF q.class = "CH" THEN Chaos(q, m)
        ELSE IF q.zone # "in" THEN [m EXCEPT !.rcode = Refused]
        ELSE SignResponse(q, ZoneReply(q, m, seen))
=============================================================================
