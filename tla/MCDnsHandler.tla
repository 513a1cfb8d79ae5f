---------------------------- MODULE MCDnsHandler ---------------------------
(***************************************************************************)
(* Instances of DnsHandler for TLC: the queries of each run.  The matrix   *)
(* crosses one name per branch of Handle, and one option stack per branch  *)
(* and pair of interacting branches of FinalizeResponse, with query types, *)
(* EDNS variants and transports.                                           *)
(***************************************************************************)
EXTENDS DnsHandler

CONSTANTS h1, h2

N(kind) == Plain(kind)
Tok == N("tok")
Diag == N("diag")

NoEdns == [present |-> FALSE, version |-> 0, udp |-> 0, do |-> FALSE, nsid |-> FALSE]
Edns(version, udp, do, nsid) ==
    [present |-> TRUE, version |-> version, udp |-> udp, do |-> do, nsid |-> nsid]

Query(labels, qtype, edns, transport) ==
    [asked |-> TRUE, zone |-> "in", class |-> "IN", labels |-> labels, qtype |-> qtype,
     edns |-> edns, transport |-> transport, client |-> "v4"]

OneNs == {<<N("ns1")>>}

-----------------------------------------------------------------------------
HostNames ==
    {<<>>, <<N("www")>>, <<Diag>>, <<Tok, Diag>>, <<N("help")>>, <<N("ns1")>>,
     <<N("alert"), N("txt-test")>>, <<N("unresolvable"), N("ns-test")>>,
     <<N("entropy")>>, <<With("run", 3), N("entropy")>>, <<With("delay", 5), N("entropy")>>,
     <<N("qname-min")>>, <<N("a"), N("qname-min")>>}
GadgetNames ==
    {<<N("counter")>>, <<N("myip")>>, <<N("random")>>, <<N("cookie")>>,
     <<N("a"), N("counter")>>, <<N("counter"), Tok, Diag>>, <<N("nothing")>>,
     <<N("nothing"), Tok, Diag>>, <<With("size", 600)>>, <<With("size", 128)>>,
     <<With("size", 4096)>>, [i \in 1..9 |-> IF i = 9 THEN With("size", 256) ELSE N("a")], <<With("size", Bad)>>, <<With("ttl", 60)>>,
     <<With("ttl", 86401)>>, <<With("delay", 5)>>,
     <<With("size", 700), Tok, Diag>>}
FailNames ==
    {<<N(kind), N("dnssec-failed")>> : kind \in BadSignatures \cup BadDenials \cup {"other"}}
        \cup {<<N("dnssec-failed")>>, <<N("sig-fail"), N("dnssec-failed"), Tok, Diag>>}

\* Set-options, alone, stacked, out of range, before a gadget and under a token.
OptionNames ==
    {<<With("set-ttl", 60)>>, <<With("set-ttl", Bad)>>,
     <<With("set-ttl", 60), Diag>>,
     <<With("set-ttl", 5), With("set-ttl", 60), N("counter")>>,
     <<With("set-ttl", 60), With("set-answer", 0), N("www")>>,
     <<With("set-ttl", 60), With("set-answer-txt", 5), With("set-answer-txt", 40), Tok, Diag>>,
     <<With("set-cookie", 8), N("counter")>>, <<With("set-cookie", Bad), N("counter")>>,
     <<With("set-ede", 2), With("set-nsid", 3), N("myip")>>,
     <<With("set-rcode", 3), With("set-id", 9), Tok, Diag>>,
     <<With("set-rcode", 23), N("counter")>>,
     <<With("set-rcode", 16), With("set-cookie", 8), N("counter")>>,
     <<With("set-rcode", 5000), With("set-ede", 9)>>,
     <<With("set-flags", 512), N("counter")>>, <<With("set-flags", 33155)>>,
     <<With("set-delay", 0), N("counter")>>,
     <<N("set-nocompress"), N("counter")>>,
     <<With("setednspad", 512), N("myip")>>, <<With("setednspad", 128), N("counter")>>,
     <<With("setednspad", 130), N("counter")>>, <<With("setednspad", 121)>>,
     <<With("setednspad", 512), With("set-nsid", 3), With("size", 600)>>,
     <<With("set-ttl", 60), N("sig-fail"), N("dnssec-failed")>>,
     <<With("set-ttl", 5), Diag>>}
NoEdnsNames ==
    {<<N("set-noedns")>>, <<N("set-noedns"), N("counter")>>,
     <<With("set-cookie", 8), N("set-noedns"), With("setednspad", 1000), N("myip")>>,
     <<N("set-noedns"), With("size", 1024)>>,
     <<N("set-noedns"), With("set-flags", 33152), With("size", 1024), Tok, Diag>>,
     <<N("set-noedns"), With("set-ttl", 60), N("random")>>,
     <<N("set-noedns"), With("set-rcode", 23), N("counter")>>,
     <<N("set-noedns")>> \o [i \in 1..19 |-> With("set-answer-txt", 0)],
     <<N("set-noedns"), N("myip")>> \o [i \in 1..6 |-> With("set-answer", 0)]}

MatrixEdns ==
    {NoEdns, Edns(0, 1232, TRUE, FALSE), Edns(0, 0, FALSE, TRUE), Edns(0, 512, TRUE, TRUE),
     Edns(0, 65535, FALSE, FALSE), Edns(1, 1232, TRUE, TRUE)}
MatrixNames == HostNames \cup GadgetNames \cup FailNames \cup OptionNames \cup NoEdnsNames
Matrix ==
    {Query(name, qtype, edns, transport) :
        name \in MatrixNames,
        qtype \in {"A", "AAAA", "TXT", "SOA", "DNSKEY", "NSEC"},
        edns \in MatrixEdns, transport \in {"UDP", "DoH", "DoQ"}}

\* What the matrix leaves out: other types of the apex, other clients, the CHAOS
\* class, names outside the zone, messages without a question, DoT and TCP.
Odd ==
    {Query(<<>>, qtype, edns, "TCP") :
        qtype \in {"NS", "CDS", "DS", "RRSIG", "NSEC3"}, edns \in MatrixEdns}
    \cup {[Query(<<N("myip")>>, qtype, edns, "DoT") EXCEPT !.client = "unparsable"] :
        qtype \in {"A", "TXT"}, edns \in MatrixEdns}
    \cup {[Query(<<>>, qtype, edns, "UDP") EXCEPT !.zone = zone, !.class = class] :
        qtype \in {"A", "TXT"}, edns \in MatrixEdns,
        zone \in {"out", "hostname.bind", "version.bind", "in"}, class \in {"IN", "CH"}}
    \cup {[Query(<<>>, "A", edns, transport) EXCEPT !.asked = FALSE] :
        edns \in MatrixEdns, transport \in {"DoH", "DoQ"}}

\* Names that do not exist, one for each gap of the chain with something in it.
Missing ==
    {Query(name, qtype, Edns(0, 1232, TRUE, FALSE), "UDP") : qtype \in {"A", "DS"},
        name \in {<<N(l)>> : l \in {"coo", "fee", "other", "quiz", "zzz", "txt-test", "ns-test"}}
                 \cup {<<With("run", 3), N("dnssec-failed")>>,
                       <<N("a"), N("rrsig-wrong-rrset"), N("dnssec-failed")>>,
                       <<N("a"), N("txt-test")>>, <<N("a")>> \o Unresolvable,
                       <<N("ns1")>> \o Unresolvable}}

\* One handler answers a query of the matrix, the other one a counter query.
MatrixQueries ==
    [h \in Handlers |->
        IF h = h1 THEN Matrix \cup Odd \cup Missing
        ELSE {Query(<<With("set-ttl", 60), N("counter"), Tok, Diag>>, "TXT", NoEdns, "DoH")}]

-----------------------------------------------------------------------------
\* Queries of the run that looks for the wrong next name.
WrongNextQueries ==
    [h \in Handlers |-> {Query(<<N("nsec-wrong-next"), N("dnssec-failed")>>, qtype,
        Edns(0, 1232, TRUE, FALSE), "UDP") : qtype \in {"A", "TXT"}}]
=============================================================================
