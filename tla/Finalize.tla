------------------------------ MODULE Finalize -----------------------------
(***************************************************************************)
(* FinalizeResponse of internal/handler/handler.go: what is done to a      *)
(* reply after Handle built it.  EDNS and the TC bit of a DNSKEY answer    *)
(* come first, then the set-options of the query name in a fixed order of  *)
(* kinds and, within a kind, in the order of the name.                     *)
(***************************************************************************)
EXTENDS Messages

\* The bits set-flags sets, counted from the least significant.
Bit(flags, i) == (flags \div 2^i) % 2 = 1

WithTtl(rrs, ttl) == [i \in DOMAIN rrs |-> [rrs[i] EXCEPT !.ttl = ttl]]

\* applySetAnswer: the values replace the answer and clear the authority.
Replaced(m, rrs) == [m EXCEPT !.answer = rrs, !.ns = <<>>, !.rcode = NoError]
applySetAnswer(m, options, labels, qtype) ==
    LET addresses == ValidOptions(options, "set-answer")
        strings   == ValidOptions(options, "set-answer-txt")
    IN  CASE qtype = "A" /\ addresses # <<>> ->
                Replaced(m, [i \in DOMAIN addresses |-> RR("A", labels, 0, 4)])
          [] qtype = "TXT" /\ strings # <<>> ->
                Replaced(m, <<TXT(labels, 0, [i \in DOMAIN strings |-> strings[i].arg])>>)
          [] OTHER -> m

\* One turn of applySetModifiers.
Modified(m, o) ==
    CASE o.kind = "set-cookie" -> AddOption(EnsureOpt(m), "COOKIE", o.arg)
      [] o.kind = "set-ede"    -> AddOption(EnsureOpt(m), "EDE", o.arg)
      [] o.kind = "set-nsid"   -> AddOption(EnsureOpt(m), "NSID", o.arg)
      [] o.kind = "set-flags"  -> [m EXCEPT !.qr = Bit(o.arg, 15), !.aa = Bit(o.arg, 10),
                                            !.tc = Bit(o.arg, 9), !.rcode = o.arg % 16]
      [] o.kind = "set-rcode"  -> [m EXCEPT !.rcode = o.arg]
      [] o.kind = "set-id"     -> [m EXCEPT !.id = o.arg]
      [] o.kind = "set-ttl"    -> [m EXCEPT !.answer = WithTtl(@, o.arg),
                                            !.ns = WithTtl(@, o.arg)]
      [] OTHER                 -> m

\* A value that does not parse is skipped.
applySetModifiers(m, options) ==
    FoldLeft(Modified, m, Only(options, isValidSetOption))

\* applySetEdnsPad: the last valid setednspad-N decides.  Padding takes an
\* option header of four bytes; with no room for a byte after it none is added.
\* (Variant: the header is counted twice.)
PadLessHeader(m, options) ==
    LET targets == ValidOptions(options, "setednspad")
        padded  == EnsureOpt(m)
        need    == Last(targets).arg - Size(padded) - 8
    IN  IF targets = <<>> THEN m
        ELSE IF Packs(padded) /\ need > 0 THEN AddOption(padded, "PADDING", need)
        ELSE padded
applySetEdnsPad(m, options) ==
    LET targets == ValidOptions(options, "setednspad")
        padded  == EnsureOpt(m)
        need    == Last(targets).arg - Size(padded) - 4
    IN  IF targets = <<>> THEN m
        ELSE IF Packs(padded) /\ need > 0 THEN AddOption(padded, "PADDING", need)
        ELSE padded

applySetOptions(m, options, labels, qtype) ==
    IF options = <<>> THEN m
    ELSE applySetEdnsPad(
            applySetModifiers(applySetAnswer(m, options, labels, qtype), options), options)

\* set-noedns, after everything that could have added an OPT record.
WithoutEdns(m) ==
    truncateToUDPSize([m EXCEPT !.extra = Only(@, NotOpt)], 512)

\* The default NSID, unless a set-nsid put one there.
DefaultNsid(m, hostnameBytes) ==
    IF m.rcode # BadVers /\ HasOpt(m) /\ "NSID" \notin OptOf(m).codes
    THEN AddOption(m, "NSID", hostnameBytes)
    ELSE m

\* (Variant: the client's size as it is.)
UncappedUdpSize(edns) == IF edns.udp = 0 THEN 4096 ELSE edns.udp
UdpSize(edns) == IF edns.udp = 0 THEN 4096 ELSE Least(edns.udp, 4096)

IsApexDnskey(q) == q.zone = "in" /\ q.labels = <<>> /\ q.qtype = "DNSKEY"
OptionsOf(q) == IF q.asked /\ q.zone = "in" THEN Parsed(q.labels).setOptions ELSE <<>>

\* (Variants: set-noedns before the options it is to override, and set-answer
\* after the modifiers that are to apply to it.)
FinalizeNoEdnsFirst(q, m, hostnameBytes) ==
    LET options == OptionsOf(q)
        edns    == IF q.edns.present /\ m.rcode # BadVers
                   THEN SetEdns0(m, UdpSize(q.edns), q.edns.do) ELSE m
        bare    == IF HasOption(options, "set-noedns") THEN WithoutEdns(edns) ELSE edns
        changed == applySetOptions(bare, options, q.labels, q.qtype)
    IN  IF q.asked /\ q.edns.present /\ q.edns.nsid
        THEN DefaultNsid(changed, hostnameBytes) ELSE changed

FinalizeAnswerLast(q, m, hostnameBytes) ==
    LET options == OptionsOf(q)
        edns    == IF q.edns.present /\ m.rcode # BadVers
                   THEN SetEdns0(m, UdpSize(q.edns), q.edns.do) ELSE m
        changed == IF options = <<>> THEN edns
                   ELSE applySetAnswer(applySetModifiers(edns, options),
                                       options, q.labels, q.qtype)
    IN  IF HasOption(options, "set-noedns") THEN WithoutEdns(changed) ELSE changed

FinalizeResponse(q, m, hostnameBytes) ==
    LET withOpt == q.edns.present /\ m.rcode # BadVers
        edns    == IF withOpt THEN SetEdns0(m, UdpSize(q.edns), q.edns.do) ELSE m
        small   == ~withOpt \/ UdpSize(q.edns) <= 512
        marked  == IF IsApexDnskey(q) /\ small THEN [edns EXCEPT !.tc = TRUE] ELSE edns
        options == OptionsOf(q)
        changed == applySetOptions(marked, options, q.labels, q.qtype)
        nsid    == IF q.edns.present /\ q.edns.nsid
                   THEN DefaultNsid(changed, hostnameBytes) ELSE changed
        bare    == IF HasOption(options, "set-noedns") THEN WithoutEdns(nsid) ELSE nsid
    IN  IF ~q.asked THEN edns
        ELSE IF HasOption(options, "set-nocompress") THEN [bare EXCEPT !.compress = FALSE]
        ELSE bare
=============================================================================
