-------------------------- MODULE DnsHandlerProofs --------------------------
(***************************************************************************)
(* Proofs about DnsHandler, for every set of handlers and every query they *)
(* may get: the counter, what the set-options of a name and the client's   *)
(* EDNS do to a reply on its way to the wire, and what the signer's NSEC   *)
(* records say of the names and types the handler answers.                 *)
(***************************************************************************)
EXTENDS DnsHandler, ReplyProofs

-----------------------------------------------------------------------------
(***************************************************************************)
(* The inductive invariant: a handler that has not been through Handle has *)
(* no ticket yet, so the one it draws is the first it shows.               *)
(***************************************************************************)
Typed ==
    /\ counter \in Nat
    /\ ticket \in [Handlers -> Nat]
    /\ DOMAIN pc = Handlers /\ DOMAIN query = Handlers
Received == \A h \in Handlers :
    pc[h] # "idle" => query[h].transport \in ServeDNSTransports \cup {"DoH", "DoQ"}
NotYetCounted == \A h \in Handlers : pc[h] \in {"idle", "handle"} => ticket[h] = 0
CounterInv == Typed /\ Received /\ NotYetCounted /\ CounterIsExact

LEMMA CounterInit == Init => CounterInv
<1> SUFFICES ASSUME Init PROVE CounterInv
  OBVIOUS
<1>1. counter = 0 /\ ticket = [h \in Handlers |-> 0] /\ DOMAIN pc = Handlers
  BY DEF Init
<1>2. 1..counter = {}
  BY <1>1
<1>3. {ticket[h] : h \in Handlers} \ {0} = {}
  BY <1>1
<1>4. Received /\ NotYetCounted /\ DOMAIN query = Handlers
  BY DEF Init, Received, NotYetCounted
<1> QED
  BY <1>1, <1>2, <1>3, <1>4 DEF CounterInv, Typed, CounterIsExact

\* A handler without a ticket draws the next one.
LEMMA CountsOn ==
    ASSUME CounterInv, NEW h \in Handlers, ticket[h] = 0, Count(h)
    PROVE  CounterIsExact'
<1>1. /\ counter \in Nat /\ counter' = counter + 1 /\ ticket'[h] = counter + 1
      /\ \A g \in Handlers : g # h => ticket'[g] = ticket[g]
      /\ \A g \in Handlers : ticket[g] \in Nat
  BY DEF CounterInv, Typed, Count
<1>2. \A n : n \in 1..counter <=> n # 0 /\ \E g \in Handlers : ticket[g] = n
  BY DEF CounterInv, CounterIsExact
<1>3. \A n : n \in 1..counter' <=> n \in 1..counter \/ n = counter + 1
  BY <1>1
<1>4. ASSUME NEW n
      PROVE  n \in 1..counter' <=> n # 0 /\ \E g \in Handlers : ticket'[g] = n
  <2>1. CASE n = counter + 1
    BY <1>1, <1>3, <2>1
  <2>2. CASE n # counter + 1
    <3>1. n # 0 /\ (\E g \in Handlers : ticket[g] = n)
             <=> n # 0 /\ (\E g \in Handlers : ticket'[g] = n)
      BY <1>1, <2>2
    <3> QED
      BY <1>2, <1>3, <2>2, <3>1
  <2> QED
    BY <2>1, <2>2
<1>5. ASSUME NEW g \in Handlers, g # h
      PROVE  ticket'[g] # counter + 1
  BY <1>1, <1>2, <1>5
<1>6. ASSUME NEW f \in Handlers, NEW g \in Handlers, f # g, ticket'[f] # 0
      PROVE  ticket'[f] # ticket'[g]
  BY <1>1, <1>5, <1>6 DEF CounterInv, CounterIsExact
<1>7. {ticket'[g] : g \in Handlers} \ {0} = 1..counter'
  BY <1>4
<1> QED
  BY <1>6, <1>7 DEF CounterIsExact

LEMMA CounterStep == CounterInv /\ [Next]_vars => CounterInv'
<1> SUFFICES ASSUME CounterInv, [Next]_vars
             PROVE  CounterInv'
  OBVIOUS
<1>0. Typed /\ Received /\ NotYetCounted
  BY DEF CounterInv
<1>1. ASSUME NEW h \in Handlers, HandleQuery(h)
      PROVE  CounterInv'
  <2>1. pc[h] = "handle" /\ ticket[h] = 0
    BY <1>0, <1>1 DEF HandleQuery, NotYetCounted
  <2>2. pc' = [pc EXCEPT ![h] = AfterHandle(query[h].transport)] /\ query' = query
    BY <1>1 DEF HandleQuery
  <2>3. Count(h) \/ UNCHANGED <<counter, ticket>>
    BY <1>1 DEF HandleQuery
  <2>4. CounterIsExact'
    <3>1. CASE UNCHANGED <<counter, ticket>>
      BY <3>1 DEF CounterInv, CounterIsExact
    <3> QED
      BY <2>1, <2>3, <3>1, CountsOn
  <2>5. Typed'
    BY <1>0, <2>2, <2>3 DEF Typed, Count
  <2>6. AfterHandle(query[h].transport) \notin {"idle", "handle"}
    BY <1>0, <2>1 DEF Received, AfterHandle, ServeDNSTransports
  <2>7. NotYetCounted'
    BY <1>0, <2>2, <2>3, <2>6 DEF NotYetCounted, Typed, Count
  <2>8. Received'
    BY <1>0, <2>1, <2>2 DEF Received, Typed
  <2> QED
    BY <2>4, <2>5, <2>7, <2>8 DEF CounterInv
<1>2. ASSUME NEW h \in Handlers,
             Receive(h) \/ Meter(h) \/ Relate(h) \/ FinalizeReply(h) \/ Write(h)
      PROVE  CounterInv'
  <2>1. UNCHANGED <<counter, ticket>>
    BY <1>2 DEF Receive, Meter, Relate, FinalizeReply, Write
  <2>2. \E to : /\ pc' = [pc EXCEPT ![h] = to]
                /\ to \in {"idle", "handle"} => pc[h] \in {"idle", "handle"}
    BY <1>2 DEF Receive, Meter, Relate, FinalizeReply, Write
  <2>3. Received' /\ DOMAIN query' = Handlers
    <3>1. CASE Receive(h)
      <4>1. PICK q \in Queries[h] : query' = [query EXCEPT ![h] = q]
        BY <3>1, Zenon DEF Receive
      <4> QED
        BY <1>0, <2>2, <4>1, HandlerAssumption DEF Typed, Received, IsQuery
    <3>2. CASE Meter(h) \/ Relate(h) \/ FinalizeReply(h) \/ Write(h)
      <4>1. pc[h] # "idle" /\ query' = query
        BY <3>2 DEF Meter, Relate, FinalizeReply, Write
      <4> QED
        BY <1>0, <2>2, <4>1 DEF Typed, Received
    <3> QED
      BY <1>2, <3>1, <3>2
  <2> QED
    BY <1>0, <2>1, <2>2, <2>3 DEF CounterInv, Typed, NotYetCounted, CounterIsExact
<1>3. CASE UNCHANGED vars
  BY <1>3 DEF vars, CounterInv, Typed, Received, NotYetCounted, CounterIsExact
<1> QED
  BY <1>1, <1>2, <1>3 DEF Next

\* Handle adds one to the counter and shows the result: the numbers concurrent replies
\* show are 1 up to the counter, each of them once.
THEOREM CounterShowsEachNumberOnce == Spec => []CounterIsExact
<1>1. CounterInv => CounterIsExact
  BY DEF CounterInv
<1> QED
  BY <1>1, CounterInit, CounterStep, PTL DEF Spec

-----------------------------------------------------------------------------
(***************************************************************************)
(* The finalized reply.                                                    *)
(***************************************************************************)
LEMMA NameFits ==
    ASSUME NEW q, IsQuery(q)
    PROVE  q.labels \in Seq(Label) /\ Len(q.labels) \in Nat /\ NameBytes(q.labels) \in 0..255
<1> DEFINE n == Len(q.labels)
<1>0. q.labels \in Seq(Label) /\ NameBytes(q.labels) <= 255
  BY DEF IsQuery
<1>1. n \in Nat /\ NameBytes(q.labels) <= 255 /\ NameBytes(q.labels) = ZoneBytes + LabelBytes * n
  BY <1>0 DEF NameBytes
<1>2. ZoneBytes \in Nat /\ LabelBytes \in Nat
  BY MessagesAssumption
<1> HIDE DEF n
<1>3. LabelBytes * n \in Nat
  BY <1>1, <1>2
<1> QED
  BY <1>0, <1>1, <1>2, <1>3

\* The default NSID only touches the additional section.
LEMMA WithNsidReply ==
    ASSUME NEW q, NEW m, NEW length \in Nat, IsMessage(Changed(q, m)), NEW n, n = WithNsid(q, m, length)
    PROVE  /\ IsMessage(n) /\ SameBut({"extra"}, Changed(q, m), n)
           /\ AllOpts(Changed(q, m)) => AllOpts(n)
<1> DEFINE f == Changed(q, m)
<1>1. n = f \/ n = DefaultNsid(f, length)
  BY DEF WithNsid
<1>2. IsMessage(f)
  OBVIOUS
<1> HIDE DEF f
<1>3. CASE n = f
  BY <1>2, <1>3 DEF SameBut, f
<1>4. CASE n = DefaultNsid(f, length)
  <2>1. IsMessage(n) /\ SameBut({"extra"}, f, n)
    BY <1>2, <1>4, DefaultNsidMessage
  <2>2. AllOpts(f) => AllOpts(n)
    BY <1>2, <1>4, NsidOpts
  <2> QED
    BY <2>1, <2>2 DEF f
<1> QED
  BY <1>1, <1>3, <1>4

WithAnswer(q, m) == applySetAnswer(m, OptionsOf(q), q.labels, q.qtype)
Tc(q) ==
    /\ ValidOptions(OptionsOf(q), "set-flags") # <<>>
    /\ Bit(Last(ValidOptions(OptionsOf(q), "set-flags")).arg, 9)

\* What FinalizeResponse makes of the reply m of Handle: n before the compression flag.
Finished(q, m, n) ==
    /\ IsMessage(n) /\ n.qname = q.labels
    /\ ValidOptions(OptionsOf(q), "set-ttl") # <<>> =>
           HasTtl(n, Last(ValidOptions(OptionsOf(q), "set-ttl")).arg)
    /\ HasOption(OptionsOf(q), "set-noedns") =>
           ~HasOpt(n) /\ (Packs(n) => Size(n) <= 512) /\ (HasFewer(n, WithAnswer(q, m)) => n.tc)
    /\ n.tc => \/ IsMarked(q, m) \/ Tc(q)
               \/ /\ HasOption(OptionsOf(q), "set-noedns") /\ Size(n) <= 512
                  /\ HasFewer(n, WithAnswer(q, m))

\* Before set-noedns: all records are there.
LEMMA UndroppedReply ==
    ASSUME NEW q, IsQuery(q), NEW m, Handled(q, m), NEW length \in Nat,
           NEW n, n = WithNsid(q, m, length)
    PROVE  /\ IsMessage(n) /\ n.qname = q.labels
           /\ Len(n.answer) = Len(WithAnswer(q, m).answer) /\ Len(n.ns) = Len(WithAnswer(q, m).ns)
           /\ ValidOptions(OptionsOf(q), "set-ttl") # <<>> =>
                  HasTtl(n, Last(ValidOptions(OptionsOf(q), "set-ttl")).arg)
           /\ n.tc => IsMarked(q, m) \/ Tc(q)
           /\ n.answer = <<>> => AllOpts(n)
<1> DEFINE options == OptionsOf(q)
           marked == Marked(q, m)
           changed == Changed(q, m)
           g == applySetAnswer(marked, options, q.labels, q.qtype)
           ttls == ValidOptions(options, "set-ttl")
           flags == ValidOptions(options, "set-flags")
<1>1. options \in Seq(Label) /\ Len(q.labels) \in Nat
  BY NameFits, OptionsAreLabels
<1>2. /\ IsMessage(m) /\ m.qname = q.labels /\ ~m.tc /\ (m.answer = <<>> => AllOpts(m))
  BY DEF Handled
<1>3. /\ IsMessage(marked) /\ SameBut({"extra", "tc"}, m, marked) /\ (AllOpts(m) => AllOpts(marked))
      /\ marked.tc => m.tc \/ IsMarked(q, m)
  BY <1>2, MarkedReply
<1>4. changed = applySetOptions(marked, options, q.labels, q.qtype)
  BY Zenon DEF Changed
<1> HIDE DEF options, marked, changed
<1>5. Applied(options, marked, g, changed)
  BY <1>1, <1>3, <1>4, AppliedOptions
<1>6. /\ IsMessage(changed) /\ changed.qname = marked.qname
      /\ Len(changed.answer) = Len(g.answer) /\ Len(changed.ns) = Len(g.ns)
      /\ AllOpts(marked) => AllOpts(changed)
      /\ flags = <<>> => (changed.tc <=> marked.tc)
      /\ flags # <<>> => (changed.tc <=> Bit(Last(flags).arg, 9))
      /\ ttls # <<>> => HasTtl(changed, Last(ttls).arg)
  BY <1>5 DEF Applied
<1>7. IsMessage(n) /\ SameBut({"extra"}, changed, n) /\ (AllOpts(changed) => AllOpts(n))
  BY <1>6, WithNsidReply DEF changed
<1>8. n.qname = changed.qname /\ n.answer = changed.answer /\ n.ns = changed.ns /\ n.tc = changed.tc
  BY <1>7 DEF SameBut, MsgFields
<1>9. marked.qname = m.qname /\ marked.answer = m.answer /\ marked.ns = m.ns
  BY <1>3 DEF SameBut, MsgFields
<1>10. g.answer = WithAnswer(q, m).answer /\ g.ns = WithAnswer(q, m).ns
  BY <1>1, <1>2, <1>3, <1>9, SetAnswerRecords DEF WithAnswer, options
<1>11. IsMessage(g) /\ (g = marked \/ g.answer # <<>>)
  BY <1>1, <1>3, SetAnswerMessage
<1> HIDE DEF g, ttls, flags
<1>12. ttls # <<>> => HasTtl(n, Last(ttls).arg)
  BY <1>6, <1>8 DEF HasTtl
<1>13. n.tc => IsMarked(q, m) \/ Tc(q)
  <2>1. n.tc => (flags = <<>> /\ marked.tc) \/ (flags # <<>> /\ Bit(Last(flags).arg, 9))
    BY <1>6, <1>8
  <2> QED
    BY <1>2, <1>3, <2>1 DEF Tc, flags, options
<1>14. ASSUME n.answer = <<>>
       PROVE  AllOpts(n)
  <2>1. Len(g.answer) = 0
    BY <1>6, <1>8, <1>14
  <2>2. g.answer = <<>>
    BY <1>11, <2>1 DEF IsMessage, IsSection
  <2>3. m.answer = <<>>
    BY <1>9, <1>11, <2>2
  <2> QED
    BY <1>2, <1>3, <1>6, <1>7, <2>3
<1> QED
  BY <1>2, <1>6, <1>7, <1>8, <1>9, <1>10, <1>12, <1>13, <1>14 DEF ttls, options

\* Dropping records leaves the others their TTL.
LEMMA PrefixTtl ==
    ASSUME NEW m, IsMessage(m), NEW ttl, HasTtl(m, ttl), NEW n, IsMessage(n),
           IsPrefixOf(n.answer, m.answer), IsPrefixOf(n.ns, m.ns)
    PROVE  HasTtl(n, ttl)
<1>1. ASSUME NEW kept, IsSection(kept), NEW rrs, IsSection(rrs), IsPrefixOf(kept, rrs),
             \A i \in 1..Len(rrs) : rrs[i].ttl = ttl
      PROVE  \A i \in 1..Len(kept) : kept[i].ttl = ttl
  <2>1. Len(kept) \in Nat /\ Len(rrs) \in Nat /\ Len(kept) <= Len(rrs)
    BY <1>1, Section DEF IsPrefixOf
  <2>2. 1..Len(kept) \subseteq 1..Len(rrs)
    BY <2>1
  <2> QED
    BY <1>1, <2>2 DEF IsPrefixOf
<1> QED
  BY <1>1, Zenon DEF HasTtl, IsMessage

\* set-noedns on top: either no record was dropped, or TC says so.
LEMMA FinishedReply ==
    ASSUME NEW q, IsQuery(q), NEW m, Handled(q, m), NEW length \in Nat,
           NEW n, n = Bare(q, m, length)
    PROVE  Finished(q, m, n)
<1> DEFINE f == WithNsid(q, m, length)
           g == WithAnswer(q, m)
           ttls == ValidOptions(OptionsOf(q), "set-ttl")
           noedns == HasOption(OptionsOf(q), "set-noedns")
<1>1. /\ IsMessage(f) /\ f.qname = q.labels
      /\ Len(f.answer) = Len(g.answer) /\ Len(f.ns) = Len(g.ns)
      /\ ttls # <<>> => HasTtl(f, Last(ttls).arg)
      /\ f.tc => IsMarked(q, m) \/ Tc(q)
      /\ f.answer = <<>> => AllOpts(f)
  BY UndroppedReply
<1>2. NameBytes(f.qname) \in 0..255
  BY <1>1, NameFits, Zenon
<1>3. n = IF noedns THEN WithoutEdns(f) ELSE f
  BY Zenon DEF Bare
<1> HIDE DEF f, g, ttls, noedns
<1>4. CASE ~noedns
  BY <1>1, <1>3, <1>4 DEF Finished, ttls, noedns
<1>5. CASE noedns
  <2>1. /\ IsMessage(n) /\ SameBut({"tc", "answer", "ns", "extra"}, f, n) /\ ~HasOpt(n)
        /\ IsPrefixOf(n.answer, f.answer) /\ IsPrefixOf(n.ns, f.ns)
        /\ Packs(n) => Size(n) <= 512
        /\ \/ n.tc = f.tc /\ n.answer = f.answer /\ n.ns = f.ns
           \/ /\ n.tc /\ Size(n) <= 512
              /\ f.answer # <<>> => Len(n.answer) < Len(f.answer)
              /\ f.answer = <<>> /\ f.ns # <<>> => Len(n.ns) < Len(f.ns)
    BY <1>1, <1>2, <1>3, <1>5, WithoutEdnsMessage
  <2>2. n.qname = q.labels
    BY <1>1, <2>1 DEF SameBut, MsgFields
  <2>3. ttls # <<>> => HasTtl(n, Last(ttls).arg)
    BY <1>1, <2>1, PrefixTtl
  <2>4. HasFewer(n, g) => n.tc
    <3>1. Len(f.answer) \in Nat /\ Len(f.ns) \in Nat
      BY <1>1, Section DEF IsMessage
    <3>2. n.answer = f.answer /\ n.ns = f.ns => ~HasFewer(n, g)
      BY <1>1, <3>1 DEF HasFewer
    <3> QED
      BY <2>1, <3>2
  <2>5. n.tc => IsMarked(q, m) \/ Tc(q) \/ (Size(n) <= 512 /\ HasFewer(n, g))
    <3>1. CASE f.answer = <<>> /\ f.ns = <<>>
      <4>1. n.tc = f.tc
        BY <1>1, <1>2, <1>3, <1>5, <3>1, NothingToDrop, Zenon
      <4> QED
        BY <1>1, <4>1
    <3>2. CASE ~(f.answer = <<>> /\ f.ns = <<>>)
      BY <1>1, <2>1, <3>2, Zenon DEF HasFewer
    <3> QED
      BY <3>1, <3>2
  <2> QED
    BY <1>5, <2>1, <2>2, <2>3, <2>4, <2>5 DEF Finished, g, ttls, noedns
<1> QED
  BY <1>4, <1>5

\* The client gets its EDNS back.
Mirrored(q, n) ==
    /\ Len(Opts(n)) = 1
    /\ OptOf(n).do = q.edns.do /\ OptOf(n).udp = UdpSize(q.edns)
    /\ "NSID" \in OptOf(n).codes <=> q.edns.nsid \/ ValidOptions(OptionsOf(q), "set-nsid") # <<>>

\* An OPT record appended to a section without any is the only one.
LEMMA AppendedOneOpt ==
    ASSUME NEW m, IsMessage(m), NoOpts(m), NEW udp, NEW do, NEW n,
           n.extra = Append(m.extra, Opt(udp, do)), NEW j, j = Len(m.extra) + 1
    PROVE  /\ OneOpt(n, j) /\ n.extra[j].udp = udp /\ n.extra[j].do = do
           /\ "NSID" \notin n.extra[j].codes
<1> DEFINE opt == Opt(udp, do)
<1>1. IsRecord(opt) /\ IsOpt(opt) /\ IsSection(m.extra)
  BY OptIsRecord DEF IsMessage
<1>2. opt.udp = udp /\ opt.do = do /\ opt.codes = {}
  BY DEF Opt
<1>3. n.extra = Append(m.extra, opt)
  OBVIOUS
<1> HIDE DEF opt
<1>4. Len(m.extra) \in Nat
  BY <1>1, Section
<1>5. /\ Len(n.extra) = Len(m.extra) + 1 /\ n.extra[j] = opt
      /\ \A i \in 1..Len(m.extra) : n.extra[i] = m.extra[i]
  BY <1>1, <1>3, AppendedSection
<1>6. \A i \in 1..Len(m.extra) : ~IsOpt(m.extra[i])
  BY DEF NoOpts
<1>7. OneOpt(n, j)
  BY <1>1, <1>4, <1>5, <1>6 DEF OneOpt
<1> QED
  BY <1>2, <1>5, <1>7

LEMMA MirroredReply ==
    ASSUME NEW q, IsQuery(q), q.edns.present,
           NEW m, IsMessage(m), NoOpts(m), m.rcode # BadVers, NEW length \in Nat,
           ~HasOption(OptionsOf(q), "set-noedns"),
           NEW n, n = Bare(q, m, length), n.rcode # BadVers
    PROVE  Mirrored(q, n)
<1> DEFINE options == OptionsOf(q)
           marked == Marked(q, m)
           changed == Changed(q, m)
           size == UdpSize(q.edns)
           do == q.edns.do
           j == Len(m.extra) + 1
           nsids == ValidOptions(options, "set-nsid")
<1>1. options \in Seq(Label) /\ Len(q.labels) \in Nat
  BY NameFits, OptionsAreLabels
<1>2. IsMessage(marked) /\ marked.extra = Append(m.extra, Opt(size, do))
  BY MarkedReply DEF Mirrors
<1>3. changed = applySetOptions(marked, options, q.labels, q.qtype)
  BY Zenon DEF Changed
<1>4. n = IF q.edns.nsid THEN DefaultNsid(changed, length) ELSE changed
  <2>1. n = WithNsid(q, m, length)
    BY Zenon DEF Bare
  <2> QED
    BY <2>1, Zenon DEF WithNsid
<1>5. /\ size = UdpSize(q.edns) /\ do = q.edns.do /\ j = Len(m.extra) + 1
  OBVIOUS
<1> HIDE DEF options, marked, changed, size, do, j
<1>6. /\ OneOpt(marked, j) /\ marked.extra[j].udp = size /\ marked.extra[j].do = do
      /\ "NSID" \notin marked.extra[j].codes
  BY <1>2, <1>5, AppendedOneOpt
<1>7. SameOpt(marked, changed, j) /\ ("NSID" \in changed.extra[j].codes <=> nsids # <<>>)
  BY <1>1, <1>2, <1>3, <1>6, AppliedOpt, Zenon
<1>8. IsMessage(changed)
  <2> DEFINE g == applySetAnswer(marked, options, q.labels, q.qtype)
  <2>1. Applied(options, marked, g, changed)
    BY <1>1, <1>2, <1>3, AppliedOptions
  <2> QED
    BY <2>1 DEF Applied
<1> HIDE DEF nsids
<1>9. SameOpt(changed, n, j) /\ IsMessage(n)
      /\ ("NSID" \in n.extra[j].codes <=> q.edns.nsid \/ nsids # <<>>)
  <2>1. CASE ~q.edns.nsid
    BY <1>4, <1>7, <1>8, <2>1 DEF SameOpt
  <2>2. CASE q.edns.nsid
    <3>1. n = DefaultNsid(changed, length)
      BY <1>4, <2>2
    <3>2. IsMessage(n) /\ SameBut({"extra"}, changed, n)
      BY <1>8, <3>1, DefaultNsidMessage
    <3>3. changed.rcode # BadVers
      BY <3>2 DEF SameBut, MsgFields
    <3>4. SameOpt(changed, n, j) /\ "NSID" \in n.extra[j].codes
      BY <1>7, <1>8, <3>1, <3>3, DefaultNsidOpt DEF SameOpt
    <3> QED
      BY <2>2, <3>2, <3>4
  <2> QED
    BY <2>1, <2>2
<1>10. OneOpt(n, j) /\ n.extra[j].udp = size /\ n.extra[j].do = do
  BY <1>6, <1>7, <1>9 DEF SameOpt
<1>11. OptOf(n) = n.extra[j]
  BY <1>9, <1>10, OneOptIndex DEF OptOf
<1>12. Len(Opts(n)) = 1
  BY <1>9, <1>10, OneOptOnly DEF Opts
<1> QED
  BY <1>5, <1>9, <1>10, <1>11, <1>12 DEF Mirrored, nsids, options

\* FinalizeResponse of a reply of Handle: set-nocompress changes nothing that matters here.
Finalized(q, m, n) ==
    /\ Finished(q, m, n)
    /\ q.asked /\ q.edns.present /\ ~HasOption(OptionsOf(q), "set-noedns") /\ NoOpts(m)
          /\ m.rcode # BadVers /\ n.rcode # BadVers
       => Mirrored(q, n)

\* The compression flag is on no record and in no size.
LEMMA SameReply ==
    ASSUME NEW q, NEW m, NEW f, Finished(q, m, f), NEW n, n = [f EXCEPT !.compress = FALSE]
    PROVE  Finished(q, m, n) /\ n.rcode = f.rcode /\ (Mirrored(q, f) => Mirrored(q, n))
<1> DEFINE no == FALSE
<1>1. n = [f EXCEPT !.compress = no]
  OBVIOUS
<1> HIDE DEF no
<1>2. IsMessage(f)
  BY DEF Finished
<1>3. n = [x \in MsgFields |-> IF x = "compress" THEN no ELSE f[x]]
  BY <1>1, <1>2, Zenon DEF IsMessage, MsgFields
<1>4. /\ n = [x \in MsgFields |-> n[x]]
      /\ n.answer = f.answer /\ n.ns = f.ns /\ n.extra = f.extra /\ n.tc = f.tc
      /\ n.qname = f.qname /\ n.rcode = f.rcode
  BY <1>3, Zenon DEF MsgFields
<1>5. IsMessage(n)
  BY <1>2, <1>4 DEF IsMessage
<1>6. Size(n) = Size(f)
  BY <1>4, SameSize, Zenon DEF SameSections
<1>7. (Packs(n) <=> Packs(f)) /\ (HasOpt(n) <=> HasOpt(f))
  BY <1>4 DEF Packs, HasOpt
<1>8. OptOf(n) = OptOf(f) /\ Opts(n) = Opts(f)
  BY <1>4 DEF OptOf, OptIndex, Opts
<1>9. HasFewer(n, WithAnswer(q, m)) <=> HasFewer(f, WithAnswer(q, m))
  BY <1>4 DEF HasFewer
<1>10. \A ttl : HasTtl(f, ttl) => HasTtl(n, ttl)
  BY <1>4 DEF HasTtl
<1>11. Finished(q, m, n)
  <2> DEFINE ttls == ValidOptions(OptionsOf(q), "set-ttl")
             noedns == HasOption(OptionsOf(q), "set-noedns")
             g == WithAnswer(q, m)
  <2>1. /\ f.qname = q.labels
        /\ ttls # <<>> => HasTtl(f, Last(ttls).arg)
        /\ noedns => ~HasOpt(f) /\ (Packs(f) => Size(f) <= 512) /\ (HasFewer(f, g) => f.tc)
        /\ f.tc => \/ IsMarked(q, m) \/ Tc(q)
                   \/ noedns /\ Size(f) <= 512 /\ HasFewer(f, g)
    BY DEF Finished
  <2> HIDE DEF ttls, noedns, g
  <2>2. /\ n.qname = q.labels
        /\ ttls # <<>> => HasTtl(n, Last(ttls).arg)
        /\ noedns => ~HasOpt(n) /\ (Packs(n) => Size(n) <= 512) /\ (HasFewer(n, g) => n.tc)
        /\ n.tc => \/ IsMarked(q, m) \/ Tc(q)
                   \/ noedns /\ Size(n) <= 512 /\ HasFewer(n, g)
    BY <1>4, <1>6, <1>7, <1>9, <1>10, <2>1, Zenon DEF g
  <2> QED
    BY <1>5, <2>2 DEF Finished, ttls, noedns, g
<1>12. Mirrored(q, f) => Mirrored(q, n)
  BY <1>8 DEF Mirrored
<1> QED
  BY <1>4, <1>11, <1>12

\* What the theorems rest on: FinalizeResponse of any reply Handle can return.
LEMMA FinalizedReply ==
    ASSUME NEW q, IsQuery(q), NEW m, Handled(q, m), NEW length \in Nat,
           NEW n, n = FinalizeResponse(q, m, length)
    PROVE  Finalized(q, m, n)
<1> DEFINE bare == Bare(q, m, length)
           edns == WithEdns(q, m)
           noedns == HasOption(OptionsOf(q), "set-noedns")
           nocompress == HasOption(OptionsOf(q), "set-nocompress")
<1>1. n = IF ~q.asked THEN edns
          ELSE IF nocompress THEN [bare EXCEPT !.compress = FALSE] ELSE bare
  BY FinalizeSteps, Zenon
<1>2. Finished(q, m, bare)
  BY FinishedReply
<1>3. ASSUME q.asked, q.edns.present, ~noedns, NoOpts(m), m.rcode # BadVers, bare.rcode # BadVers
      PROVE  Mirrored(q, bare)
  <2>1. IsMessage(m)
    BY DEF Handled
  <2> HIDE DEF bare
  <2>2. bare = Bare(q, m, length)
    BY DEF bare
  <2> QED
    BY <1>3, <2>1, <2>2, MirroredReply
<1>4. IsMessage(edns) /\ SameBut({"extra"}, m, edns)
  BY WithEdnsMessage DEF Handled
<1> HIDE DEF bare, edns
<1>5. CASE ~q.asked
  <2>1. n = edns /\ n.tc = m.tc /\ n.qname = m.qname
    BY <1>1, <1>4, <1>5 DEF SameBut, MsgFields
  <2>2. OptionsOf(q) = <<>>
    BY <1>5 DEF OptionsOf
  <2>3. /\ ValidOptions(OptionsOf(q), "set-ttl") = <<>> /\ ~noedns
    BY <2>2, NoOptionsNoneValid DEF HasOption
  <2> QED
    BY <1>4, <1>5, <2>1, <2>3 DEF Finalized, Finished, Handled
<1>6. CASE q.asked /\ nocompress
  <2>1. n = [bare EXCEPT !.compress = FALSE]
    BY <1>1, <1>6, Zenon
  <2>2. Finished(q, m, n) /\ n.rcode = bare.rcode /\ (Mirrored(q, bare) => Mirrored(q, n))
    BY <1>2, <2>1, SameReply
  <2> QED
    BY <1>3, <2>2 DEF Finalized
<1>7. CASE q.asked /\ ~nocompress
  BY <1>1, <1>2, <1>3, <1>7 DEF Finalized
<1> QED
  BY <1>5, <1>6, <1>7

-----------------------------------------------------------------------------
(***************************************************************************)
(* The canonical order.  Kinds are ranked by their place in a list, so two *)
(* kinds of one rank are the same.                                         *)
(***************************************************************************)
LEMMA RankIs ==
    /\ \A kind \in Kinds : Rank[kind] \in DOMAIN ByteOrder /\ ByteOrder[Rank[kind]] = kind
    /\ \A kind \in Kinds : Rank[kind] \in Nat /\ Rank[kind] >= 1
    /\ \A a, b \in Kinds : Rank[a] = Rank[b] => a = b
<1>1. ASSUME NEW kind \in Kinds
      PROVE  Rank[kind] \in DOMAIN ByteOrder /\ ByteOrder[Rank[kind]] = kind
  <2>1. \E i \in DOMAIN ByteOrder : ByteOrder[i] = kind
    BY Zenon DEF Kinds
  <2>2. Rank[kind] = CHOOSE i \in DOMAIN ByteOrder : ByteOrder[i] = kind
    BY Zenon DEF Rank
  <2> QED
    BY <2>1, <2>2, Zenon
<1>2. \A i \in DOMAIN ByteOrder : i \in Nat /\ i >= 1
  BY DEF ByteOrder
<1> QED
  BY <1>1, <1>2

\* A list of 68 kinds, of which the first three are the padding, '!' and '*'.
LEMMA ByteOrderDomain == DOMAIN ByteOrder = 1..68
  BY DEF ByteOrder

LEMMA LaterKinds == \A i \in 4..68 : ByteOrder[i] \notin {"", "!", "*"}
<1>1. \A i \in 4..16 : ByteOrder[i] \notin {"", "!", "*"}
  <2>1. {"", "!", "*"} \cap
            {ByteOrder[4], ByteOrder[5], ByteOrder[6], ByteOrder[7], ByteOrder[8], ByteOrder[9],
            ByteOrder[10], ByteOrder[11], ByteOrder[12], ByteOrder[13], ByteOrder[14],
            ByteOrder[15], ByteOrder[16]} = {}
    BY DEF ByteOrder
  <2>2. \A i \in 4..16 : i \in {4, 5, 6, 7, 8, 9, 10, 11, 12, 13, 14, 15, 16}
    OBVIOUS
  <2> QED
    BY <2>1, <2>2, Zenon
<1>2. \A i \in 17..29 : ByteOrder[i] \notin {"", "!", "*"}
  <2>1. {"", "!", "*"} \cap
            {ByteOrder[17], ByteOrder[18], ByteOrder[19], ByteOrder[20], ByteOrder[21],
            ByteOrder[22], ByteOrder[23], ByteOrder[24], ByteOrder[25], ByteOrder[26],
            ByteOrder[27], ByteOrder[28], ByteOrder[29]} = {}
    BY DEF ByteOrder
  <2>2. \A i \in 17..29 : i \in {17, 18, 19, 20, 21, 22, 23, 24, 25, 26, 27, 28, 29}
    OBVIOUS
  <2> QED
    BY <2>1, <2>2, Zenon
<1>3. \A i \in 30..42 : ByteOrder[i] \notin {"", "!", "*"}
  <2>1. {"", "!", "*"} \cap
            {ByteOrder[30], ByteOrder[31], ByteOrder[32], ByteOrder[33], ByteOrder[34],
            ByteOrder[35], ByteOrder[36], ByteOrder[37], ByteOrder[38], ByteOrder[39],
            ByteOrder[40], ByteOrder[41], ByteOrder[42]} = {}
    BY DEF ByteOrder
  <2>2. \A i \in 30..42 : i \in {30, 31, 32, 33, 34, 35, 36, 37, 38, 39, 40, 41, 42}
    OBVIOUS
  <2> QED
    BY <2>1, <2>2, Zenon
<1>4. \A i \in 43..55 : ByteOrder[i] \notin {"", "!", "*"}
  <2>1. {"", "!", "*"} \cap
            {ByteOrder[43], ByteOrder[44], ByteOrder[45], ByteOrder[46], ByteOrder[47],
            ByteOrder[48], ByteOrder[49], ByteOrder[50], ByteOrder[51], ByteOrder[52],
            ByteOrder[53], ByteOrder[54], ByteOrder[55]} = {}
    BY DEF ByteOrder
  <2>2. \A i \in 43..55 : i \in {43, 44, 45, 46, 47, 48, 49, 50, 51, 52, 53, 54, 55}
    OBVIOUS
  <2> QED
    BY <2>1, <2>2, Zenon
<1>5. \A i \in 56..61 : ByteOrder[i] \notin {"", "!", "*"}
  <2>1. {"", "!", "*"} \cap
            {ByteOrder[56], ByteOrder[57], ByteOrder[58], ByteOrder[59], ByteOrder[60],
            ByteOrder[61]} = {}
    BY DEF ByteOrder
  <2>2. \A i \in 56..61 : i \in {56, 57, 58, 59, 60, 61}
    OBVIOUS
  <2> QED
    BY <2>1, <2>2, Zenon
<1>6. \A i \in 62..68 : ByteOrder[i] \notin {"", "!", "*"}
  <2>1. {"", "!", "*"} \cap
            {ByteOrder[62], ByteOrder[63], ByteOrder[64], ByteOrder[65], ByteOrder[66],
            ByteOrder[67], ByteOrder[68]} = {}
    BY DEF ByteOrder
  <2>2. \A i \in 62..68 : i \in {62, 63, 64, 65, 66, 67, 68}
    OBVIOUS
  <2> QED
    BY <2>1, <2>2, Zenon
<1>7. \A i \in 4..68 : i \in 4..16 \/ i \in 17..29 \/ i \in 30..42 \/ i \in 43..55 \/ i \in 56..61 \/ i \in 62..68
  OBVIOUS
<1> QED
  BY <1>1, <1>2, <1>3, <1>4, <1>5, <1>6, <1>7, Zenon

LEMMA FirstKinds ==
    /\ {"", "!", "*"} \subseteq Kinds
    /\ Rank[""] = 1 /\ Rank["!"] = 2 /\ Rank["*"] = 3
<1>1. ByteOrder[1] = "" /\ ByteOrder[2] = "!" /\ ByteOrder[3] = "*"
  BY DEF ByteOrder
<1>2. {"", "!", "*"} \subseteq Kinds
  <2>1. \A i \in 1..68 : ByteOrder[i] \in Kinds
    BY ByteOrderDomain DEF Kinds
  <2>2. ByteOrder[1] \in Kinds /\ ByteOrder[2] \in Kinds /\ ByteOrder[3] \in Kinds
    BY <2>1
  <2> QED
    BY <1>1, <2>2, Zenon
<1>3. \A i \in DOMAIN ByteOrder : ByteOrder[i] \in {"", "!", "*"} => i \in {1, 2, 3}
  <2>1. \A i \in 1..68 : i \in {1, 2, 3} \/ i \in 4..68
    OBVIOUS
  <2> QED
    BY <2>1, LaterKinds, ByteOrderDomain, Zenon
<1>4. \A kind \in {"", "!", "*"} :
         Rank[kind] \in DOMAIN ByteOrder /\ ByteOrder[Rank[kind]] = kind
  BY <1>2, RankIs, Zenon
<1>5. \A kind \in {"", "!", "*"} : Rank[kind] \in {1, 2, 3}
  BY <1>3, <1>4, Zenon
<1> QED
  BY <1>1, <1>2, <1>4, <1>5, Zenon

\* Every word of the signer's list has a rank.
LEMMA WordsAreKinds ==
    ListedLabels \cup BadSignatures \cup BadDenials
        \cup {"dnssec-failed", "txt-test", "ns-test", "unresolvable", "ns1", "ns2",
              "alert", "bobby-tables", "href"} \subseteq Kinds
<1>1. \A i \in 1..68 : ByteOrder[i] \in Kinds
  BY ByteOrderDomain DEF Kinds
<1>2. ListedLabels =
         {ByteOrder[6], ByteOrder[9], ByteOrder[14], ByteOrder[21], ByteOrder[12],
         ByteOrder[16], ByteOrder[17], ByteOrder[18], ByteOrder[23], ByteOrder[24],
         ByteOrder[25], ByteOrder[26], ByteOrder[27], ByteOrder[36], ByteOrder[37],
         ByteOrder[40], ByteOrder[67]}
  BY DEF ByteOrder, ListedLabels
<1>3. BadSignatures =
         {ByteOrder[60], ByteOrder[41], ByteOrder[42], ByteOrder[44], ByteOrder[45],
         ByteOrder[43]}
  BY DEF ByteOrder, BadSignatures
<1>4. BadDenials =
         {ByteOrder[32], ByteOrder[33], ByteOrder[34]}
  BY DEF ByteOrder, BadDenials
<1>5. {"dnssec-failed", "txt-test", "ns-test", "unresolvable", "ns1", "ns2", "alert", "bobby-tables",
         "href"} =
         {ByteOrder[15], ByteOrder[65], ByteOrder[29], ByteOrder[66], ByteOrder[30],
         ByteOrder[31], ByteOrder[7], ByteOrder[8], ByteOrder[22]}
  BY DEF ByteOrder
<1>6. ListedLabels \subseteq Kinds
  BY <1>1, <1>2
<1>7. BadSignatures \subseteq Kinds
  BY <1>1, <1>3
<1>8. BadDenials \subseteq Kinds
  BY <1>1, <1>4
<1>9. {"dnssec-failed", "txt-test", "ns-test", "unresolvable", "ns1", "ns2", "alert", "bobby-tables",
       "href"} \subseteq Kinds
  BY <1>1, <1>5
<1> QED
  BY <1>6, <1>7, <1>8, <1>9

\* Labels, and the padding of shorter names, which comes first: a strict total order.
Padded == Label \cup {NoLabel}

LEMMA PaddedLabels == \A a \in Padded : a.kind \in Kinds /\ a.arg \in Int
<1>1. NoLabel.kind = "" /\ NoLabel.arg = 0
  BY DEF NoLabel, Plain
<1>2. NoLabel.kind \in Kinds /\ NoLabel.arg \in Int
  <2>1. "" \in Kinds
    BY FirstKinds, Zenon
  <2>2. NoLabel.kind \in Kinds
    BY <1>1, <2>1, Zenon
  <2>3. NoLabel.arg = 0
    BY <1>1, Zenon
  <2>4. \A n : n = 0 => n \in Int
    OBVIOUS
  <2>5. NoLabel.arg \in Int
    BY <2>3, <2>4, Zenon
  <2> QED
    BY <2>2, <2>5, Zenon
<1>3. \A a \in Label : a.kind \in Kinds /\ a.arg \in Int
  BY Zenon DEF Label
<1> QED
  BY <1>2, <1>3 DEF Padded

LEMMA LabelOrder ==
    /\ \A a \in Padded : ~LabelLess(a, a)
    /\ \A a, b, c \in Padded : LabelLess(a, b) /\ LabelLess(b, c) => LabelLess(a, c)
    /\ \A a, b \in Padded : a = b \/ LabelLess(a, b) \/ LabelLess(b, a)
    /\ \A a \in Label : LabelLess(NoLabel, a)
<1>1. \A a \in Padded : Rank[a.kind] \in Nat /\ a.arg \in Int
  BY PaddedLabels, RankIs
<1>2. \A a, b \in Padded : Rank[a.kind] = Rank[b.kind] => a.kind = b.kind
  BY PaddedLabels, RankIs
<1>3. \A a \in Padded : ~LabelLess(a, a)
  BY <1>1 DEF LabelLess
<1>4. \A a, b, c \in Padded : LabelLess(a, b) /\ LabelLess(b, c) => LabelLess(a, c)
  BY <1>1, <1>2 DEF LabelLess
<1>5. \A a, b \in Padded : a.kind = b.kind /\ a.arg = b.arg => a = b
  <2> SUFFICES ASSUME NEW a \in Padded, NEW b \in Padded, a.kind = b.kind, a.arg = b.arg
               PROVE  a = b
    OBVIOUS
  <2>1. a = [kind |-> a.kind, arg |-> a.arg]
    BY Zenon DEF Padded, Label, NoLabel, Plain
  <2>2. b = [kind |-> b.kind, arg |-> b.arg]
    BY Zenon DEF Padded, Label, NoLabel, Plain
  <2> QED
    BY <2>1, <2>2
<1>6. \A a, b \in Padded : a = b \/ LabelLess(a, b) \/ LabelLess(b, a)
  <2> SUFFICES ASSUME NEW a \in Padded, NEW b \in Padded, a # b
               PROVE  LabelLess(a, b) \/ LabelLess(b, a)
    OBVIOUS
  <2>1. CASE a.kind = b.kind
    <3>1. a.arg # b.arg /\ a.arg \in Int /\ b.arg \in Int
      BY <1>1, <1>5, <2>1
    <3> QED
      BY <2>1, <3>1 DEF LabelLess
  <2>2. CASE a.kind # b.kind
    <3>1. Rank[a.kind] # Rank[b.kind] /\ Rank[a.kind] \in Nat /\ Rank[b.kind] \in Nat
      BY <1>1, <1>2, <2>2
    <3> QED
      BY <3>1 DEF LabelLess
  <2> QED
    BY <2>1, <2>2
<1>7. \A a \in Label : LabelLess(NoLabel, a)
  <2> SUFFICES ASSUME NEW a \in Label
               PROVE  LabelLess(NoLabel, a)
    OBVIOUS
  <2>1. a.kind \in Kinds /\ a.kind # "" /\ "" \in Kinds /\ Rank[""] = 1
    BY FirstKinds, Zenon DEF Label
  <2>2. Rank[a.kind] \in Nat /\ Rank[a.kind] >= 1 /\ Rank[a.kind] # 1
    BY <2>1, RankIs, Zenon
  <2>3. Rank[NoLabel.kind] = 1
    BY <2>1, Zenon DEF NoLabel, Plain
  <2>4. Rank[NoLabel.kind] < Rank[a.kind]
    BY <2>2, <2>3
  <2> QED
    BY <2>4 DEF LabelLess
<1> QED
  BY <1>3, <1>4, <1>6, <1>7

Names == Seq(Label)

\* The labels of a name from the right, and the padding after the last.
LEMMA FromRight ==
    ASSUME NEW a \in Names
    PROVE  /\ Len(a) \in Nat
           /\ \A k \in Nat \ {0} : LabelFromRight(a, k) \in Padded
           /\ \A k \in 1..Len(a) : LabelFromRight(a, k) \in Label /\ LabelFromRight(a, k) # NoLabel
           /\ \A k \in Nat \ {0} : k > Len(a) => LabelFromRight(a, k) = NoLabel
<1>1. Len(a) \in Nat /\ \A i \in 1..Len(a) : a[i] \in Label
  BY DEF Names
<1>2. \A k \in 1..Len(a) : LabelFromRight(a, k) \in Label
  <2> SUFFICES ASSUME NEW k \in 1..Len(a)
               PROVE  LabelFromRight(a, k) \in Label
    OBVIOUS
  <2>1. Len(a) + 1 - k \in 1..Len(a) /\ k <= Len(a)
    BY <1>1
  <2> QED
    BY <1>1, <2>1 DEF LabelFromRight
<1>3. NoLabel \notin Label
  BY DEF NoLabel, Plain, Label
<1>4. \A k \in Nat \ {0} : k > Len(a) => LabelFromRight(a, k) = NoLabel
  BY <1>1 DEF LabelFromRight
<1>5. \A k \in Nat \ {0} : k \in 1..Len(a) \/ k > Len(a)
  BY <1>1
<1> QED
  BY <1>1, <1>2, <1>3, <1>4, <1>5 DEF Padded

\* Names that agree from the right, as far as either goes, are the same.
LEMMA SameFromRight ==
    ASSUME NEW a \in Names, NEW b \in Names,
           \A k \in 1..(Len(a) + Len(b)) : LabelFromRight(a, k) = LabelFromRight(b, k)
    PROVE  a = b
<1>1. Len(a) \in Nat /\ Len(b) \in Nat
  BY FromRight
<1>2. ~(Len(a) < Len(b))
  <2> SUFFICES ASSUME Len(a) < Len(b)
               PROVE  FALSE
    OBVIOUS
  <2>1. Len(b) \in 1..(Len(a) + Len(b)) /\ Len(b) \in 1..Len(b) /\ Len(b) \in Nat \ {0}
    BY <1>1
  <2>2. LabelFromRight(a, Len(b)) = NoLabel /\ LabelFromRight(b, Len(b)) # NoLabel
    BY <2>1, FromRight
  <2> QED
    BY <2>1, <2>2
<1>3. ~(Len(b) < Len(a))
  <2> SUFFICES ASSUME Len(b) < Len(a)
               PROVE  FALSE
    OBVIOUS
  <2>1. Len(a) \in 1..(Len(a) + Len(b)) /\ Len(a) \in 1..Len(a) /\ Len(a) \in Nat \ {0}
    BY <1>1
  <2>2. LabelFromRight(b, Len(a)) = NoLabel /\ LabelFromRight(a, Len(a)) # NoLabel
    BY <2>1, FromRight
  <2> QED
    BY <2>1, <2>2
<1>4. Len(a) = Len(b)
  BY <1>1, <1>2, <1>3
<1>5. ASSUME NEW i \in 1..Len(a)
      PROVE  a[i] = b[i]
  <2> DEFINE k == Len(a) + 1 - i
  <2>1. k \in 1..(Len(a) + Len(b)) /\ k <= Len(a) /\ k <= Len(b) /\ Len(a) + 1 - k = i
        /\ Len(b) + 1 - k = i
    BY <1>1, <1>4
  <2>2. LabelFromRight(a, k) = a[Len(a) + 1 - k] /\ LabelFromRight(b, k) = b[Len(b) + 1 - k]
    BY <2>1 DEF LabelFromRight
  <2>3. LabelFromRight(a, k) = LabelFromRight(b, k)
    BY <2>1
  <2> HIDE DEF k
  <2> QED
    BY <2>1, <2>2, <2>3, Zenon
<1> QED
  BY <1>4, <1>5 DEF Names

\* The canonical order of names is a strict total order, and the apex comes first.
LEMMA NameOrder ==
    /\ \A a \in Names : ~dnsCanonicalLess(a, a)
    /\ \A a, b, c \in Names :
          dnsCanonicalLess(a, b) /\ dnsCanonicalLess(b, c) => dnsCanonicalLess(a, c)
    /\ \A a, b \in Names : a = b \/ dnsCanonicalLess(a, b) \/ dnsCanonicalLess(b, a)
    /\ \A a \in Names : a # Apex => dnsCanonicalLess(Apex, a)
<1> DEFINE At(a, k) == LabelFromRight(a, k)
<1>1. \A a \in Names : Len(a) \in Nat /\ \A k \in Nat \ {0} : At(a, k) \in Padded
  BY FromRight
<1>2. \A a \in Names : ~dnsCanonicalLess(a, a)
  <2> SUFFICES ASSUME NEW a \in Names, NEW k \in 1..(Len(a) + Len(a)), LabelLess(At(a, k), At(a, k))
               PROVE  FALSE
    BY DEF dnsCanonicalLess
  <2>1. At(a, k) \in Padded
    BY <1>1
  <2> HIDE DEF At
  <2> QED
    BY <2>1, LabelOrder
<1>3. ASSUME NEW a \in Names, NEW b \in Names, NEW c \in Names,
             dnsCanonicalLess(a, b), dnsCanonicalLess(b, c)
      PROVE  dnsCanonicalLess(a, c)
  <2>1. PICK k \in 1..(Len(a) + Len(b)) :
           (\A j \in 1..(k - 1) : At(a, j) = At(b, j)) /\ LabelLess(At(a, k), At(b, k))
    BY <1>3 DEF dnsCanonicalLess
  <2>2. PICK l \in 1..(Len(b) + Len(c)) :
           (\A j \in 1..(l - 1) : At(b, j) = At(c, j)) /\ LabelLess(At(b, l), At(c, l))
    BY <1>3 DEF dnsCanonicalLess
  <2> DEFINE i == IF k <= l THEN k ELSE l
  <2>3. /\ i \in Nat \ {0} /\ i <= k /\ i <= l /\ (i = k \/ i = l) /\ k \in Nat \ {0} /\ l \in Nat \ {0}
        /\ Len(a) \in Nat /\ Len(b) \in Nat /\ Len(c) \in Nat
    BY <1>1
  <2> HIDE DEF i, At
  <2>4. At(a, i) \in Padded /\ At(b, i) \in Padded /\ At(c, i) \in Padded
    BY <1>1, <2>3
  <2>5. \A j \in 1..(i - 1) : At(a, j) = At(c, j)
    <3> SUFFICES ASSUME NEW j \in 1..(i - 1)
                 PROVE  At(a, j) = At(c, j)
      OBVIOUS
    <3>1. j \in 1..(k - 1) /\ j \in 1..(l - 1)
      BY <2>3
    <3> QED
      BY <2>1, <2>2, <3>1
  <2>6. LabelLess(At(a, i), At(c, i))
    <3>1. At(a, i) = At(b, i) \/ LabelLess(At(a, i), At(b, i))
      <4>1. i = k \/ i \in 1..(k - 1)
        BY <2>3
      <4> QED
        BY <2>1, <4>1
    <3>2. At(b, i) = At(c, i) \/ LabelLess(At(b, i), At(c, i))
      <4>1. i = l \/ i \in 1..(l - 1)
        BY <2>3
      <4> QED
        BY <2>2, <4>1
    <3>3. LabelLess(At(a, i), At(b, i)) \/ LabelLess(At(b, i), At(c, i))
      BY <2>1, <2>2, <2>3
    <3> QED
      BY <2>4, <3>1, <3>2, <3>3, LabelOrder
  <2>7. i \in 1..(Len(a) + Len(c))
    <3>1. CASE i <= Len(a) \/ i <= Len(c)
      BY <2>3, <3>1
    <3>2. CASE i > Len(a) /\ i > Len(c)
      <4>1. At(a, i) = NoLabel /\ At(c, i) = NoLabel
        BY <2>3, <3>2, FromRight DEF At
      <4> QED
        BY <2>4, <2>6, <4>1, LabelOrder
    <3> QED
      BY <2>3, <3>1, <3>2
  <2> QED
    BY <2>5, <2>6, <2>7 DEF dnsCanonicalLess, At
<1>4. ASSUME NEW a \in Names, NEW b \in Names, a # b
      PROVE  dnsCanonicalLess(a, b) \/ dnsCanonicalLess(b, a)
  <2> DEFINE D == {k \in 1..(Len(a) + Len(b)) : At(a, k) # At(b, k)}
  <2>1. D \in SUBSET Nat
    BY <1>1
  <2>2. D # {}
    BY <1>4, SameFromRight
  <2>3. PICK k \in D : \A j \in D : k <= j
    <3> HIDE DEF D
    <3> QED
      BY <2>1, <2>2, Pick!LeastNumber
  <2>4. /\ k \in 1..(Len(a) + Len(b)) /\ k \in 1..(Len(b) + Len(a)) /\ k \in Nat \ {0}
        /\ At(a, k) # At(b, k)
    BY <1>1
  <2>5. \A j \in 1..(k - 1) : At(a, j) = At(b, j)
    <3> SUFFICES ASSUME NEW j \in 1..(k - 1), At(a, j) # At(b, j)
                 PROVE  FALSE
      OBVIOUS
    <3>1. j \in 1..(Len(a) + Len(b)) /\ ~(k <= j)
      BY <1>1, <2>4
    <3> QED
      BY <2>3, <3>1
  <2> HIDE DEF At, D
  <2>6. LabelLess(At(a, k), At(b, k)) \/ LabelLess(At(b, k), At(a, k))
    BY <1>1, <2>4, LabelOrder
  <2> QED
    BY <2>4, <2>5, <2>6 DEF dnsCanonicalLess, At
<1>5. ASSUME NEW a \in Names, a # Apex
      PROVE  dnsCanonicalLess(Apex, a)
  <2>1. Apex \in Names /\ Len(Apex) = 0 /\ Len(a) \in Nat /\ Len(a) # 0
    BY <1>5 DEF Names, Apex
  <2>2. 1 \in 1..(Len(Apex) + Len(a)) /\ 1 \in 1..Len(a) /\ 1 \in Nat \ {0} /\ 1 > Len(Apex)
    BY <2>1
  <2>3. At(a, 1) \in Label /\ At(Apex, 1) = NoLabel
    BY <2>1, <2>2, FromRight
  <2> HIDE DEF At
  <2>4. LabelLess(At(Apex, 1), At(a, 1))
    BY <2>3, LabelOrder
  <2>5. \A j \in 1..(1 - 1) : At(Apex, j) = At(a, j)
    OBVIOUS
  <2> QED
    BY <2>2, <2>4, <2>5 DEF dnsCanonicalLess, At
<1> QED
  BY <1>2, <1>3, <1>4, <1>5

-----------------------------------------------------------------------------
(***************************************************************************)
(* The sorted list.                                                        *)
(***************************************************************************)
LEMMA ImageFinite ==
    ASSUME NEW S, IsFiniteSet(S), NEW f
    PROVE  IsFiniteSet({f[x] : x \in S})
<1> DEFINE T == {f[x] : x \in S}
           g == [x \in S |-> f[x]]
<1>1. g \in Surjection(S, T)
  BY DEF Surjection
<1> HIDE DEF g, T
<1>2. IsFiniteSet(T)
  BY <1>1, FS_Surjection
<1> QED
  BY <1>2 DEF T

LEMMA KindsFinite == IsFiniteSet(Kinds)
<1> DEFINE n == 68
<1>1. n \in Int
  OBVIOUS
<1>2. Kinds = {ByteOrder[i] : i \in 1..n}
  BY ByteOrderDomain DEF Kinds
<1> HIDE DEF n
<1>3. IsFiniteSet(1..n)
  BY <1>1, FS_Interval
<1> QED
  BY <1>2, <1>3, ImageFinite, Zenon

\* A word that has a rank is a label.
LEMMA PlainLabels ==
    \A kind \in Kinds : kind # "" => Plain(kind) \in Label /\ Plain(kind).kind = kind
<1>0. 0 \in Int
  OBVIOUS
<1> SUFFICES ASSUME NEW kind \in Kinds, kind # ""
             PROVE  Plain(kind) \in Label /\ Plain(kind).kind = kind
  BY Zenon
<1>1. Plain(kind) = [kind |-> kind, arg |-> 0]
  BY Zenon DEF Plain
<1>2. kind \in Kinds \ {""}
  BY Zenon
<1> DEFINE K == Kinds \ {""}
<1>3. Label = [kind : K, arg : Int] /\ kind \in K
  BY <1>2, Zenon DEF Label
<1> DEFINE none == 0
           word == kind
<1>7. none \in Int
  BY <1>0, Zenon
<1>5. none \in Int /\ word \in K
  BY <1>2, <1>7, Zenon
<1> HIDE DEF K, none, word
<1>6. [kind |-> word, arg |-> none] \in [kind : K, arg : Int] /\ [kind |-> word, arg |-> none].kind = word
  BY <1>5, Zenon
<1>4. [kind |-> kind, arg |-> 0] \in [kind : K, arg : Int] /\ [kind |-> kind, arg |-> 0].kind = kind
  BY <1>6, Zenon DEF none, word
<1> QED
  BY <1>1, <1>3, <1>4, Zenon

FirstWords == {"", "!", "*"}
\* The names the signer knows are finitely many, and the last label of each is a word.
LEMMA ListedAreNames ==
    /\ IsFiniteSet(ListedNames) /\ ListedNames \subseteq Names /\ Apex \in ListedNames
    /\ \A n \in ListedNames : n = Apex \/ (n # <<>> /\ Last(n).kind \notin FirstWords)
<1> DEFINE Fails == BadSignatures \cup BadDenials
           Texts == {"alert", "bobby-tables", "href"}
           A == {<<Plain(l)>> : l \in ListedLabels}
           B == {<<Plain(l), Plain("dnssec-failed")>> : l \in Fails}
           C == {<<Plain(l), Plain("txt-test")>> : l \in Texts}
           n1 == <<Plain("ns1"), Plain("unresolvable"), Plain("ns-test")>>
           n2 == <<Plain("ns2"), Plain("unresolvable"), Plain("ns-test")>>
           D == {Apex, Unresolvable, n1, n2}
           Good(n) == n \in Names /\ (n = Apex \/ (n # <<>> /\ Last(n).kind \notin FirstWords))
<1>1. ListedNames = D \cup A \cup B \cup C
  <2>1. \A a, b, c : <<a>> \o <<b, c>> = <<a, b, c>>
    <3> TAKE a, b, c
    <3> DEFINE S == {a, b, c}
               s == <<a>>
               t == <<b, c>>
               u == <<a, b, c>>
    <3>1. s \in Seq(S) /\ t \in Seq(S) /\ u \in Seq(S) /\ Len(s) = 1 /\ Len(t) = 2 /\ Len(u) = 3
      OBVIOUS
    <3>2. s[1] = a /\ t[1] = b /\ t[2] = c /\ u[1] = a /\ u[2] = b /\ u[3] = c
      OBVIOUS
    <3> HIDE DEF s, t, u, S
    <3>7. \A x, y \in Seq(S) :
             /\ x \o y \in Seq(S) /\ Len(x \o y) = Len(x) + Len(y)
             /\ \A i \in 1..(Len(x) + Len(y)) :
                   (x \o y)[i] = IF i <= Len(x) THEN x[i] ELSE y[i - Len(x)]
      OBVIOUS
    <3>8. /\ s \o t \in Seq(S) /\ Len(s \o t) = 1 + 2
          /\ \A i \in 1..(1 + 2) : (s \o t)[i] = IF i <= 1 THEN s[i] ELSE t[i - 1]
      BY <3>1, <3>7
    <3>3. s \o t \in Seq(S) /\ Len(s \o t) = 3
      BY <3>8
    <3>4. (s \o t)[1] = s[1] /\ (s \o t)[2] = t[1] /\ (s \o t)[3] = t[2]
      <4> DEFINE st == s \o t
      <4>1. \A i \in 1..3 : st[i] = IF i <= 1 THEN s[i] ELSE t[i - 1]
        BY <3>8
      <4> HIDE DEF st
      <4>2. st[1] = s[1] /\ st[2] = t[1] /\ st[3] = t[2]
        BY <4>1
      <4> QED
        BY <4>2 DEF st
    <3>5. \A i \in 1..3 : (s \o t)[i] = u[i]
      <4>1. \A i \in 1..3 : i = 1 \/ i = 2 \/ i = 3
        OBVIOUS
      <4> QED
        BY <3>2, <3>4, <4>1, Zenon
    <3>6. s \o t = u
      BY <3>1, <3>3, <3>5
    <3> QED
      BY <3>6 DEF s, t, u
  <2>2. <<Plain("ns1")>> \o Unresolvable = n1 /\ <<Plain("ns2")>> \o Unresolvable = n2
    BY <2>1 DEF Unresolvable
  <2> HIDE DEF n1, n2
  <2> QED
    BY <2>2, Zenon DEF ListedNames
<1>2. /\ ListedLabels \subseteq Kinds /\ Fails \subseteq Kinds /\ Texts \subseteq Kinds
      /\ \A w \in {"dnssec-failed", "txt-test", "ns-test", "unresolvable", "ns1", "ns2"} : w \in Kinds
  BY WordsAreKinds
<1>3. ListedLabels \cap FirstWords = {} /\ Fails \cap FirstWords = {} /\ Texts \cap FirstWords = {}
  BY DEF ListedLabels, BadSignatures, BadDenials, FirstWords
<1>4. IsFiniteSet(A) /\ IsFiniteSet(B) /\ IsFiniteSet(C)
  <2>1. IsFiniteSet(ListedLabels) /\ IsFiniteSet(Fails) /\ IsFiniteSet(Texts)
    BY <1>2, KindsFinite, FS_Subset
  <2> HIDE DEF Fails, Texts
  <2> DEFINE a == [l \in ListedLabels |-> <<Plain(l)>>]
             b == [l \in Fails |-> <<Plain(l), Plain("dnssec-failed")>>]
             c == [l \in Texts |-> <<Plain(l), Plain("txt-test")>>]
  <2>2. IsFiniteSet({a[l] : l \in ListedLabels}) /\ A = {a[l] : l \in ListedLabels}
    BY <2>1, ImageFinite, Zenon
  <2>3. IsFiniteSet({b[l] : l \in Fails}) /\ B = {b[l] : l \in Fails}
    BY <2>1, ImageFinite, Zenon
  <2>4. IsFiniteSet({c[l] : l \in Texts}) /\ C = {c[l] : l \in Texts}
    BY <2>1, ImageFinite, Zenon
  <2> QED
    BY <2>2, <2>3, <2>4, Zenon
<1>5. IsFiniteSet(D)
  <2> HIDE DEF n1, n2
  <2>1. IsFiniteSet({Apex})
    BY FS_Singleton
  <2>2. IsFiniteSet({Apex} \cup {Unresolvable})
    BY <2>1, FS_AddElement
  <2>3. IsFiniteSet(({Apex} \cup {Unresolvable}) \cup {n1})
    BY <2>2, FS_AddElement
  <2>4. IsFiniteSet((({Apex} \cup {Unresolvable}) \cup {n1}) \cup {n2})
    BY <2>3, FS_AddElement
  <2>5. (({Apex} \cup {Unresolvable}) \cup {n1}) \cup {n2} = D
    OBVIOUS
  <2> QED
    BY <2>4, <2>5
<1>6. IsFiniteSet(D \cup A \cup B \cup C)
  <2> HIDE DEF A, B, C, D
  <2> QED
    BY <1>4, <1>5, FS_Union, Zenon
<1>7. ASSUME NEW l \in Kinds, l \notin FirstWords
      PROVE  Good(<<Plain(l)>>)
  <2> DEFINE a == Plain(l)
  <2>1. a \in Label /\ a.kind = l
    BY <1>7, PlainLabels, Zenon DEF FirstWords
  <2> HIDE DEF a
  <2>2. <<a>> \in Names /\ <<a>> # <<>> /\ Last(<<a>>) = a
    BY <2>1 DEF Names, Last
  <2> QED
    BY <1>7, <2>1, <2>2 DEF a
<1>8. ASSUME NEW l \in Kinds, l # "", NEW w \in Kinds, w \notin FirstWords
      PROVE  Good(<<Plain(l), Plain(w)>>)
  <2> DEFINE a == Plain(l)
             b == Plain(w)
  <2>1. a \in Label /\ b \in Label /\ b.kind = w
    BY <1>8, PlainLabels, Zenon DEF FirstWords
  <2> HIDE DEF a, b
  <2>2. <<a, b>> \in Names /\ <<a, b>> # <<>> /\ Last(<<a, b>>) = b
    BY <2>1 DEF Names, Last
  <2> QED
    BY <1>8, <2>1, <2>2, Zenon DEF a, b
<1>9. \A n \in A : Good(n)
  BY <1>2, <1>3, <1>7, Zenon
<1>10. \A n \in B \cup C : Good(n)
  <2>1. "dnssec-failed" \notin FirstWords /\ "txt-test" \notin FirstWords
    BY DEF FirstWords
  <2>2. \A l \in Fails \cup Texts : l \in Kinds /\ l # ""
    BY <1>2, <1>3, Zenon DEF FirstWords
  <2> HIDE DEF Fails, Texts, Good
  <2>3. \A l \in Fails : Good(<<Plain(l), Plain("dnssec-failed")>>)
    BY <1>2, <1>8, <2>1, <2>2, Zenon
  <2>4. \A l \in Texts : Good(<<Plain(l), Plain("txt-test")>>)
    BY <1>2, <1>8, <2>1, <2>2, Zenon
  <2> QED
    BY <2>3, <2>4
<1>11. \A n \in D : Good(n)
  <2>1. Good(Apex)
    BY DEF Names, Apex
  <2>2. Good(Unresolvable)
    <3>1. "ns-test" \notin FirstWords
      BY DEF FirstWords
    <3> QED
      BY <1>2, <1>8, <3>1, Zenon DEF Unresolvable
  <2>3. ASSUME NEW l \in {"ns1", "ns2"}
        PROVE  Good(<<Plain(l), Plain("unresolvable"), Plain("ns-test")>>)
    <3> DEFINE a == Plain(l)
               b == Plain("unresolvable")
               c == Plain("ns-test")
    <3>1. a \in Label /\ b \in Label /\ c \in Label /\ c.kind = "ns-test"
      BY <1>2, PlainLabels, Zenon
    <3> HIDE DEF a, b, c
    <3>2. <<a, b, c>> \in Names /\ <<a, b, c>> # <<>> /\ Last(<<a, b, c>>) = c
      BY <3>1 DEF Names, Last
    <3>3. "ns-test" \notin FirstWords
      BY DEF FirstWords
    <3> QED
      BY <3>1, <3>2, <3>3 DEF a, b, c
  <2> HIDE DEF Good
  <2> QED
    BY <2>1, <2>2, <2>3
<1>12. \A n \in ListedNames : Good(n)
  <2> HIDE DEF A, B, C, D, Good
  <2> QED
    BY <1>1, <1>9, <1>10, <1>11
<1> QED
  BY <1>1, <1>6, <1>12

\* The sorted list has every listed name, each in its place; the apex is the first.
LEMMA SortedNames ==
    /\ Len(existingNames) \in Nat /\ DOMAIN existingNames = 1..Len(existingNames)
    /\ \A i \in 1..Len(existingNames) : existingNames[i] \in ListedNames
    /\ \A n \in ListedNames : \E i \in 1..Len(existingNames) : existingNames[i] = n
    /\ \A i, j \in 1..Len(existingNames) :
          i < j <=> dnsCanonicalLess(existingNames[i], existingNames[j])
<1> DEFINE S == ListedNames
           R == {p \in S \X S : dnsCanonicalLess(p[1], p[2])}
           size == Cardinality(S)
           before(n) == {o \in S : dnsCanonicalLess(o, n)}
           at(i) == CHOOSE n \in S : Cardinality(before(n)) = i - 1
<1>1. \A a, b \in S : <<a, b>> \in R <=> dnsCanonicalLess(a, b)
  OBVIOUS
<1>2. IsFiniteSet(S) /\ S \subseteq Names
  BY ListedAreNames
<1>3. Pick!IsOrder(R, S)
  <2> HIDE DEF R, S
  <2>1. \A a \in S : a \in Names
    BY <1>2
  <2> QED
    BY <1>1, <2>1, NameOrder DEF Pick!IsOrder
<1>4. \A n \in S : Pick!Before(R, S, n) = before(n)
  BY <1>1 DEF Pick!Before
<1>5. /\ \A m, n \in S : dnsCanonicalLess(m, n) <=> Cardinality(before(m)) < Cardinality(before(n))
      /\ \A n \in S : Cardinality(before(n)) \in 0..(size - 1)
      /\ \A i \in 1..size : \E n \in S : Cardinality(before(n)) = i - 1
  <2>1. \A X : Pick!Cardinality(X) = Cardinality(X)
    BY DEF Pick!Cardinality, Cardinality
  <2>2. Pick!IsFiniteSet(S)
    BY <1>2 DEF Pick!IsFiniteSet, IsFiniteSet
  <2> HIDE DEF R, S, before
  <2>3. /\ \A m, n \in S : <<m, n>> \in R
              <=> Pick!Cardinality(Pick!Before(R, S, m)) < Pick!Cardinality(Pick!Before(R, S, n))
        /\ \A n \in S : Pick!Cardinality(Pick!Before(R, S, n)) \in 0..(Pick!Cardinality(S) - 1)
        /\ \A i \in 1..Pick!Cardinality(S) :
              \E n \in S : Pick!Cardinality(Pick!Before(R, S, n)) = i - 1
    BY <1>3, <2>2, Pick!Ordered
  <2>4. /\ \A m, n \in S : <<m, n>> \in R
              <=> Cardinality(Pick!Before(R, S, m)) < Cardinality(Pick!Before(R, S, n))
        /\ \A n \in S : Cardinality(Pick!Before(R, S, n)) \in 0..(Cardinality(S) - 1)
        /\ \A i \in 1..Cardinality(S) : \E n \in S : Cardinality(Pick!Before(R, S, n)) = i - 1
    BY <2>1, <2>3
  <2> QED
    BY <1>1, <1>4, <2>4, Zenon
<1>6. size \in Nat
  BY <1>2, FS_CardinalityType
<1>7. existingNames = [i \in 1..size |-> at(i)]
  BY Zenon DEF existingNames
<1>8. \A i \in 1..size : at(i) \in S /\ Cardinality(before(at(i))) = i - 1
  <2> HIDE DEF before, S
  <2> QED
    BY <1>5
<1> HIDE DEF at, before, S
<1>9. /\ Len(existingNames) = size /\ DOMAIN existingNames = 1..size
      /\ \A i \in 1..size : existingNames[i] = at(i)
  <2> HIDE DEF size
  <2> QED
    BY <1>6, <1>7
<1>10. \A i \in 1..size : existingNames[i] \in S /\ Cardinality(before(existingNames[i])) = i - 1
  BY <1>8, <1>9
<1>11. ASSUME NEW n \in S
       PROVE  \E i \in 1..size : existingNames[i] = n
  <2> DEFINE c == Cardinality(before(n))
             i == c + 1
  <2>1. c \in 0..(size - 1)
    BY <1>5
  <2> HIDE DEF c
  <2>2. i \in 1..size /\ i - 1 = c
    BY <1>6, <2>1
  <2>3. existingNames[i] \in S /\ Cardinality(before(existingNames[i])) = Cardinality(before(n))
    BY <1>10, <2>2 DEF c
  <2>4. Cardinality(before(n)) \in Int
    BY <2>1 DEF c
  <2>5. ~dnsCanonicalLess(existingNames[i], n) /\ ~dnsCanonicalLess(n, existingNames[i])
    <3>1. \A x \in Int : ~(x < x)
      OBVIOUS
    <3> QED
      BY <1>5, <2>3, <2>4, <3>1
  <2>6. existingNames[i] = n
    <3>1. existingNames[i] \in Names /\ n \in Names
      BY <1>2, <2>3
    <3> QED
      BY <2>5, <3>1, NameOrder
  <2> QED
    BY <2>2, <2>6
<1>12. ASSUME NEW i \in 1..size, NEW j \in 1..size
       PROVE  i < j <=> dnsCanonicalLess(existingNames[i], existingNames[j])
  <2>1. i < j <=> i - 1 < j - 1
    BY <1>6
  <2> QED
    BY <1>5, <1>10, <2>1
<1> HIDE DEF size
<1> QED
  BY <1>6, <1>9, <1>10, <1>11, <1>12 DEF S

\* Nothing comes before the apex, and what comes before a name does not come after it.
LEMMA ApexIsFirst ==
    /\ \A a \in Names : ~dnsCanonicalLess(a, Apex)
    /\ \A a, b \in Names : dnsCanonicalLess(a, b) => ~dnsCanonicalLess(b, a)
<1>1. Apex \in Names
  BY DEF Names, Apex
<1>2. \A a, b \in Names : dnsCanonicalLess(a, b) => ~dnsCanonicalLess(b, a)
  BY NameOrder
<1>3. \A a \in Names : ~dnsCanonicalLess(a, Apex)
  BY <1>1, <1>2, NameOrder
<1> QED
  BY <1>2, <1>3

\* The binary search finds where a name belongs: the listed names before it come first.
LEMMA SearchFinds ==
    ASSUME NEW name \in Names
    PROVE  /\ canonicalSearch(name) \in 1..(Len(existingNames) + 1)
           /\ \A j \in 1..Len(existingNames) :
                 j < canonicalSearch(name) <=> dnsCanonicalLess(existingNames[j], name)
           /\ name # Apex => canonicalSearch(name) # 1
           /\ IsListed(name) =>
                 /\ canonicalSearch(name) \in 1..Len(existingNames)
                 /\ existingNames[canonicalSearch(name)] = name
<1> DEFINE e == existingNames
           n == Len(e)
           less(i) == dnsCanonicalLess(e[i], name)
           Found(i) == /\ \A j \in 1..(i - 1) : less(j)
                       /\ i <= n => ~less(i)
           s == canonicalSearch(name)
<1>1. n \in Nat
  BY SortedNames
<1>2. \A i \in 1..n : e[i] \in ListedNames /\ e[i] \in Names
  BY SortedNames, ListedAreNames
<1>3. \A i, j \in 1..n : i < j <=> dnsCanonicalLess(e[i], e[j])
  BY SortedNames
<1>4. \E i \in 1..(n + 1) : Found(i)
  <2> DEFINE D == {i \in 1..(n + 1) : i <= n => ~less(i)}
  <2>1. D \in SUBSET Nat /\ n + 1 \in D
    BY <1>1
  <2>2. PICK i \in D : \A m \in D : i <= m
    <3> HIDE DEF D
    <3> QED
      BY <2>1, Pick!LeastNumber
  <2>3. i \in 1..(n + 1) /\ (i <= n => ~less(i))
    OBVIOUS
  <2>4. \A j \in 1..(i - 1) : less(j)
    <3> SUFFICES ASSUME NEW j \in 1..(i - 1), ~less(j)
                 PROVE  FALSE
      OBVIOUS
    <3>1. j \in 1..(n + 1) /\ ~(i <= j)
      BY <1>1, <2>3
    <3>2. j \in D
      BY <3>1
    <3> QED
      BY <2>2, <3>1, <3>2
  <2> QED
    BY <2>3, <2>4
<1>5. s = CHOOSE i \in 1..(n + 1) : Found(i)
  BY Zenon DEF canonicalSearch
<1> HIDE DEF s, Found
<1>6. s \in 1..(n + 1) /\ Found(s)
  BY <1>4, <1>5, Zenon
<1>7. ASSUME NEW j \in 1..n
      PROVE  j < s <=> less(j)
  <2>1. CASE j < s
    <3>1. j \in 1..(s - 1)
      BY <1>1, <1>6, <2>1
    <3> QED
      BY <1>6, <2>1, <3>1 DEF Found
  <2>2. CASE ~(j < s)
    <3>1. s \in 1..n /\ s <= n /\ (s = j \/ s < j)
      BY <1>1, <1>6, <2>2
    <3>2. ~less(s)
      BY <1>6, <3>1 DEF Found
    <3>3. s < j => dnsCanonicalLess(e[s], e[j])
      BY <1>3, <3>1
    <3>4. ASSUME s < j, less(j)
          PROVE  FALSE
      <4>1. dnsCanonicalLess(e[s], e[j]) /\ dnsCanonicalLess(e[j], name)
        BY <3>3, <3>4
      <4>2. e[s] \in Names /\ e[j] \in Names
        BY <1>2, <3>1
      <4>3. dnsCanonicalLess(e[s], name)
        BY <4>1, <4>2, NameOrder
      <4> QED
        BY <3>2, <4>3
    <3> QED
      BY <2>2, <3>1, <3>2, <3>4
  <2> QED
    BY <2>1, <2>2
<1>8. ASSUME name # Apex
      PROVE  s # 1
  <2>1. PICK i \in 1..n : e[i] = Apex
    BY SortedNames, ListedAreNames
  <2>2. less(i)
    BY <1>8, <2>1, NameOrder
  <2>3. i < s
    BY <1>7, <2>2
  <2> QED
    BY <1>1, <1>6, <2>3
<1>9. ASSUME IsListed(name)
      PROVE  s \in 1..n /\ e[s] = name
  <2>1. PICK i \in 1..n : e[i] = name
    BY <1>9, SortedNames DEF IsListed
  <2>2. ~less(i)
    BY <2>1, NameOrder
  <2>3. ~(i < s)
    BY <1>7, <2>2
  <2>4. s \in 1..n /\ (s < i \/ s = i)
    BY <1>1, <1>6, <2>3
  <2>5. ~(s < i)
    <3>1. ~less(s)
      BY <1>1, <1>6, <1>7, <2>4
    <3> QED
      BY <1>3, <2>1, <2>4, <3>1
  <2> QED
    BY <2>1, <2>4, <2>5
<1> QED
  BY <1>6, <1>7, <1>8, <1>9 DEF s

\* The names around a name: none of the list is between it and the next one, and the
\* next one is the apex only if none of the list comes after.
LEMMA NextIsNext ==
    ASSUME NEW name \in Names, NEW n \in ListedNames, dnsCanonicalLess(name, n)
    PROVE  NextAfter(name) # Apex /\ ~dnsCanonicalLess(n, NextAfter(name))
<1> DEFINE e == existingNames
           s == canonicalSearch(name)
           t == s + IF IsListed(name) THEN 1 ELSE 0
<1>1. Len(e) \in Nat /\ s \in 1..(Len(e) + 1)
  BY SortedNames, SearchFinds
<1>2. PICK j \in 1..Len(e) : e[j] = n
  BY SortedNames
<1>3. n \in Names
  BY ListedAreNames
<1>4. ~(j < s)
  <2>1. ~dnsCanonicalLess(n, name)
    BY <1>3, ApexIsFirst
  <2> QED
    BY <1>2, <2>1, SearchFinds
<1>5. t \in 1..Len(e) /\ ~(j < t)
  <2>1. CASE IsListed(name)
    <3>1. s \in 1..Len(e) /\ e[s] = name
      BY <2>1, SearchFinds
    <3>2. s < j
      BY <1>2, <3>1, SortedNames
    <3> QED
      BY <1>1, <2>1, <3>1, <3>2
  <2>2. CASE ~IsListed(name)
    BY <1>1, <1>4, <2>2
  <2> QED
    BY <2>1, <2>2
<1>6. NextAfter(name) = e[t]
  <2>1. NextAfter(name) = NameAt(t)
    BY Zenon DEF NextAfter
  <2> HIDE DEF t
  <2>2. t <= Len(e)
    BY <1>1, <1>5
  <2> QED
    BY <2>1, <2>2, Zenon DEF NameAt
<1>7. ~dnsCanonicalLess(n, e[t])
  <2> HIDE DEF t
  <2> QED
    BY <1>2, <1>5, SortedNames
<1>8. e[t] # Apex
  <2>1. CASE IsListed(name)
    <3>1. s \in 1..Len(e) /\ e[s] = name /\ s < t
      BY <1>1, <2>1, SearchFinds
    <3>2. dnsCanonicalLess(name, e[t])
      <4> HIDE DEF t
      <4> QED
        BY <1>5, <3>1, SortedNames
    <3> QED
      BY <3>2, ApexIsFirst
  <2>2. CASE ~IsListed(name)
    <3>1. name # Apex
      BY <2>2, ListedAreNames DEF IsListed
    <3>2. t = s
      BY <1>1, <2>2
    <3>3. ~dnsCanonicalLess(e[t], name)
      <4>1. ~(t < s)
        BY <1>1, <3>2
      <4> HIDE DEF t
      <4> QED
        BY <1>5, <4>1, SearchFinds
    <3> QED
      BY <3>1, <3>3, NameOrder
  <2> QED
    BY <2>1, <2>2
<1> QED
  BY <1>6, <1>7, <1>8

\* The names around a name in the chain are names of labels.
LEMMA WildcardIsName == Wildcard \in Names /\ ~IsListed(Wildcard)
<1> DEFINE star == Plain("*")
<1>1. star \in Label /\ star.kind = "*"
  BY FirstKinds, PlainLabels, Zenon
<1>2. Wildcard = <<star>>
  BY DEF Wildcard
<1> HIDE DEF star
<1>3. Wildcard \in Names /\ Last(Wildcard) = star /\ Wildcard # Apex
  BY <1>1, <1>2 DEF Names, Last, Apex
<1>4. ~IsListed(Wildcard)
  BY <1>1, <1>3, ListedAreNames, Zenon DEF IsListed, FirstWords
<1> QED
  BY <1>3, <1>4

LEMMA NamesAreChained ==
    ASSUME NEW name \in Names
    PROVE  IsChained(name)
<1> DEFINE e == existingNames
           s == canonicalSearch(name)
           t == s + IF IsListed(name) THEN 1 ELSE 0
<1>1. Len(e) \in Nat /\ s \in 1..(Len(e) + 1)
  BY SortedNames, SearchFinds
<1>2. \A n \in ListedNames : Len(n) \in Nat
  BY ListedAreNames DEF Names
<1>3. \A i \in 1..Len(e) : Len(e[i]) \in Nat
  BY <1>2, SortedNames
<1>4. Len(name) \in Nat /\ Len(Apex) \in Nat
  BY DEF Names, Apex
<1>5. ASSUME NEW i \in Nat, i >= 1
      PROVE  Len(NameAt(i)) \in Nat
  <2>1. i <= Len(e) => i \in 1..Len(e)
    BY <1>1, <1>5
  <2> QED
    BY <1>3, <1>4, <2>1 DEF NameAt
<1>6. s \in Nat /\ s >= 1 /\ t \in Nat /\ t >= 1
  <2> HIDE DEF s, e
  <2> QED
    BY <1>1
<1>7. Len(NextAfter(name)) \in Nat /\ Len(NextOrSame(name)) \in Nat
  <2>1. NextAfter(name) = NameAt(t) /\ NextOrSame(name) = NameAt(s)
    BY Zenon DEF NextAfter, NextOrSame
  <2> HIDE DEF s, t
  <2> QED
    BY <1>5, <1>6, <2>1
<1>8. 2 \in 1..Len(e)
  <2>1. Apex \in ListedNames /\ Unresolvable \in ListedNames
    BY Zenon DEF ListedNames
  <2>2. Apex # Unresolvable
    BY DEF Apex, Unresolvable
  <2>3. PICK i \in 1..Len(e), j \in 1..Len(e) : e[i] = Apex /\ e[j] = Unresolvable
    BY <2>1, SortedNames, Zenon
  <2>4. i # j
    BY <2>2, <2>3
  <2> HIDE DEF e
  <2> QED
    BY <1>1, <2>4
<1>9. Len(WrongNext(name)) \in Nat
  <2>1. WrongNext(name) = e[2] \/ WrongNext(name) = NextAfter(name)
    BY Zenon DEF WrongNext
  <2> HIDE DEF e
  <2> QED
    BY <1>3, <1>7, <1>8, <2>1
<1>10. ~IsListed(name) => Len(Prev(name)) \in Nat
  <2> SUFFICES ASSUME ~IsListed(name) PROVE Len(Prev(name)) \in Nat
    OBVIOUS
  <2>1. name # Apex
    BY ListedAreNames DEF IsListed
  <2>2. s # 1
    BY <2>1, SearchFinds
  <2>3. Prev(name) = e[s - 1]
    BY Zenon DEF Prev
  <2> HIDE DEF s, e
  <2>4. s - 1 \in 1..Len(e)
    BY <1>1, <2>2
  <2> QED
    BY <1>3, <2>3, <2>4
<1> QED
  BY <1>4, <1>7, <1>9, <1>10 DEF IsChained

LEMMA ChainedNames ==
    ASSUME NEW labels \in Names
    PROVE  AreChained(labels) /\ Len(labels) \in Nat
  BY NamesAreChained, WildcardIsName DEF AreChained, Names

LEMMA QueriesAreChained ==
    ASSUME NEW q, IsQuery(q)
    PROVE  AreChained(q.labels)
  BY NameFits, ChainedNames DEF Names

-----------------------------------------------------------------------------
(***************************************************************************)
(* The inductive invariant: where a handler is, and what its reply is by   *)
(* then.                                                                   *)
(***************************************************************************)
\* At p, the transport of q has finalized the reply.
IsFinalAt(p, q) ==
    \/ q.transport = "DoH" /\ p \in {"meter", "write", "done"}
    \/ q.transport \in ServeDNSTransports /\ p \in {"write", "done"}

\* Handle may return m for q.
IsHandled(q, m) == \E seen \in Nat : m = Handle(q, seen)

\* A handler at p, with query q of its queries, reply r, Handle's message m and s sent.
IsOnItsWay(p, queries, q, r, m, s) ==
    /\ p # "idle" => q \in queries /\ IsQuery(q)
    /\ p \in {"idle", "handle"} => m = NoMsg
    /\ p # "done" => s = NoMsg
    /\ p \notin {"idle", "handle"} =>
           /\ Handled(q, m) /\ IsHandled(q, m)
           /\ r = IF IsFinalAt(p, q) THEN FinalizeResponse(q, m, HostnameBytes) ELSE m
           /\ q.transport = "DoQ" => p \in {"write", "done"}
    /\ p = "done" => (s = NoMsg /\ ~Packs(r)) \/ (s = r /\ Packs(r))

ReplyInv ==
    /\ pc = [h \in Handlers |-> pc[h]] /\ query = [h \in Handlers |-> query[h]]
    /\ reply = [h \in Handlers |-> reply[h]] /\ handled = [h \in Handlers |-> handled[h]]
    /\ sent = [h \in Handlers |-> sent[h]]
    /\ \A h \in Handlers :
           IsOnItsWay(pc[h], Queries[h], query[h], reply[h], handled[h], sent[h])

LEMMA InitReply == Init => ReplyInv
<1> SUFFICES ASSUME Init PROVE ReplyInv
  OBVIOUS
<1>1. /\ pc = [h \in Handlers |-> "idle"] /\ query = [h \in Handlers |-> NoQuery]
      /\ reply = [h \in Handlers |-> NoMsg] /\ handled = [h \in Handlers |-> NoMsg]
      /\ sent = [h \in Handlers |-> NoMsg]
  BY DEF Init
<1>2. \A q, r : IsOnItsWay("idle", q, NoQuery, r, NoMsg, NoMsg)
  BY DEF IsOnItsWay
<1> QED
  BY <1>1, <1>2 DEF ReplyInv

\* A step of one handler.
StepOf(h, p, q, r, m, s) ==
    /\ pc' = [pc EXCEPT ![h] = p] /\ query' = [query EXCEPT ![h] = q]
    /\ reply' = [reply EXCEPT ![h] = r] /\ handled' = [handled EXCEPT ![h] = m]
    /\ sent' = [sent EXCEPT ![h] = s]

\* A step of one handler leaves the others where they are.
LEMMA StepKeeps ==
    ASSUME ReplyInv, NEW h \in Handlers, NEW p, NEW q, NEW r, NEW m, NEW s,
           StepOf(h, p, q, r, m, s), IsOnItsWay(p, Queries[h], q, r, m, s)
    PROVE  ReplyInv'
<1>1. /\ pc' = [g \in Handlers |-> IF g = h THEN p ELSE pc[g]]
      /\ query' = [g \in Handlers |-> IF g = h THEN q ELSE query[g]]
      /\ reply' = [g \in Handlers |-> IF g = h THEN r ELSE reply[g]]
      /\ handled' = [g \in Handlers |-> IF g = h THEN m ELSE handled[g]]
      /\ sent' = [g \in Handlers |-> IF g = h THEN s ELSE sent[g]]
  BY Zenon DEF StepOf, ReplyInv
<1>2. ASSUME NEW g \in Handlers
      PROVE  IsOnItsWay(pc'[g], Queries[g], query'[g], reply'[g], handled'[g], sent'[g])
  <2>1. CASE g = h
    BY <1>1, <2>1
  <2>2. CASE g # h
    BY <1>1, <2>2 DEF ReplyInv
  <2> QED
    BY <2>1, <2>2
<1>3. /\ pc' = [g \in Handlers |-> pc'[g]] /\ query' = [g \in Handlers |-> query'[g]]
      /\ reply' = [g \in Handlers |-> reply'[g]] /\ handled' = [g \in Handlers |-> handled'[g]]
      /\ sent' = [g \in Handlers |-> sent'[g]]
  BY <1>1
<1> QED
  BY <1>2, <1>3 DEF ReplyInv

LEMMA NextReply == ReplyInv /\ [Next]_vars => ReplyInv'
<1> SUFFICES ASSUME ReplyInv, [Next]_vars PROVE ReplyInv'
  OBVIOUS
<1>1. ASSUME UNCHANGED vars
      PROVE  ReplyInv'
  BY <1>1 DEF vars, ReplyInv
<1>2. ASSUME NEW h \in Handlers,
             Receive(h) \/ HandleQuery(h) \/ Meter(h) \/ Relate(h) \/ FinalizeReply(h) \/ Write(h)
      PROVE  ReplyInv'
  <2> DEFINE q == query[h]
             m == handled[h]
             r == reply[h]
             final == FinalizeResponse(q, m, HostnameBytes)
  <2>0. /\ IsOnItsWay(pc[h], Queries[h], q, r, m, sent[h])
        /\ query = [query EXCEPT ![h] = q] /\ reply = [reply EXCEPT ![h] = r]
        /\ handled = [handled EXCEPT ![h] = m] /\ sent = [sent EXCEPT ![h] = sent[h]]
    BY Zenon DEF ReplyInv
  <2>1. CASE Receive(h)
    <3>1. PICK new \in Queries[h] : query' = [query EXCEPT ![h] = new]
      BY <2>1, Zenon DEF Receive
    <3>2. StepOf(h, "handle", new, r, m, sent[h]) /\ pc[h] = "idle"
      BY <2>0, <2>1, <3>1, Zenon DEF Receive, StepOf
    <3>3. IsQuery(new)
      BY HandlerAssumption
    <3>4. IsOnItsWay("handle", Queries[h], new, r, m, sent[h])
      BY <2>0, <3>2, <3>3 DEF IsOnItsWay
    <3> QED
      BY <3>2, <3>4, StepKeeps
  <2>2. CASE HandleQuery(h)
    <3> DEFINE p == AfterHandle(q.transport)
    <3>1. PICK seen \in Nat :
             /\ reply' = [reply EXCEPT ![h] = Handle(q, seen)]
             /\ handled' = [handled EXCEPT ![h] = Handle(q, seen)]
      <4>1. SequenceLengths \subseteq Nat /\ 0 \in Nat
        BY HandlerAssumption
      <4>2. \A n \in (IF IsIn(q.labels, "qname-min") THEN SequenceLengths ELSE {0}) : n \in Nat
        BY <4>1
      <4> QED
        BY <2>2, <4>2, Zenon DEF HandleQuery
    <3> DEFINE new == Handle(q, seen)
    <3>2. pc[h] = "handle" /\ pc' = [pc EXCEPT ![h] = p] /\ query' = query /\ sent' = sent
      BY <2>2 DEF HandleQuery
    <3>3. StepOf(h, p, q, new, new, sent[h])
      BY <2>0, <3>1, <3>2 DEF StepOf
    <3>5. IsQuery(q) /\ q \in Queries[h] /\ sent[h] = NoMsg
      BY <2>0, <3>2 DEF IsOnItsWay
    <3>4. Handled(q, new) /\ IsHandled(q, new)
      BY <3>5, HandledReply, QueriesAreChained, Zenon DEF IsHandled
    <3>6. /\ p \in {"meter", "finalize", "write"} /\ ~IsFinalAt(p, q)
          /\ q.transport = "DoQ" => p = "write"
      BY <3>5 DEF IsQuery, AfterHandle, ServeDNSTransports, IsFinalAt
    <3> HIDE DEF p, q, new
    <3>7. IsOnItsWay(p, Queries[h], q, new, new, sent[h])
      BY <3>4, <3>5, <3>6 DEF IsOnItsWay
    <3> QED
      BY <3>3, <3>7, StepKeeps
  <2>3. CASE Meter(h)
    <3> DEFINE p == IF q.transport = "DoH" THEN "write" ELSE "relate"
    <3>1. pc[h] = "meter" /\ StepOf(h, p, q, r, m, sent[h])
      BY <2>0, <2>3 DEF Meter, StepOf
    <3>2. IsFinalAt(p, q) <=> IsFinalAt("meter", q)
      BY DEF IsFinalAt, ServeDNSTransports
    <3>3. p \in {"write", "relate"}
      OBVIOUS
    <3>4. q.transport # "DoQ"
      BY <2>0, <3>1 DEF IsOnItsWay
    <3> HIDE DEF p, q, r, m
    <3>5. IsOnItsWay(p, Queries[h], q, r, m, sent[h])
      BY <2>0, <3>1, <3>2, <3>3, <3>4 DEF IsOnItsWay
    <3> QED
      BY <3>1, <3>5, StepKeeps
  <2>4. CASE Relate(h)
    <3>1. pc[h] = "relate" /\ StepOf(h, "finalize", q, r, m, sent[h])
      BY <2>0, <2>4 DEF Relate, StepOf
    <3>2. ~IsFinalAt("finalize", q) /\ ~IsFinalAt("relate", q)
      BY DEF IsFinalAt
    <3>3. q.transport # "DoQ"
      BY <2>0, <3>1 DEF IsOnItsWay
    <3> HIDE DEF q, r, m
    <3>4. IsOnItsWay("finalize", Queries[h], q, r, m, sent[h])
      BY <2>0, <3>1, <3>2, <3>3 DEF IsOnItsWay
    <3> QED
      BY <3>1, <3>4, StepKeeps
  <2>5. CASE FinalizeReply(h)
    <3> DEFINE p == IF q.transport = "DoH" THEN "meter" ELSE "write"
    <3>1. ~IsFinalAt("finalize", q)
      BY DEF IsFinalAt
    <3>2. pc[h] = "finalize"
      BY <2>5 DEF FinalizeReply
    <3>3. /\ r = m /\ Handled(q, m) /\ IsHandled(q, m)
          /\ IsQuery(q) /\ q \in Queries[h] /\ sent[h] = NoMsg /\ q.transport # "DoQ"
      BY <2>0, <3>1, <3>2 DEF IsOnItsWay
    <3>4. StepOf(h, p, q, final, m, sent[h])
      BY <2>0, <2>5, <3>3 DEF FinalizeReply, StepOf
    <3>5. p \in {"meter", "write"} /\ IsFinalAt(p, q)
      BY <3>3 DEF IsFinalAt, IsQuery
    <3> HIDE DEF p
    <3>6. final = FinalizeResponse(q, m, HostnameBytes)
      OBVIOUS
    <3> HIDE DEF final, q, m
    <3>7. IsOnItsWay(p, Queries[h], q, final, m, sent[h])
      BY <3>3, <3>5, <3>6 DEF IsOnItsWay
    <3> QED
      BY <3>4, <3>7, StepKeeps
  <2>6. CASE Write(h)
    <3> DEFINE s == IF Packs(r) THEN r ELSE sent[h]
    <3>1. pc[h] = "write" /\ StepOf(h, "done", q, r, m, s)
      <4>1. sent' = [sent EXCEPT ![h] = s]
        BY <2>0, <2>6, Zenon DEF Write
      <4> QED
        BY <2>0, <2>6, <4>1, Zenon DEF Write, StepOf
    <3>2. IsFinalAt("done", q) <=> IsFinalAt("write", q)
      BY DEF IsFinalAt
    <3>3. sent[h] = NoMsg
      BY <2>0, <3>1 DEF IsOnItsWay
    <3>4. (s = NoMsg /\ ~Packs(r)) \/ (s = r /\ Packs(r))
      BY <3>3
    <3> HIDE DEF s, q, r, m
    <3>5. IsOnItsWay("done", Queries[h], q, r, m, s)
      BY <2>0, <3>1, <3>2, <3>4 DEF IsOnItsWay
    <3> QED
      BY <3>1, <3>5, StepKeeps
  <2> QED
    BY <1>2, <2>1, <2>2, <2>3, <2>4, <2>5, <2>6
<1> QED
  BY <1>1, <1>2 DEF Next

\* At every step of its life a handler's reply is the one Handle returned, or what
\* FinalizeResponse makes of that one, by transport; it is sent as it is, if it packs.
THEOREM ReplyInvariant == Spec => []ReplyInv
<1> QED
  BY InitReply, NextReply, PTL DEF Spec

-----------------------------------------------------------------------------
\* What was sent is what Handle built, finalized unless the transport is DoQ.
LEMMA AnsweredReply ==
    ASSUME ReplyInv, NEW h \in Handlers, Answered(h)
    PROVE  /\ IsQuery(query[h]) /\ Handled(query[h], handled[h]) /\ Packs(sent[h])
           /\ IsFinalized(query[h]) =>
                  /\ sent[h] = FinalizeResponse(query[h], handled[h], HostnameBytes)
                  /\ Finalized(query[h], handled[h], sent[h])
           /\ ~IsFinalized(query[h]) => sent[h] = handled[h]
<1> DEFINE q == query[h]
           m == handled[h]
           r == reply[h]
           n == sent[h]
<1>1. IsOnItsWay("done", Queries[h], q, r, m, n) /\ n # NoMsg
  BY DEF ReplyInv, Answered
<1> HIDE DEF q, m, r, n
<1>2. /\ IsQuery(q) /\ Handled(q, m) /\ Packs(n) /\ n = r
      /\ r = IF IsFinalAt("done", q) THEN FinalizeResponse(q, m, HostnameBytes) ELSE m
  BY <1>1 DEF IsOnItsWay
<1>3. IsFinalAt("done", q) <=> IsFinalized(q)
  BY <1>2 DEF IsQuery, IsFinalAt, IsFinalized, ServeDNSTransports
<1>4. IsFinalized(q) => n = FinalizeResponse(q, m, HostnameBytes) /\ Finalized(q, m, n)
  BY <1>2, <1>3, AnswersAssumption, FinalizedReply
<1> QED
  BY <1>2, <1>3, <1>4 DEF q, m, n

\* set-ttl-N gives every record of the answer and the authority of a finalized reply
\* the TTL N of the last valid one, however many options the name has.
THEOREM TtlsAreAsAsked == Spec => []TtlsAsAsked
<1>1. ReplyInv => TtlsAsAsked
  <2> SUFFICES ASSUME ReplyInv, NEW h \in Handlers, Answered(h), IsFinalized(query[h]),
                      ValidOptions(OptionsOf(query[h]), "set-ttl") # <<>>,
                      NEW rrs \in {sent[h].answer, sent[h].ns}, NEW i \in DOMAIN rrs
               PROVE  rrs[i].ttl = Last(ValidOptions(OptionsOf(query[h]), "set-ttl")).arg
    BY DEF TtlsAsAsked
  <2>1. Finished(query[h], handled[h], sent[h])
    BY AnsweredReply DEF Finalized
  <2>2. /\ IsMessage(sent[h])
        /\ HasTtl(sent[h], Last(ValidOptions(OptionsOf(query[h]), "set-ttl")).arg)
    BY <2>1 DEF Finished
  <2>3. DOMAIN sent[h].answer = 1..Len(sent[h].answer) /\ DOMAIN sent[h].ns = 1..Len(sent[h].ns)
    BY <2>2, Section DEF IsMessage
  <2> QED
    BY <2>2, <2>3, Zenon DEF HasTtl
<1> QED
  BY <1>1, ReplyInvariant, PTL

\* set-noedns wins over every other option: no OPT record, at most 512 bytes, and TC if
\* a record was dropped for it.
THEOREM NoEdnsAlwaysWins == Spec => []NoEdnsWins
<1>1. ReplyInv => NoEdnsWins
  <2> SUFFICES ASSUME ReplyInv, NEW h \in Handlers, Answered(h), IsFinalized(query[h]),
                      Asks(query[h], "set-noedns")
               PROVE  /\ ~HasOpt(sent[h])
                      /\ Size(sent[h]) <= 512
                      /\ HasFewer(sent[h], Given(h)) => sent[h].tc
    BY DEF NoEdnsWins
  <2>1. Finished(query[h], handled[h], sent[h]) /\ Packs(sent[h])
    BY AnsweredReply DEF Finalized
  <2>2. Given(h) = WithAnswer(query[h], handled[h])
    BY DEF Given, WithAnswer
  <2> QED
    BY <2>1, <2>2 DEF Finished, Asks
<1> QED
  BY <1>1, ReplyInvariant, PTL

\* TC is set for one of three reasons only.
THEOREM TruncationIsExplained == Spec => []TruncatedOnlyIf
<1>1. ReplyInv => TruncatedOnlyIf
  <2> SUFFICES ASSUME ReplyInv, NEW h \in Handlers, Answered(h), sent[h].tc
               PROVE  \/ IsApexDnskey(query[h]) /\ (~query[h].edns.present \/ handled[h].rcode = BadVers
                                                      \/ UdpSize(query[h].edns) <= 512)
                      \/ AsksValidly(query[h], "set-flags")
                           /\ Bit(Last(ValidOptions(OptionsOf(query[h]), "set-flags")).arg, 9)
                      \/ Asks(query[h], "set-noedns") /\ Size(sent[h]) <= 512
                           /\ HasFewer(sent[h], Given(h))
    BY DEF TruncatedOnlyIf
  <2>1. Given(h) = WithAnswer(query[h], handled[h])
    BY DEF Given, WithAnswer
  <2>2. IsFinalized(query[h])
    BY AnsweredReply DEF Handled
  <2>3. Finished(query[h], handled[h], sent[h])
    BY <2>2, AnsweredReply DEF Finalized
  <2>4. \/ IsMarked(query[h], handled[h]) \/ Tc(query[h])
        \/ /\ HasOption(OptionsOf(query[h]), "set-noedns") /\ Size(sent[h]) <= 512
           /\ HasFewer(sent[h], WithAnswer(query[h], handled[h]))
    BY <2>3 DEF Finished
  <2> QED
    BY <2>1, <2>4 DEF IsMarked, Mirrors, Tc, AsksValidly, Asks
<1> QED
  BY <1>1, ReplyInvariant, PTL

\* setednspad-N pads a reply to N bytes, whatever else its name asks for: one that got no
\* padding lacks at most the header of an option, and only an NSID comes on top.
THEOREM PaddingIsAsAsked == Spec => []PaddedAsAsked
<1>1. ReplyInv => PaddedAsAsked
  <2> SUFFICES ASSUME ReplyInv, NEW h \in Handlers, Answered(h), IsFinalized(query[h]),
                      NEW pads, pads = ValidOptions(OptionsOf(query[h]), "setednspad"), pads # <<>>,
                      ~Asks(query[h], "set-noedns")
               PROVE  /\ Size(sent[h]) >= Last(pads).arg - 4
                      /\ "PADDING" \in OptOf(sent[h]).codes /\ ~query[h].edns.nsid =>
                            Size(sent[h]) = Last(pads).arg
    BY Zenon DEF PaddedAsAsked
  <2> DEFINE q == query[h]
             m == handled[h]
             n == sent[h]
  <2>1. /\ IsQuery(q) /\ Handled(q, m) /\ Packs(n)
        /\ n = FinalizeResponse(q, m, HostnameBytes)
    BY AnsweredReply
  <2>2. IsMessage(m) /\ Unpadded(m)
    BY <2>1 DEF Handled
  <2>3. q.labels \in Seq(Label) /\ Len(q.labels) \in Nat
    BY <2>1, NameFits
  <2>4. ~HasOption(OptionsOf(q), "set-noedns") /\ pads = ValidOptions(OptionsOf(q), "setednspad")
    BY DEF Asks
  <2> HIDE DEF q, m, n
  <2>5. /\ Size(n) >= Last(pads).arg - 4
        /\ "PADDING" \in OptOf(n).codes /\ ~(q.edns.present /\ q.edns.nsid) =>
               Size(n) = Last(pads).arg
    BY <2>1, <2>2, <2>3, <2>4, AnswersAssumption, FinalizedSize
  <2> QED
    BY <2>5 DEF q, n
<1> QED
  BY <1>1, ReplyInvariant, PTL

\* The UDP size of the reply is the client's, within 1 and 4096.
LEMMA UdpSizeIs ==
    ASSUME NEW edns, edns.udp \in Nat
    PROVE  UdpSize(edns) = Capped(edns.udp)
<1> DEFINE udp == edns.udp
<1>1. UdpSize(edns) = IF udp = 0 THEN 4096 ELSE IF udp < 4096 THEN udp ELSE 4096
  BY DEF UdpSize, Least
<1>2. udp \in Nat
  OBVIOUS
<1> HIDE DEF udp
<1>3. (IF udp = 0 THEN 4096 ELSE IF udp < 4096 THEN udp ELSE 4096) =
          IF udp \in 1..4096 THEN udp ELSE 4096
  BY <1>2
<1> QED
  BY <1>1, <1>3, SMT DEF udp, Capped

\* A finalized reply to a request with EDNS has one OPT record with the client's DO bit,
\* a capped UDP size, and an NSID exactly if someone asked for one.
THEOREM EdnsIsMirrored == Spec => []EdnsMirrored
<1>1. ReplyInv => EdnsMirrored
  <2> SUFFICES ASSUME ReplyInv, NEW h \in Handlers, Answered(h), IsFinalized(query[h]),
                      query[h].asked, query[h].edns.present, ~Asks(query[h], "set-noedns"),
                      ~IsSized(query[h]), BadVers \notin {handled[h].rcode, sent[h].rcode}
               PROVE  /\ Len(Opts(sent[h])) = 1
                      /\ OptOf(sent[h]).do = query[h].edns.do
                      /\ OptOf(sent[h]).udp = Capped(query[h].edns.udp)
                      /\ "NSID" \in OptOf(sent[h]).codes <=>
                            query[h].edns.nsid \/ AsksValidly(query[h], "set-nsid")
    BY DEF EdnsMirrored
  <2> DEFINE q == query[h]
  <2>1. Finalized(q, handled[h], sent[h]) /\ Handled(q, handled[h]) /\ IsQuery(q)
    BY AnsweredReply
  <2>2. NoOpts(handled[h])
    BY <2>1 DEF Handled, IsSized, ReachesZone, SizeOf
  <2>3. Mirrored(q, sent[h])
    BY <2>1, <2>2 DEF Finalized, Asks
  <2>4. UdpSize(q.edns) = Capped(q.edns.udp)
    BY <2>1, UdpSizeIs DEF IsQuery
  <2> QED
    BY <2>3, <2>4 DEF Mirrored, AsksValidly
<1> QED
  BY <1>1, ReplyInvariant, PTL

\* A query stays without a reply only for a response code that does not fit, a corrupted
\* signature or a text that is too long, whatever the options of its name.
THEOREM UnansweredIsExplained == Spec => []UnansweredOnlyIf
<1>1. ReplyInv => UnansweredOnlyIf
  <2> SUFFICES ASSUME ReplyInv, NEW h \in Handlers, pc[h] = "done", sent[h] = NoMsg
               PROVE  \/ reply[h].rcode \notin 0..MaxRcode
                      \/ reply[h].rcode > 15 /\ ~HasOpt(reply[h])
                      \/ IsIn(query[h].labels, "qname-min") /\ query[h].qtype = "TXT"
                      \/ query[h].zone = "hostname.bind" /\ HostnameBytes > 255
                      \/ FailNamed(query[h].labels, "sig-fail") /\ wantDNSSEC(query[h])
    BY Zenon DEF UnansweredOnlyIf
  <2> DEFINE q == query[h]
             m == handled[h]
             r == reply[h]
  <2>1. IsOnItsWay("done", Queries[h], q, r, m, NoMsg)
    BY DEF ReplyInv
  <2>2. Excused(q) => IsLong(q) \/ IsCorrupt(q)
    BY DEF Excused
  <2>3. ASSUME ~Excused(q)
        PROVE  IsMessage(r) /\ Packed(r) /\ ~Packs(r)
    <3> HIDE DEF q, m, r
    <3>1. /\ IsQuery(q) /\ Handled(q, m) /\ (~Packs(r) \/ (NoMsg = r /\ Packs(r)))
          /\ r = FinalizeResponse(q, m, HostnameBytes) \/ r = m
      BY <2>1 DEF IsOnItsWay
    <3>2. IsMessage(m) /\ m.qname = q.labels /\ Packed(m)
      BY <2>3, <3>1 DEF Handled, PacksUnless
    <3>3. Packed(r)
      BY <3>1, <3>2, NameFits, AnswersAssumption, FinalizedPacks
    <3>4. IsMessage(r)
      BY <3>1, <3>2, AnswersAssumption, FinalizedReply DEF Finalized, Finished
    <3>5. r # NoMsg
      BY <3>4 DEF IsMessage, MsgFields, NoMsg
    <3> QED
      BY <3>1, <3>3, <3>4, <3>5
  <2>4. ASSUME IsMessage(r), Packed(r), ~Packs(r)
        PROVE  r.rcode \notin 0..MaxRcode \/ (r.rcode > 15 /\ ~HasOpt(r))
    <3> HIDE DEF q, m, r
    <3>1. \A rrs \in {r.answer, r.ns, r.extra} : \A i \in DOMAIN rrs : rrs[i].packs
      BY <2>4, Section, Zenon DEF IsMessage, Packed, ArePacked, Elements
    <3> QED
      BY <2>4, <3>1, Zenon DEF Packs
  <2>5. \/ r.rcode \notin 0..MaxRcode \/ (r.rcode > 15 /\ ~HasOpt(r))
        \/ IsLong(q) \/ IsCorrupt(q)
    BY <2>2, <2>3, <2>4, Zenon
  <2> QED
    BY <2>5, Zenon DEF IsLong, IsCorrupt
<1> QED
  BY <1>1, ReplyInvariant, PTL

\* The reply of size-N has N bytes or one more, whatever the name, if the name leaves
\* room and nothing is added.
THEOREM SizesAreApproximate == Spec => []SizedAsAsked
<1>1. ReplyInv => SizedAsAsked
  <2> SUFFICES ASSUME ReplyInv, NEW h \in Handlers, NEW g, g = Parsed(query[h].labels).gadget,
                      handled[h] # NoMsg, IsSized(query[h]), ~wantDNSSEC(query[h]),
                      query[h].labels \notin Nameservers, g.arg \in ValidArgs("size"),
                      2 * NameBytes(query[h].labels) + 46 <= g.arg
               PROVE  Size(handled[h]) \in {g.arg, g.arg + 1}
    BY Zenon DEF SizedAsAsked
  <2> DEFINE q == query[h]
             m == Reply(q.labels)
  <2>1. IsOnItsWay(pc[h], Queries[h], q, reply[h], handled[h], sent[h])
    BY DEF ReplyInv
  <2>2. IsQuery(q) /\ IsHandled(q, handled[h])
    BY <2>1 DEF IsOnItsWay
  <2>3. PICK seen \in Nat : handled[h] = Handle(q, seen)
    BY <2>2, Zenon DEF IsHandled
  <2>4. ReachesZone(q) /\ q.qtype = "TXT" /\ g.kind = "size"
    BY DEF IsSized
  <2>5. handled[h] = ZoneReply(q, m, seen)
    <3>1. Handle(q, seen) = SignResponse(q, ZoneReply(q, m, seen))
      <4> DEFINE zone == SignResponse(q, ZoneReply(q, m, seen))
                 early == q.edns.present /\ q.edns.version # 0
                 bad == SetEdns0([m EXCEPT !.rcode = BadVers], 4096, FALSE)
                 formErr == [m EXCEPT !.rcode = FormErr]
                 refused == [m EXCEPT !.rcode = Refused]
      <4>1. Handle(q, seen) =
               IF early THEN bad
               ELSE IF ~q.asked THEN formErr
               ELSE IF q.class = "CH" THEN Chaos(q, m)
               ELSE IF q.zone # "in" THEN refused
               ELSE zone
        BY Zenon DEF Handle
      <4>2. ~early /\ q.asked /\ q.class # "CH" /\ q.zone = "in"
        BY <2>4 DEF ReachesZone
      <4> HIDE DEF zone, early, bad, formErr, refused, q, m
      <4>3. Handle(q, seen) = zone
        BY <4>1, <4>2
      <4> QED
        BY <4>3 DEF zone
    <3>2. \A n : SignResponse(q, n) = n
      BY DEF SignResponse
    <3> QED
      BY <2>3, <3>1, <3>2
  <2>6. q.labels \in Seq(Label) /\ Len(q.labels) \in Nat /\ NameBytes(q.labels) \in 0..255
    BY <2>2, NameFits, Zenon
  <2>7. handled[h] = sizeReply(m, g.arg)
    BY <2>4, <2>5, <2>6, SizedZoneReply
  <2>8. g.arg \in Nat /\ NameBytes(q.labels) \in Nat
    <3>1. ValidArgs("size") = minSizeN..maxSizeN
      BY DEF ValidArgs
    <3>2. \A n \in minSizeN..maxSizeN : n \in Nat
      BY DEF minSizeN, maxSizeN
    <3>3. \A n \in 0..255 : n \in Nat
      OBVIOUS
    <3> QED
      BY <2>6, <3>1, <3>2, <3>3, Zenon
  <2> QED
    BY <2>6, <2>7, <2>8, SizeReplyIs
<1> QED
  BY <1>1, ReplyInvariant, PTL

-----------------------------------------------------------------------------
(***************************************************************************)
(* The NSEC records: none denies a name of the list.                       *)
(***************************************************************************)
DeniesListed(span) == \E n \in ListedNames : Covers(span, n)

\* The two ways to the next name agree at a name that is not listed.
LEMMA NextOfUnlisted ==
    \A name : ~IsListed(name) /\ canonicalSearch(name) \in Nat => NextOrSame(name) = NextAfter(name)
<1> SUFFICES ASSUME NEW name, ~IsListed(name), canonicalSearch(name) \in Nat
             PROVE  NextOrSame(name) = NextAfter(name)
  OBVIOUS
<1>1. canonicalSearch(name) + (IF IsListed(name) THEN 1 ELSE 0) = canonicalSearch(name)
  OBVIOUS
<1> QED
  BY <1>1, Zenon DEF NextOrSame, NextAfter

\* From a name to the one that follows it.
LEMMA OnwardsDenies ==
    ASSUME NEW name \in Names, NEW next, next = NextAfter(name), NEW types
    PROVE  ~DeniesListed(Span(name, next, types))
<1>1. Span(name, next, types).owner = name /\ Span(name, next, types).next = next
  BY DEF Span
<1> QED
  BY <1>1, NextIsNext DEF DeniesListed, Covers

\* From a name, whether it exists or not.
LEMMA SpanAtDenies ==
    ASSUME NEW name \in Names, NEW types
    PROVE  ~DeniesListed(Span(name, WrongNext(name), types))
<1> DEFINE e == existingNames
           span == Span(name, e[2], types)
<1>1. CASE WrongNext(name) = NextAfter(name)
  BY <1>1, OnwardsDenies
<1>2. CASE WrongNext(name) # NextAfter(name)
  <2>1. WrongNext(name) = e[2] /\ NextAfter(name) = Apex
    BY <1>2, Zenon DEF WrongNext
  <2>2. \A n \in ListedNames : ~dnsCanonicalLess(name, n)
    BY <2>1, NextIsNext
  <2>3. span.owner = name
    BY DEF Span
  <2> HIDE DEF span
  <2>4. ~DeniesListed(span)
    BY <2>2, <2>3 DEF DeniesListed, Covers
  <2> QED
    BY <2>1, <2>4 DEF span
<1> QED
  BY <1>1, <1>2

\* The test names of the signer's list: sig-fail comes after rrsig-wrong-rrset.
LEMMA SigFailIsLater == Rank["rrsig-wrong-rrset"] < Rank["sig-fail"]
<1>1. \A i \in 1..15 : ByteOrder[i] # "sig-fail"
  <2>1. "sig-fail" \notin
            {ByteOrder[1], ByteOrder[2], ByteOrder[3], ByteOrder[4], ByteOrder[5],
            ByteOrder[6], ByteOrder[7], ByteOrder[8], ByteOrder[9], ByteOrder[10],
            ByteOrder[11], ByteOrder[12], ByteOrder[13], ByteOrder[14],
            ByteOrder[15]}
    BY DEF ByteOrder
  <2>2. \A i \in 1..15 : i \in
            {1, 2, 3, 4, 5, 6, 7, 8, 9, 10, 11, 12, 13, 14, 15}
    OBVIOUS
  <2> QED
    BY <2>1, <2>2, Zenon
<1>2. \A i \in 16..30 : ByteOrder[i] # "sig-fail"
  <2>1. "sig-fail" \notin
            {ByteOrder[16], ByteOrder[17], ByteOrder[18], ByteOrder[19],
            ByteOrder[20], ByteOrder[21], ByteOrder[22], ByteOrder[23],
            ByteOrder[24], ByteOrder[25], ByteOrder[26], ByteOrder[27],
            ByteOrder[28], ByteOrder[29], ByteOrder[30]}
    BY DEF ByteOrder
  <2>2. \A i \in 16..30 : i \in
            {16, 17, 18, 19, 20, 21, 22, 23, 24, 25, 26, 27, 28, 29, 30}
    OBVIOUS
  <2> QED
    BY <2>1, <2>2, Zenon
<1>3. \A i \in 31..45 : ByteOrder[i] # "sig-fail"
  <2>1. "sig-fail" \notin
            {ByteOrder[31], ByteOrder[32], ByteOrder[33], ByteOrder[34],
            ByteOrder[35], ByteOrder[36], ByteOrder[37], ByteOrder[38],
            ByteOrder[39], ByteOrder[40], ByteOrder[41], ByteOrder[42],
            ByteOrder[43], ByteOrder[44], ByteOrder[45]}
    BY DEF ByteOrder
  <2>2. \A i \in 31..45 : i \in
            {31, 32, 33, 34, 35, 36, 37, 38, 39, 40, 41, 42, 43, 44, 45}
    OBVIOUS
  <2> QED
    BY <2>1, <2>2, Zenon
<1>4. \A i \in 46..57 : ByteOrder[i] # "rrsig-wrong-rrset"
  <2>1. "rrsig-wrong-rrset" \notin
            {ByteOrder[46], ByteOrder[47], ByteOrder[48], ByteOrder[49],
            ByteOrder[50], ByteOrder[51], ByteOrder[52], ByteOrder[53],
            ByteOrder[54], ByteOrder[55], ByteOrder[56], ByteOrder[57]}
    BY DEF ByteOrder
  <2>2. \A i \in 46..57 : i \in
            {46, 47, 48, 49, 50, 51, 52, 53, 54, 55, 56, 57}
    OBVIOUS
  <2> QED
    BY <2>1, <2>2, Zenon
<1>5. \A i \in 58..68 : ByteOrder[i] # "rrsig-wrong-rrset"
  <2>1. "rrsig-wrong-rrset" \notin
            {ByteOrder[58], ByteOrder[59], ByteOrder[60], ByteOrder[61],
            ByteOrder[62], ByteOrder[63], ByteOrder[64], ByteOrder[65],
            ByteOrder[66], ByteOrder[67], ByteOrder[68]}
    BY DEF ByteOrder
  <2>2. \A i \in 58..68 : i \in
            {58, 59, 60, 61, 62, 63, 64, 65, 66, 67, 68}
    OBVIOUS
  <2> QED
    BY <2>1, <2>2, Zenon
<1>6. /\ \A i \in 1..45 : i \in 1..15 \/ i \in 16..30 \/ i \in 31..45
      /\ \A i \in 46..68 : i \in 46..57 \/ i \in 58..68
  OBVIOUS
<1>7. /\ \A i \in 1..45 : ByteOrder[i] # "sig-fail"
      /\ \A i \in 46..68 : ByteOrder[i] # "rrsig-wrong-rrset"
  BY <1>1, <1>2, <1>3, <1>4, <1>5, <1>6, Zenon
<1>8. "rrsig-wrong-rrset" \in Kinds /\ "sig-fail" \in Kinds
  BY WordsAreKinds DEF BadSignatures
<1> DEFINE r == Rank["rrsig-wrong-rrset"]
           s == Rank["sig-fail"]
<1>9. /\ r \in 1..68 /\ ByteOrder[r] = "rrsig-wrong-rrset"
      /\ s \in 1..68 /\ ByteOrder[s] = "sig-fail"
  BY <1>8, RankIs, ByteOrderDomain, Zenon
<1>10. r \notin 46..68 /\ s \notin 1..45
  BY <1>7, <1>9, Zenon
<1> HIDE DEF r, s
<1>11. r < s
  BY <1>9, <1>10
<1> QED
  BY <1>11 DEF r, s

\* A name in front of which rrsig-wrong-rrset is the last of the list is in dnssec-failed:
\* it comes before sig-fail, which is in dnssec-failed as well.
WrongRrset == <<Plain("rrsig-wrong-rrset"), Plain("dnssec-failed")>>

LEMMA AfterWrongRrset ==
    ASSUME NEW name \in Names, ~IsListed(name), Prev(name) = WrongRrset
    PROVE  IsIn(name, "dnssec-failed")
<1> DEFINE e == existingNames
           s == canonicalSearch(name)
           fail == <<Plain("sig-fail"), Plain("dnssec-failed")>>
           a == Plain("rrsig-wrong-rrset")
           b == Plain("sig-fail")
           zone == Plain("dnssec-failed")
           At(n, k) == LabelFromRight(n, k)
<1>1. /\ a \in Label /\ a.kind = "rrsig-wrong-rrset" /\ b \in Label /\ b.kind = "sig-fail"
      /\ zone \in Label
  <2>1. /\ "rrsig-wrong-rrset" \in Kinds /\ "sig-fail" \in Kinds /\ "dnssec-failed" \in Kinds
        /\ "rrsig-wrong-rrset" # "" /\ "sig-fail" # "" /\ "dnssec-failed" # ""
    BY WordsAreKinds DEF BadSignatures
  <2> QED
    BY <2>1, PlainLabels, Zenon
<1>2. fail \in ListedNames /\ fail \in Names /\ WrongRrset \in Names
  <2>1. fail \in ListedNames /\ WrongRrset \in ListedNames
    BY DEF ListedNames, BadSignatures, WrongRrset
  <2> QED
    BY <2>1, ListedAreNames
<1>3. WrongRrset = <<a, zone>> /\ fail = <<b, zone>>
  BY DEF WrongRrset
<1>4. LabelLess(a, b)
  <2>1. Rank[a.kind] < Rank[b.kind]
    BY <1>1, SigFailIsLater, Zenon
  <2> QED
    BY <2>1, Zenon DEF LabelLess
<1> HIDE DEF a, b, zone, fail
<1>5. \A x : /\ Len(<<x, zone>>) = 2 /\ At(<<x, zone>>, 1) = zone /\ At(<<x, zone>>, 2) = x
  BY DEF LabelFromRight
<1>6. dnsCanonicalLess(WrongRrset, fail)
  <2>1. 2 \in 1..(Len(WrongRrset) + Len(fail)) /\ \A j \in 1..(2 - 1) : j = 1
    BY <1>3, <1>5
  <2> QED
    BY <1>3, <1>4, <1>5, <2>1 DEF dnsCanonicalLess
<1>7. /\ Len(e) \in Nat /\ s \in 1..(Len(e) + 1) /\ s # 1
      /\ \A j \in 1..Len(e) : j < s <=> dnsCanonicalLess(e[j], name)
  BY SortedNames, SearchFinds, ListedAreNames DEF IsListed
<1>8. PICK k \in 1..Len(e) : e[k] = fail
  BY <1>2, SortedNames
<1>9. s - 1 \in 1..Len(e) /\ e[s - 1] = WrongRrset
  BY <1>7 DEF Prev
<1>10. s - 1 < k
  BY <1>6, <1>8, <1>9, SortedNames
<1>11. dnsCanonicalLess(WrongRrset, name) /\ ~dnsCanonicalLess(fail, name)
  <2>1. s - 1 < s /\ ~(k < s)
    BY <1>7, <1>10
  <2> QED
    BY <1>7, <1>8, <1>9, <2>1
<1>12. dnsCanonicalLess(name, fail)
  <2>1. name # fail
    BY <1>2 DEF IsListed
  <2> QED
    BY <1>2, <1>11, <2>1, NameOrder
<1>13. At(name, 1) = zone
  <2> SUFFICES ASSUME At(name, 1) # zone
               PROVE  FALSE
    OBVIOUS
  <2>1. \A k1 \in Nat : k1 >= 1 => k1 = 1 \/ 1 \in 1..(k1 - 1)
    OBVIOUS
  <2>2. LabelLess(zone, At(name, 1))
    <3>1. PICK i \in 1..(Len(WrongRrset) + Len(name)) :
             /\ \A j \in 1..(i - 1) : At(WrongRrset, j) = At(name, j)
             /\ LabelLess(At(WrongRrset, i), At(name, i))
      BY <1>11 DEF dnsCanonicalLess
    <3>2. i = 1 \/ 1 \in 1..(i - 1)
      BY <1>2, FromRight
    <3> QED
      BY <1>3, <1>5, <3>1, <3>2
  <2>3. LabelLess(At(name, 1), zone)
    <3>1. PICK i \in 1..(Len(name) + Len(fail)) :
             /\ \A j \in 1..(i - 1) : At(name, j) = At(fail, j)
             /\ LabelLess(At(name, i), At(fail, i))
      BY <1>12 DEF dnsCanonicalLess
    <3>2. i = 1 \/ 1 \in 1..(i - 1)
      BY <1>2, FromRight
    <3> QED
      BY <1>3, <1>5, <3>1, <3>2
  <2>4. At(name, 1) \in Padded /\ zone \in Padded
    BY <1>1, FromRight DEF Padded
  <2> HIDE DEF At
  <2> QED
    BY <2>2, <2>3, <2>4, LabelOrder
<1>14. name # <<>> /\ Last(name) = zone
  <2>1. Len(name) \in Nat /\ zone # NoLabel
    <3>1. NoLabel \notin Label
      BY DEF NoLabel, Plain, Label
    <3> QED
      BY <1>1, <3>1, FromRight
  <2>2. 1 <= Len(name) /\ At(name, 1) = name[Len(name) + 1 - 1]
    BY <1>13, <2>1 DEF LabelFromRight
  <2>3. Len(name) + 1 - 1 = Len(name)
    BY <2>1
  <2> QED
    BY <1>13, <2>2, <2>3 DEF Last
<1> QED
  BY <1>14 DEF IsIn, zone

\* Around a name that is not in the list.
LEMMA AroundDenies ==
    ASSUME NEW name \in Names, ~IsListed(name), NEW types
    PROVE  /\ Prev(name) \in ListedNames
           /\ dnsCanonicalLess(Prev(name), name)
           /\ NextOrSame(name) = Apex \/ dnsCanonicalLess(name, NextOrSame(name))
           /\ NextOrSame(name) \in ListedNames
           /\ ~DeniesListed(Span(Prev(name), NextOrSame(name), types))
<1> DEFINE e == existingNames
           s == canonicalSearch(name)
           prev == e[s - 1]
           next == NextOrSame(name)
           span == Span(prev, next, types)
<1>1. Len(e) \in Nat /\ s \in 1..(Len(e) + 1) /\ s # 1
  BY SortedNames, SearchFinds, ListedAreNames DEF IsListed
<1>2. s - 1 \in 1..Len(e) /\ s - 1 < s /\ prev \in ListedNames
  <2>1. s - 1 \in 1..Len(e) /\ s - 1 < s
    BY <1>1
  <2> QED
    BY <2>1, SortedNames
<1>3. dnsCanonicalLess(prev, name)
  BY <1>2, SearchFinds
<1>4. next = IF s <= Len(e) THEN e[s] ELSE Apex
  BY Zenon DEF NextOrSame, NameAt
<1>5. next \in ListedNames
  BY <1>1, <1>4, SortedNames, ListedAreNames
<1>6. next = Apex \/ dnsCanonicalLess(name, next)
  <2>1. CASE s <= Len(e)
    <3>1. s \in 1..Len(e) /\ next = e[s] /\ next \in Names /\ next # name
      BY <1>1, <1>4, <1>5, <2>1, ListedAreNames DEF IsListed
    <3>2. ~dnsCanonicalLess(e[s], name)
      BY <3>1, <1>1, SearchFinds
    <3> QED
      BY <3>1, <3>2, NameOrder
  <2> QED
    BY <1>4, <2>1
<1>7. ASSUME NEW n \in ListedNames, dnsCanonicalLess(prev, n), next = Apex \/ dnsCanonicalLess(n, next)
      PROVE  FALSE
  <2>1. PICK j \in 1..Len(e) : e[j] = n
    BY SortedNames
  <2>2. s - 1 < j
    BY <1>2, <1>7, <2>1, SortedNames
  <2>3. s \in 1..Len(e) /\ ~(j < s) /\ next = e[s]
    BY <1>1, <1>4, <2>2
  <2>4. ~dnsCanonicalLess(n, next)
    BY <2>1, <2>3, SortedNames
  <2>5. next # Apex
    <3>1. dnsCanonicalLess(prev, next)
      BY <1>2, <2>3, SortedNames
    <3>2. prev \in Names
      BY <1>2, ListedAreNames
    <3> QED
      BY <3>1, <3>2, ApexIsFirst
  <2> QED
    BY <1>7, <2>4, <2>5
<1>8. span.owner = prev /\ span.next = next
  BY DEF Span
<1> HIDE DEF span, next, s
<1>9. ~DeniesListed(span)
  <2> HIDE DEF prev
  <2> QED
    BY <1>7, <1>8 DEF DeniesListed, Covers
<1>10. Prev(name) = prev
  BY Zenon DEF Prev, s
<1> HIDE DEF prev
<1> QED
  BY <1>2, <1>3, <1>5, <1>6, <1>9, <1>10 DEF span, next

\* The wildcard of the zone sorts before every name below the apex that the list has,
\* and its record denies it.
LEMMA WildcardDenies ==
    /\ Wildcard \in Names /\ ~IsListed(Wildcard)
    /\ dnsCanonicalLess(nsecForWildcard.owner, Wildcard)
    /\ Covers(nsecForWildcard, Wildcard)
    /\ nsecForWildcard.next \in ListedNames
    /\ ~DeniesListed(nsecForWildcard)
<1> DEFINE star == Plain("*")
           mark == Plain("!")
           first == <<mark>>
<1>1. star \in Label /\ mark \in Label /\ star.kind = "*" /\ mark.kind = "!"
  BY FirstKinds, PlainLabels, Zenon
<1>2. Wildcard = <<star>> /\ Wildcard \in Names /\ first \in Names /\ Len(first) = 1 /\ first # Apex
  <2> HIDE DEF star, mark
  <2> QED
    BY <1>1 DEF Wildcard, Names, Apex, star
<1>3. Last(Wildcard) = star /\ Wildcard # Apex /\ Len(Wildcard) = 1
  BY <1>2 DEF Last, Apex
<1> HIDE DEF star, mark
<1>4. ~IsListed(Wildcard)
  BY <1>1, <1>3, ListedAreNames, Zenon DEF IsListed, FirstWords
<1>5. LabelFromRight(Wildcard, 1) = star /\ LabelFromRight(first, 1) = mark
  BY <1>2 DEF LabelFromRight
<1>6. dnsCanonicalLess(first, Wildcard)
  <2>1. LabelLess(mark, star)
    <3>1. Rank[mark.kind] = 2 /\ Rank[star.kind] = 3
      BY <1>1, FirstKinds, Zenon
    <3>2. Rank[mark.kind] < Rank[star.kind]
      <4>1. \A x, y : x = 2 /\ y = 3 => x < y
        OBVIOUS
      <4> QED
        BY <3>1, <4>1, Zenon
    <3> QED
      BY <3>2, Zenon DEF LabelLess
  <2>2. 1 \in 1..(Len(first) + Len(Wildcard)) /\ \A j \in 1..(1 - 1) : FALSE
    BY <1>2, <1>3
  <2> QED
    BY <1>5, <2>1, <2>2 DEF dnsCanonicalLess
<1>7. ASSUME NEW n \in ListedNames, n # Apex
      PROVE  dnsCanonicalLess(Wildcard, n)
  <2>1. n \in Names /\ Len(n) \in Nat /\ n # <<>> /\ Last(n).kind \notin FirstWords
    BY <1>7, ListedAreNames, FromRight
  <2>2. Len(n) >= 1
    BY <2>1 DEF Names
  <2>3. LabelFromRight(n, 1) = Last(n)
    BY <2>1, <2>2 DEF LabelFromRight, Last
  <2>4. Last(n) \in Label
    <3>1. 1 \in 1..Len(n)
      BY <2>1, <2>2
    <3> QED
      BY <2>1, <2>3, <3>1, FromRight
  <2>5. Last(n).kind \in Kinds
    BY <2>4, Zenon DEF Label
  <2>6. Rank[Last(n).kind] > 3
    <3> DEFINE k == Last(n).kind
    <3>1. /\ k \in Kinds /\ k \notin FirstWords /\ Rank[k] \in Nat /\ Rank[k] >= 1
          /\ \A w \in FirstWords : Rank[k] # Rank[w]
      BY <2>1, <2>5, RankIs, FirstKinds, Zenon DEF FirstWords
    <3> HIDE DEF k
    <3>2. Rank[k] # 1 /\ Rank[k] # 2 /\ Rank[k] # 3
      BY <3>1, FirstKinds, Zenon DEF FirstWords
    <3>3. Rank[k] > 3
      BY <3>1, <3>2
    <3> QED
      BY <3>3 DEF k
  <2>7. LabelLess(star, Last(n))
    BY <1>1, <2>6, FirstKinds, Zenon DEF LabelLess
  <2>8. 1 \in 1..(Len(Wildcard) + Len(n)) /\ \A j \in 1..(1 - 1) : FALSE
    BY <1>3, <2>1
  <2> QED
    BY <1>5, <2>3, <2>7, <2>8 DEF dnsCanonicalLess
<1>8. /\ nsecForWildcard.owner = first /\ nsecForWildcard.next = NextOrSame(Wildcard)
  BY DEF nsecForWildcard, Span, mark
<1>9. NextOrSame(Wildcard) = NextAfter(Wildcard)
  <2>1. canonicalSearch(Wildcard) \in Nat
    BY <1>2, SearchFinds, SortedNames
  <2> QED
    BY <1>4, <2>1, NextOfUnlisted
<1>10. ~DeniesListed(nsecForWildcard)
  <2> SUFFICES ASSUME NEW n \in ListedNames, dnsCanonicalLess(first, n),
                      NextAfter(Wildcard) = Apex \/ dnsCanonicalLess(n, NextAfter(Wildcard))
               PROVE  FALSE
    BY <1>8, <1>9 DEF DeniesListed, Covers
  <2>1. n # Apex
    BY <1>2, ApexIsFirst
  <2> QED
    BY <1>2, <1>7, <2>1, NextIsNext
<1>11. NextOrSame(Wildcard) \in ListedNames
       /\ (NextOrSame(Wildcard) = Apex \/ dnsCanonicalLess(Wildcard, NextOrSame(Wildcard)))
  BY <1>2, <1>4, AroundDenies
<1> QED
  BY <1>2, <1>4, <1>6, <1>8, <1>10, <1>11 DEF Covers

\* No record of a denial denies a name of the list.
LEMMA NsecsDeny ==
    ASSUME NEW q, q.labels \in Names, NEW m, NEW i \in DOMAIN NsecsOf(q, m)
    PROVE  ~DeniesListed(NsecsOf(q, m)[i])
<1> DEFINE name == nsecForName(q.labels, q.qtype, isNoData(m))
           wild == IF m.rcode = NXDomain THEN <<nsecForWildcard>> ELSE <<>>
           spans == name \o wild
           around == Span(Prev(q.labels), NextOrSame(q.labels), typesAtName(Prev(q.labels)))
           at == Span(q.labels, WrongNext(q.labels), typesAtName(q.labels) \ {q.qtype})
           Good == {span \in {around, at, nsecForWildcard} : ~DeniesListed(span)}
<1>1. NsecsOf(q, m) = [k \in DOMAIN spans |-> NSEC(spans[k])]
  BY Zenon DEF NsecsOf
<1>2. name = <<>> \/ name = <<at>> \/ (name = <<around>> /\ ~IsListed(q.labels))
  BY Zenon DEF nsecForName, SpanAt
<1>3. at \in Good /\ nsecForWildcard \in Good /\ (~IsListed(q.labels) => around \in Good)
  BY SpanAtDenies, AroundDenies, WildcardDenies
<1>4. wild = <<>> \/ wild = <<nsecForWildcard>>
  BY Zenon
<1>5. \A span \in Good : ~DeniesListed(span)
  OBVIOUS
<1> HIDE DEF name, wild, Good, at, around
<1>12. <<>> \in Seq(Good) /\ \A span \in Good : <<span>> \in Seq(Good)
  OBVIOUS
<1>6. name \in Seq(Good)
  BY <1>2, <1>3, <1>12, Zenon
<1>7. wild \in Seq(Good)
  BY <1>3, <1>4, <1>12, Zenon
<1>8. spans \in Seq(Good)
  BY <1>6, <1>7
<1> HIDE DEF spans
<1>9. i \in DOMAIN spans /\ NsecsOf(q, m)[i] = NSEC(spans[i])
  BY <1>1
<1>10. spans[i] \in Good
  BY <1>8, <1>9
<1>11. \A span : NSEC(span).owner = span.owner /\ NSEC(span).next = span.next
  BY DEF NSEC
<1> QED
  BY <1>5, <1>9, <1>10, <1>11 DEF DeniesListed, Covers

\* The names the handler answers and the signer does not list are those of Unlisted.
LEMMA FixedAreListed == FixedNames \ Unlisted \subseteq ListedNames
<1> DEFINE Words == (Gadgets \cup Families)
                       \ {"delay", "ttl", "timestamp", "size", "dnssec-failed", "txt-test", "ns-test"}
           Others == {"cookie", "entropy", "qname-min"}
<1>1. Words \subseteq ListedLabels \cup Others
  BY DEF Gadgets, TxtGadgets, Families, ListedLabels
<1>2. \A g \in Words : <<Plain(g)>> \in ListedNames \cup Unlisted
  <2> HIDE DEF Words
  <2>1. \A g \in ListedLabels : <<Plain(g)>> \in ListedNames
    BY DEF ListedNames
  <2>2. \A g \in Others : <<Plain(g)>> \in Unlisted
    BY DEF Unlisted
  <2> HIDE DEF Others
  <2> QED
    BY <1>1, <2>1, <2>2
<1>3. \A f \in BadSignatures \cup BadDenials : <<Plain(f), Plain("dnssec-failed")>> \in ListedNames
  BY DEF ListedNames
<1>4. TxtTests \subseteq ListedNames
  <2>1. {"alert", "href", "bobby-tables"} = {"alert", "bobby-tables", "href"}
    OBVIOUS
  <2> QED
    BY <2>1, Zenon DEF TxtTests, ListedNames
<1>5. Nameservers \subseteq Unlisted
  BY DEF Unlisted
<1>6. FixedNames = {<<Plain(g)>> : g \in Words}
                     \cup {<<Plain(f), Plain("dnssec-failed")>> : f \in BadSignatures \cup BadDenials}
                     \cup TxtTests \cup Nameservers
  BY Zenon DEF FixedNames
<1> HIDE DEF Words
<1> QED
  BY <1>2, <1>3, <1>4, <1>5, <1>6

-----------------------------------------------------------------------------
(***************************************************************************)
(* What the zone says: it answers a type, or denies the name or the type   *)
(* with the SOA, or fails.                                                 *)
(***************************************************************************)
Blank(q, m) == Fresh(q, m) /\ m.answer = <<>> /\ m.rcode = NoError
SoaOnly == <<SOA(0)>>
Settled(q, n, T) ==
    /\ n.answer # <<>> => n.rcode # NXDomain /\ q.qtype \in T
    /\ n.answer = <<>> => n.ns = SoaOnly \/ n.rcode = ServFail
    /\ n.rcode \in {NoError, NXDomain, ServFail}
AllTypes == {"A", "AAAA", "TXT", "SOA", "NS", "CDS"}
Addresses == {"A", "AAAA"}

\* What each branch of Handle makes of a fresh reply is settled.
LEMMA SettledAnswer ==
    ASSUME NEW q, NEW m, Blank(q, m), NEW a, a # <<>>, NEW T, q.qtype \in T,
           NEW n, n = [m EXCEPT !.answer = a]
    PROVE  Settled(q, n, T) /\ n.rcode = NoError
<1>1. n.answer = a /\ n.rcode = m.rcode
  BY DEF Blank, Fresh, IsMessage, MsgFields
<1>2. n.rcode = NoError
  BY <1>1 DEF Blank
<1> QED
  BY <1>1, <1>2 DEF Settled, NoError, NXDomain

LEMMA SettledAnswering ==
    ASSUME NEW q, NEW m, Blank(q, m), NEW rr, IsRecord(rr), NEW T, q.qtype \in T
    PROVE  Settled(q, Answering(m, rr), T) /\ Answering(m, rr).rcode = NoError
<1> DEFINE a == Append(m.answer, rr)
<1>1. Len(a) = Len(m.answer) + 1 /\ Len(m.answer) \in Nat
  BY AppendedSection, Section DEF Blank, Fresh, IsMessage
<1>2. Answering(m, rr) = [m EXCEPT !.answer = a]
  BY DEF Answering
<1> HIDE DEF a
<1>3. a # <<>>
  <2>1. Len(a) # 0
    BY <1>1
  <2> QED
    BY <2>1, EmptySection
<1> QED
  BY <1>2, <1>3, SettledAnswer, Zenon

LEMMA SettledTXT ==
    ASSUME NEW q, NEW m, Blank(q, m), NEW ttl, NEW strings \in Seq(Nat), NEW T, q.qtype \in T
    PROVE  Settled(q, appendTXT(m, ttl, strings), T) /\ appendTXT(m, ttl, strings).rcode = NoError
<1> DEFINE rr == TXT(m.qname, ttl, strings)
<1>1. IsRecord(rr)
  <2>1. Len(m.qname) \in Nat
    BY DEF Blank, Fresh, IsMessage
  <2> QED
    BY <2>1, TXTIsRecord
<1>2. appendTXT(m, ttl, strings) = Answering(m, rr)
  BY DEF appendTXT
<1> HIDE DEF rr
<1> QED
  BY <1>1, <1>2, SettledAnswering

LEMMA SettledDenial ==
    ASSUME NEW q, NEW m, Blank(q, m), NEW T
    PROVE  /\ Settled(q, setNodataSOA(m), T) /\ setNodataSOA(m).rcode = NoError
           /\ Settled(q, NameError(m), T)
<1> DEFINE s == SoaOnly
<1>1. /\ setNodataSOA(m) = [m EXCEPT !.rcode = NoError, !.ns = s]
      /\ NameError(m) = [m EXCEPT !.rcode = NXDomain, !.ns = s]
  BY Zenon DEF setNodataSOA, NameError, SoaOnly
<1> HIDE DEF s
<1>2. /\ setNodataSOA(m).ns = s /\ setNodataSOA(m).answer = m.answer /\ setNodataSOA(m).rcode = NoError
      /\ NameError(m).ns = s /\ NameError(m).answer = m.answer /\ NameError(m).rcode = NXDomain
  BY <1>1, Zenon DEF Blank, Fresh, IsMessage, MsgFields
<1> QED
  BY <1>2 DEF Settled, Blank, s

LEMMA SettledOrNodata ==
    ASSUME NEW q, NEW m, Blank(q, m), NEW T,
           NEW n, n = m \/ (q.qtype \in T /\ Settled(q, n, T) /\ n.answer # <<>>) \/ Blank(q, n)
    PROVE  Settled(q, OrNodata(n), T)
<1>1. CASE n.answer = <<>>
  <2>1. Blank(q, n)
    BY <1>1
  <2> QED
    BY <1>1, <2>1, SettledDenial DEF OrNodata
<1>2. CASE n.answer # <<>>
  <2>1. n # m
    BY <1>2 DEF Blank
  <2> QED
    BY <1>2, <2>1 DEF OrNodata, Blank
<1> QED
  BY <1>1, <1>2

LEMMA SettledAddresses ==
    ASSUME NEW q, NEW m, Blank(q, m), NEW T, Addresses \subseteq T
    PROVE  LET n == addAaaaFromIPs(m, q.qtype)
           IN  Blank(q, n) \/ (q.qtype \in T /\ Settled(q, n, T) /\ n.answer # <<>>)
<1> DEFINE n == addAaaaFromIPs(m, q.qtype)
           none == <<>>
           more == CASE q.qtype = "A" -> Copies(RR("A", m.qname, 0, 4), IPv4s)
                     [] q.qtype = "AAAA" -> Copies(RR("AAAA", m.qname, 0, 16), IPv6s)
                     [] OTHER -> none
           a == m.answer \o more
<1>1. n = [m EXCEPT !.answer = a]
  BY DEF addAaaaFromIPs
<1>2. q.qtype \in Addresses \/ more = none
  BY Zenon DEF Addresses
<1>3. Fresh(q, n)
  BY FreshAddresses DEF Blank
<1> HIDE DEF more, n
<1>4. q.qtype \in Addresses \/ a = <<>>
  BY <1>2 DEF Blank
<1> HIDE DEF a
<1>5. n.answer = a /\ n.rcode = NoError
  BY <1>1 DEF Blank, Fresh, IsMessage, MsgFields
<1>6. CASE a = <<>>
  BY <1>3, <1>5, <1>6 DEF Blank, n
<1>7. CASE a # <<>>
  <2>1. q.qtype \in T
    BY <1>4, <1>7
  <2> QED
    BY <1>1, <1>5, <1>7, <2>1, SettledAnswer, Zenon DEF n
<1> QED
  BY <1>6, <1>7

LEMMA SettledHosted ==
    ASSUME NEW q, NEW m, Blank(q, m), NEW types, NEW ttl, NEW length \in Nat,
           types \subseteq {"TXT", "A", "AAAA"}, NEW T, types \subseteq T
    PROVE  Settled(q, Hosted(m, q.qtype, types, ttl, length), T)
<1> DEFINE txt == appendTXT(m, ttl, <<length>>)
           ips == addAaaaFromIPs(m, q.qtype)
           n == CASE q.qtype \in types /\ q.qtype = "TXT" -> txt
                  [] q.qtype \in types /\ q.qtype # "TXT" -> ips
                  [] q.qtype \notin types                -> m
<1>1. \/ q.qtype \in T /\ n = txt
      \/ q.qtype \in T /\ n = ips
      \/ n = m
  BY Zenon
<1>2. Hosted(m, q.qtype, types, ttl, length) = OrNodata(n)
  BY DEF Hosted
<1> HIDE DEF n, ips
<1>3. q.qtype \in T => Settled(q, txt, T) /\ txt.answer # <<>>
  <2> DEFINE strings == <<length>>
             rr == TXT(m.qname, ttl, strings)
             more == Append(m.answer, rr)
  <2>1. IsRecord(rr)
    <3>1. Len(m.qname) \in Nat
      BY DEF Blank, Fresh, IsMessage
    <3>2. strings \in Seq(Nat)
      OBVIOUS
    <3> HIDE DEF strings
    <3> QED
      BY <3>1, <3>2, TXTIsRecord
  <2>2. txt = [m EXCEPT !.answer = more]
    BY DEF appendTXT, Answering
  <2> HIDE DEF rr
  <2>3. Len(more) = Len(m.answer) + 1 /\ Len(m.answer) \in Nat
    BY <2>1, AppendedSection, Section, Zenon DEF Blank, Fresh, IsMessage
  <2> HIDE DEF more
  <2>4. Len(more) # 0
    BY <2>3
  <2>5. more # <<>>
    BY <2>4, EmptySection
  <2>6. txt.answer = more
    BY <2>2 DEF Blank, Fresh, IsMessage, MsgFields
  <2> HIDE DEF txt
  <2>7. q.qtype \in T => Settled(q, txt, T)
    BY <2>2, <2>5, SettledAnswer, Zenon
  <2> QED
    BY <2>5, <2>6, <2>7
<1> HIDE DEF txt
<1>4. q.qtype \in T => Blank(q, ips) \/ (Settled(q, ips, T) /\ ips.answer # <<>>)
  <2>1. Addresses \subseteq T \cup Addresses
    OBVIOUS
  <2>2. Blank(q, ips) \/ (Settled(q, ips, T \cup Addresses) /\ ips.answer # <<>>)
    BY <2>1, SettledAddresses, Zenon DEF ips
  <2> QED
    BY <2>2 DEF Settled
<1>5. n = m \/ (q.qtype \in T /\ Settled(q, n, T) /\ n.answer # <<>>) \/ Blank(q, n)
  BY <1>1, <1>3, <1>4
<1> QED
  BY <1>2, <1>5, SettledOrNodata

LEMMA SettledApex ==
    ASSUME NEW q, NEW m, Blank(q, m), q.qtype # "DNSKEY", NEW T, T = AllTypes \ {"TXT"}
    PROVE  Settled(q, handleApex(q, m), T)
<1> DEFINE n == handleApex(q, m)
           soa == SOA(0)
           cds == RR("CDS", Apex, 0, 36)
           ips == addAaaaFromIPs(m, q.qtype)
<1>1. \/ q.qtype = "SOA" /\ n = Answering(m, soa)
      \/ q.qtype = "NS" /\ n = [m EXCEPT !.answer = NsRecords]
      \/ q.qtype = "CDS" /\ n = Answering(m, cds)
      \/ n = OrNodata(ips)
  BY Zenon DEF handleApex
<1>2. IsRecord(soa) /\ IsRecord(cds) /\ NsRecords # <<>>
  BY SOAIsRecord, RRIsRecord, NsRecordsSection
<1>3. {"SOA", "NS", "CDS"} \subseteq T /\ Addresses \subseteq T
  BY DEF AllTypes, Addresses
<1>4. Settled(q, OrNodata(ips), T)
  <2>1. Blank(q, ips) \/ (q.qtype \in T /\ Settled(q, ips, T) /\ ips.answer # <<>>)
    BY <1>3, SettledAddresses
  <2> HIDE DEF ips
  <2> QED
    BY <2>1, SettledOrNodata
<1> HIDE DEF n, soa, cds, ips
<1>5. q.qtype \in T => /\ Settled(q, Answering(m, soa), T) /\ Settled(q, Answering(m, cds), T)
                       /\ Settled(q, [m EXCEPT !.answer = NsRecords], T)
  BY <1>2, SettledAnswering, SettledAnswer, Zenon
<1>6. Settled(q, n, T)
  BY <1>1, <1>3, <1>4, <1>5
<1> QED
  BY <1>6 DEF n

LEMMA SettledFailed ==
    ASSUME NEW q, NEW m, Blank(q, m), NEW T,
           q.labels[1].kind \in BadSignatures => {"A", "TXT"} \subseteq T
    PROVE  Settled(q, handleDnssecFailed(q, m), T) /\ handleDnssecFailed(q, m).rcode = NoError
<1> DEFINE n == handleDnssecFailed(q, m)
           rr == RR("A", m.qname, 0, 4)
           strings == <<16>>
<1>1. \/ q.qtype \in T /\ n = Answering(m, rr)
      \/ q.qtype \in T /\ n = appendTXT(m, 0, strings)
      \/ n = setNodataSOA(m)
  BY DEF handleDnssecFailed
<1>2. IsRecord(rr) /\ strings \in Seq(Nat)
  <2>1. Len(m.qname) \in Nat
    BY DEF Blank, Fresh, IsMessage
  <2> QED
    BY <2>1, RRIsRecord
<1> HIDE DEF n, rr, strings
<1>3. Settled(q, n, T) /\ n.rcode = NoError
  BY <1>1, <1>2, SettledAnswering, SettledTXT, SettledDenial
<1> QED
  BY <1>3 DEF n

LEMMA SettledRandom ==
    ASSUME NEW q, NEW m, Blank(q, m), NEW T, {"A", "AAAA", "TXT"} \subseteq T
    PROVE  Settled(q, randomReply(q, m), T)
<1> DEFINE n == randomReply(q, m)
           a == RR("A", m.qname, 0, 4)
           b == RR("AAAA", m.qname, 0, 16)
           strings == <<16>>
<1>1. \/ q.qtype \in T /\ n = Answering(m, a)
      \/ q.qtype \in T /\ n = Answering(m, b)
      \/ q.qtype \in T /\ n = appendTXT(m, 0, strings)
      \/ n = setNodataSOA(m)
  BY DEF randomReply
<1>2. IsRecord(a) /\ IsRecord(b) /\ strings \in Seq(Nat)
  <2>1. Len(m.qname) \in Nat
    BY DEF Blank, Fresh, IsMessage
  <2> QED
    BY <2>1, RRIsRecord
<1> HIDE DEF n, a, b, strings
<1>3. Settled(q, n, T)
  BY <1>1, <1>2, SettledAnswering, SettledTXT, SettledDenial
<1> QED
  BY <1>3 DEF n

LEMMA SettledMyip ==
    ASSUME NEW q, NEW m, Blank(q, m), NEW T, {"A", "AAAA", "TXT"} \subseteq T
    PROVE  Settled(q, myipReply(q, m), T)
<1> DEFINE n == myipReply(q, m)
           a == RR("A", m.qname, 0, 4)
           b == RR("AAAA", m.qname, 0, 16)
           strings == <<9>>
<1>1. \/ n = [m EXCEPT !.rcode = ServFail]
      \/ q.qtype \in T /\ n = appendTXT(m, 0, strings)
      \/ q.qtype \in T /\ n = [Answering(m, a) EXCEPT !.extra = <<b>>]
      \/ q.qtype \in T /\ n = [Answering(m, b) EXCEPT !.extra = <<a>>]
      \/ n = setNodataSOA(m)
  BY DEF myipReply
<1>2. IsRecord(a) /\ IsRecord(b) /\ strings \in Seq(Nat)
  <2>1. Len(m.qname) \in Nat
    BY DEF Blank, Fresh, IsMessage
  <2> QED
    BY <2>1, RRIsRecord
<1> HIDE DEF n, a, b, strings
<1>3. ASSUME NEW f, IsRecord(f), q.qtype \in T, NEW e, n = [Answering(m, f) EXCEPT !.extra = e]
      PROVE  Settled(q, n, T)
  <2> DEFINE start == Answering(m, f)
             more == Append(m.answer, f)
  <2>1. Settled(q, start, T)
    BY <1>3, SettledAnswering
  <2>2. start = [x \in MsgFields |-> start[x]]
    <3>1. start = [m EXCEPT !.answer = more]
      BY DEF Answering
    <3> HIDE DEF start, more
    <3> QED
      BY <3>1 DEF Blank, Fresh, IsMessage, MsgFields
  <2>3. n = [start EXCEPT !.extra = e]
    BY <1>3
  <2> HIDE DEF start
  <2>4. n.answer = start.answer /\ n.ns = start.ns /\ n.rcode = start.rcode
    BY <2>2, <2>3 DEF MsgFields
  <2> QED
    BY <2>1, <2>4 DEF Settled
<1>4. ASSUME n = [m EXCEPT !.rcode = ServFail]
      PROVE  Settled(q, n, T)
  <2>1. n.answer = m.answer /\ n.rcode = ServFail
    BY <1>4 DEF Blank, Fresh, IsMessage, MsgFields
  <2> QED
    BY <2>1 DEF Settled, Blank
<1>5. Settled(q, n, T)
  <2>1. CASE n = setNodataSOA(m) \/ (q.qtype \in T /\ n = appendTXT(m, 0, strings))
    BY <1>2, <2>1, SettledDenial, SettledTXT
  <2> QED
    BY <1>1, <1>2, <1>3, <1>4, <2>1
<1> QED
  BY <1>5 DEF n

\* A gadget's reply: those with text only have no other type.
LEMMA SettledGadget ==
    ASSUME NEW q, NEW m, Blank(q, m), NEW g, g.kind \in Gadgets, g.arg \in ValidArgs(g.kind),
           NEW T, "TXT" \in T, g.kind \notin TxtGadgets => {"A", "AAAA", "TXT"} \subseteq T
    PROVE  Settled(q, handleGadget(g, q, m), T)
<1> DEFINE n == handleGadget(g, q, m)
           strings == <<16>>
<1>0. strings \in Seq(Nat)
  OBVIOUS
<1>1. \/ n = myipReply(q, m) /\ g.kind \notin TxtGadgets
      \/ n = randomReply(q, m) /\ g.kind \notin TxtGadgets
      \/ n = handleDnssecFailed(q, m) /\ g.kind \notin TxtGadgets
      \/ n = setNodataSOA(m)
      \/ n = sizeReply(m, g.arg) /\ g.kind = "size" /\ q.qtype = "TXT"
      \/ n = appendTXT(m, GadgetTtl(g), strings) /\ q.qtype = "TXT"
  BY DEF handleGadget, Gadgets, TxtGadgets
<1> HIDE DEF n, strings
<1>2. n = sizeReply(m, g.arg) /\ g.kind = "size" /\ q.qtype = "TXT" => Settled(q, n, T)
  <2> HAVE n = sizeReply(m, g.arg) /\ g.kind = "size" /\ q.qtype = "TXT"
  <2>2. g.arg \in Nat
    BY SizesAreNumbers
  <2>1. sizeReply(m, g.arg).answer # <<>> /\ sizeReply(m, g.arg).rcode = NoError
    BY <2>2, BuiltSize DEF Blank
  <2> QED
    BY <2>1 DEF Settled, NoError, NXDomain
<1>3. {"A", "AAAA", "TXT"} \subseteq T => {"A", "TXT"} \subseteq T
  OBVIOUS
<1>4. Settled(q, n, T)
  BY <1>0, <1>1, <1>2, <1>3, SettledMyip, SettledRandom, SettledFailed, SettledDenial, SettledTXT
<1> QED
  BY <1>4 DEF n

LEMMA SettledGadgetOrNot ==
    ASSUME NEW q, NEW m, Blank(q, m), NEW g, NEW T, "TXT" \in T,
           g.kind \notin TxtGadgets => {"A", "AAAA", "TXT"} \subseteq T
    PROVE  Settled(q, GadgetOrNameError(g, q, m), T)
<1>1. CASE GadgetExists(g, q)
  <2>1. /\ GadgetOrNameError(g, q, m) = handleGadget(g, q, m)
        /\ g.kind \in Gadgets /\ g.arg \in ValidArgs(g.kind)
    BY <1>1 DEF GadgetOrNameError, GadgetExists
  <2> QED
    BY <2>1, SettledGadget
<1>2. CASE ~GadgetExists(g, q)
  <2>1. GadgetOrNameError(g, q, m) = NameError(m)
    BY <1>2 DEF GadgetOrNameError
  <2> QED
    BY <2>1, SettledDenial
<1> QED
  BY <1>1, <1>2

\* The names of the text gadgets.
TextOnly(labels) == labels \notin Nameservers /\ Parsed(labels).gadget.kind \in TxtGadgets

\* The families whose last label decides are none of them.
LEMMA NotTextOnly ==
    ASSUME NEW L, NEW labels \in Seq(L), labels # <<>>, NEW kind \in Families,
           Last(labels) = Plain(kind), ~IsUnder(labels, "diag")
    PROVE  ~TextOnly(labels)
<1>1. kind \notin SetKinds /\ kind \notin TxtGadgets
  BY DEF Families, SetKinds, TxtGadgets
<1>2. Plain(kind).kind = kind
  BY DEF Plain
<1>3. ~isSetOption(Last(labels))
  BY <1>1, <1>2 DEF isSetOption
<1>4. Parsed(labels).gadget = Last(labels)
  BY <1>3, GadgetIsLast DEF Parsed
<1> QED
  BY <1>1, <1>2, <1>4 DEF TextOnly

LEMMA SettledQnameMin ==
    ASSUME NEW q, NEW m, Blank(q, m), NEW seen \in Nat, NEW T, "TXT" \in T
    PROVE  Settled(q, qnameMinReply(q, m, seen), T)
<1> DEFINE name == NameBytes(m.qname)
           bytes == SequenceBytes(seen, m)
           none == <<>>
           one == <<bytes>>
           first == <<16 + name>>
           rest == IF seen = 0 THEN none ELSE one
           strings == first \o rest
<1>1. strings \in Seq(Nat)
  <2>1. name \in Nat
    BY NameBytesNat DEF Blank, Fresh, IsMessage
  <2>2. bytes = 37 + seen * (5 + name)
    BY DEF SequenceBytes
  <2> HIDE DEF name, bytes
  <2>3. bytes \in Nat
    <3> DEFINE each == 5 + name
    <3>1. each \in Nat
      BY <2>1
    <3> HIDE DEF each
    <3>2. seen * each \in Nat
      BY <3>1
    <3> QED
      BY <2>2, <3>2 DEF each
  <2>4. none \in Seq(Nat) /\ one \in Seq(Nat) /\ first \in Seq(Nat)
    BY <2>1, <2>3
  <2>5. rest \in Seq(Nat)
    BY <2>4
  <2> HIDE DEF rest, first
  <2> QED
    BY <2>4, <2>5
<1>2. Settled(q, setNodataSOA(m), T)
  BY SettledDenial
<1>3. qnameMinReply(q, m, seen) = setNodataSOA(m)
      \/ (q.qtype = "TXT" /\ qnameMinReply(q, m, seen) = appendTXT(m, 0, strings))
  BY Zenon DEF qnameMinReply
<1> HIDE DEF strings
<1> QED
  BY <1>1, <1>2, <1>3, SettledTXT

\* What the zone answers at a name: T has at least these types.
Offers(labels, T) ==
    /\ labels = Apex => T = AllTypes \ {"TXT"}
    /\ labels # Apex => "TXT" \in T
    /\ labels # Apex /\ ~TextOnly(labels) => {"A", "AAAA", "TXT"} \subseteq T

\* Whatever the name, what the zone replies is settled.
LEMMA SettledZone ==
    ASSUME NEW L, NEW q, q.labels \in Seq(L), NEW m, Blank(q, m), NEW seen \in Nat,
           q.labels # Unresolvable, ~(q.labels = Apex /\ q.qtype = "DNSKEY"),
           NEW T, Offers(q.labels, T)
    PROVE  Settled(q, ZoneReply(q, m, seen), T)
<1> DEFINE labels == q.labels
           n == ZoneReply(q, m, seen)
           all == {"TXT", "A", "AAAA"}
           text == {"TXT"}
           addresses == {"A", "AAAA"}
           hour == 3600
           failed == IF dnssecFailedExists(q) THEN handleDnssecFailed(q, m) ELSE NameError(m)
<1> DEFINE r1 == handleApex(q, m)
           r2 == Hosted(m, q.qtype, addresses, 0, 0)
           r3 == Hosted(m, q.qtype, all, 0, 60)
           r4 == DiagReply(q, m)
           r5 == Hosted(m, q.qtype, text, hour, 30)
           r6 == Hosted(m, q.qtype, text, 0, 20)
           r7 == qnameMinReply(q, m, seen)
           r8 == TopLevelReply(q, m)
           other == referral(m)
<1>1. \/ labels = Apex /\ n = r1
      \/ labels = <<Plain("www")>> /\ n = r2
      \/ labels = <<Plain("diag")>> /\ n = r3
      \/ IsUnder(labels, "diag") /\ n = r4
      \/ labels # Apex /\ n = r5
      \/ labels # Apex /\ n = r6
      \/ IsIn(labels, "entropy") /\ n = r2
      \/ labels # Apex /\ labels \in Nameservers /\ n = r2
      \/ labels # Apex /\ n = r7
      \/ IsIn(labels, "dnssec-failed") /\ n = failed
      \/ labels # Apex /\ ~IsUnder(labels, "diag") /\ labels \notin Nameservers /\ n = r8
  <2>1. n = CASE labels = Apex -> r1
              [] labels = <<Plain("www")>> -> r2
              [] labels = <<Plain("diag")>> -> r3
              [] IsUnder(labels, "diag") -> r4
              [] labels = <<Plain("help")>> -> r5
              [] labels \in TxtTests -> r6
              [] labels = Unresolvable -> other
              [] IsIn(labels, "entropy") -> r2
              [] labels \in Nameservers -> r2
              [] IsIn(labels, "qname-min") -> r7
              [] IsIn(labels, "dnssec-failed") -> failed
              [] OTHER -> r8
    BY DEF ZoneReply
  <2>2. labels # Unresolvable
    OBVIOUS
  <2>3. /\ labels = <<Plain("help")>> => labels # Apex
        /\ labels \in TxtTests => labels # Apex
        /\ labels \in Nameservers => labels # Apex
        /\ IsIn(labels, "qname-min") => labels # Apex
    <3>1. \A a, b : <<a>> # Apex /\ <<a, b>> # Apex
      BY DEF Apex
    <3>2. labels \in TxtTests => \E a, b : labels = <<a, b>>
      BY Zenon DEF TxtTests
    <3> QED
      BY <3>1, <3>2, AnswersAssumption, Zenon DEF IsIn, Apex
  <2> HIDE DEF r1, r2, r3, r4, r5, r6, r7, r8, other, failed, n, labels
  <2> QED
    BY <2>1, <2>2, <2>3
<1> SUFFICES Settled(q, n, T)
  OBVIOUS
<1> HIDE DEF n
<1>2. labels # Apex => "TXT" \in T /\ text \subseteq T
  BY DEF Offers
<1>3. labels # Apex /\ ~TextOnly(labels) => all \subseteq T /\ addresses \subseteq T
  BY DEF Offers
<1>4. CASE labels = Apex /\ n = handleApex(q, m)
  <2>1. T = AllTypes \ {"TXT"} /\ q.qtype # "DNSKEY"
    BY <1>4, Zenon DEF Offers
  <2>2. Settled(q, handleApex(q, m), T)
    BY <2>1, SettledApex, Zenon
  <2> QED
    BY <1>4, <2>2
<1>5. ASSUME NEW kind \in Families, Last(labels) = Plain(kind), labels # Apex, ~IsUnder(labels, "diag")
      PROVE  all \subseteq T /\ addresses \subseteq T
  BY <1>3, <1>5, NotTextOnly DEF Apex
<1>6. \A kind \in Families : labels = <<Plain(kind)>> => all \subseteq T /\ addresses \subseteq T
  <2> TAKE kind \in Families
  <2> HAVE labels = <<Plain(kind)>>
  <2> DEFINE one == Plain(kind)
  <2>1. Len(labels) = 1 /\ labels # Apex /\ ~IsUnder(labels, "diag")
    <3> HIDE DEF one
    <3>1. Len(<<one>>) = 1 /\ <<one>> # <<>>
      OBVIOUS
    <3> QED
      BY <3>1 DEF one, IsUnder, Apex
  <2>2. Last(labels) = Plain(kind)
    BY LastOfFixed
  <2> QED
    BY <1>5, <2>1, <2>2
<1>7. \A kind \in Families \ {"diag"} : IsIn(labels, kind) => all \subseteq T /\ addresses \subseteq T
  <2> TAKE kind \in Families \ {"diag"}
  <2> HAVE IsIn(labels, kind)
  <2>1. Last(labels) = Plain(kind) /\ labels # Apex /\ Plain(kind) # Plain("diag")
    BY DEF IsIn, Apex, Plain
  <2>2. ~IsUnder(labels, "diag")
    BY <2>1 DEF IsUnder
  <2> QED
    BY <1>5, <2>1, <2>2
<1>8. {"www", "diag", "entropy", "dnssec-failed"} \subseteq Families
  BY DEF Families
<1>9. \/ all \subseteq T /\ n = Hosted(m, q.qtype, all, 0, 60)
      \/ addresses \subseteq T /\ n = Hosted(m, q.qtype, addresses, 0, 0)
      \/ text \subseteq T /\ n = Hosted(m, q.qtype, text, hour, 30)
      \/ text \subseteq T /\ n = Hosted(m, q.qtype, text, 0, 20)
      => Settled(q, n, T)
  <2>1. all \subseteq {"TXT", "A", "AAAA"} /\ addresses \subseteq {"TXT", "A", "AAAA"}
        /\ text \subseteq {"TXT", "A", "AAAA"}
    OBVIOUS
  <2> HIDE DEF all, addresses, text, hour
  <2>2. /\ all \subseteq T => Settled(q, Hosted(m, q.qtype, all, 0, 60), T)
        /\ addresses \subseteq T => Settled(q, Hosted(m, q.qtype, addresses, 0, 0), T)
        /\ text \subseteq T => Settled(q, Hosted(m, q.qtype, text, hour, 30), T)
        /\ text \subseteq T => Settled(q, Hosted(m, q.qtype, text, 0, 20), T)
    <3>0. 0 \in Nat /\ 20 \in Nat /\ 30 \in Nat /\ 60 \in Nat
      OBVIOUS
    <3>1. \A types, ttl : \A length \in Nat :
              types \subseteq {"TXT", "A", "AAAA"} /\ types \subseteq T =>
                 Settled(q, Hosted(m, q.qtype, types, ttl, length), T)
      BY SettledHosted, Zenon
    <3>2. all \subseteq T => Settled(q, Hosted(m, q.qtype, all, 0, 60), T)
      BY <2>1, <3>0, <3>1, Zenon
    <3>3. addresses \subseteq T => Settled(q, Hosted(m, q.qtype, addresses, 0, 0), T)
      BY <2>1, <3>0, <3>1, Zenon
    <3>4. text \subseteq T => Settled(q, Hosted(m, q.qtype, text, hour, 30), T)
      BY <2>1, <3>0, <3>1, Zenon
    <3>5. text \subseteq T => Settled(q, Hosted(m, q.qtype, text, 0, 20), T)
      BY <2>1, <3>0, <3>1, Zenon
    <3> QED
      BY <3>2, <3>3, <3>4, <3>5
  <2> QED
    BY <2>2
<1>10. ASSUME NEW g, g = Parsed(labels).gadget, labels # Apex, n = GadgetOrNameError(g, q, m),
              labels \notin Nameservers
       PROVE  Settled(q, n, T)
  <2>1. g.kind \notin TxtGadgets => all \subseteq T
    BY <1>3, <1>10 DEF TextOnly
  <2>2. {"A", "AAAA", "TXT"} = all
    OBVIOUS
  <2> HIDE DEF all
  <2> QED
    BY <1>2, <1>10, <2>1, <2>2, SettledGadgetOrNot
<1>11. CASE IsUnder(labels, "diag") /\ n = DiagReply(q, m)
  <2> DEFINE g == parseDiag(labels).gadget
  <2>1. g = Parsed(labels).gadget
    BY <1>11 DEF Parsed
  <2>2. \/ g = NoLabel /\ n = Hosted(m, q.qtype, all, 0, 60)
        \/ n = GadgetOrNameError(g, q, m)
    BY <1>11 DEF DiagReply
  <2>3. labels # Apex /\ Last(labels) = Plain("diag")
    <3>1. Len(<<>>) = 0
      OBVIOUS
    <3> QED
      BY <1>11, <3>1 DEF IsUnder, Apex
  <2>4. labels \notin Nameservers
    <3>1. Last(labels).kind \in Families
      BY <2>3 DEF Families, Plain
    <3> QED
      BY <3>1, AnswersAssumption
  <2>5. CASE g = NoLabel /\ n = Hosted(m, q.qtype, all, 0, 60)
    <3>1. ~TextOnly(labels)
      <4>1. NoLabel.kind \notin TxtGadgets
        BY DEF NoLabel, Plain, TxtGadgets
      <4> QED
        BY <2>1, <2>5, <4>1 DEF TextOnly
    <3> QED
      BY <1>3, <1>9, <2>3, <2>5, <3>1
  <2> HIDE DEF g
  <2> QED
    BY <1>10, <2>1, <2>2, <2>3, <2>4, <2>5
<1>12. CASE n = TopLevelReply(q, m) /\ labels # Apex /\ ~IsUnder(labels, "diag") /\ labels \notin Nameservers
  <2> DEFINE g == parseTopLevel(labels).gadget
  <2>1. g = Parsed(labels).gadget
    BY <1>12 DEF Parsed
  <2>2. n = setNodataSOA(m) \/ n = NameError(m) \/ n = GadgetOrNameError(g, q, m)
    BY <1>12, Zenon DEF TopLevelReply, setOptionsOnly
  <2> HIDE DEF g
  <2> QED
    BY <1>10, <1>12, <2>1, <2>2, SettledDenial
<1>13. CASE IsIn(labels, "dnssec-failed") /\ n = failed
  <2>1. all \subseteq T
    BY <1>7, <1>8, <1>13
  <2>2. {"A", "TXT"} \subseteq T
    BY <2>1
  <2>3. n = handleDnssecFailed(q, m) \/ n = NameError(m)
    BY <1>13, Zenon
  <2> QED
    BY <2>2, <2>3, SettledFailed, SettledDenial
<1>14. CASE labels \in Nameservers /\ n = Hosted(m, q.qtype, addresses, 0, 0)
  <2>1. labels # Apex /\ ~TextOnly(labels)
    BY <1>14, AnswersAssumption DEF TextOnly, Apex
  <2> QED
    BY <1>3, <1>9, <1>14, <2>1
<1>15. CASE labels # Apex /\ n = qnameMinReply(q, m, seen)
  BY <1>2, <1>15, SettledQnameMin
<1>16. CASE \/ labels = <<Plain("www")>> /\ n = Hosted(m, q.qtype, addresses, 0, 0)
            \/ labels = <<Plain("diag")>> /\ n = Hosted(m, q.qtype, all, 0, 60)
            \/ IsIn(labels, "entropy") /\ n = Hosted(m, q.qtype, addresses, 0, 0)
  <2> HIDE DEF all, addresses
  <2>1. {"www", "diag", "entropy"} \subseteq Families /\ "entropy" # "diag"
    BY <1>8
  <2> QED
    BY <1>6, <1>7, <1>9, <1>16, <2>1
<1>17. CASE \/ labels # Apex /\ n = Hosted(m, q.qtype, text, hour, 30)
            \/ labels # Apex /\ n = Hosted(m, q.qtype, text, 0, 20)
  BY <1>2, <1>9, <1>17
<1> HIDE DEF all, addresses, text, failed
<1> QED
  BY <1>1, <1>4, <1>11, <1>12, <1>13, <1>14, <1>15, <1>16, <1>17

\* The names that are to break the denial have no more than one.
LEMMA DenialTest ==
    ASSUME NEW q, NEW m, Blank(q, m), NEW seen \in Nat, NEW kind \in BadDenials, FailNamed(q.labels, kind), NEW T
    PROVE  /\ ZoneReply(q, m, seen).rcode = NoError
           /\ Settled(q, ZoneReply(q, m, seen), T)
<1> DEFINE labels == q.labels
           a == Plain(kind)
           b == Plain("dnssec-failed")
           n == handleDnssecFailed(q, m)
<1>1. labels = <<a, b>>
  BY DEF FailNamed
<1>2. labels # <<>> /\ Last(labels) = b /\ labels[1] = a /\ \A l : labels # <<l>>
  <2> HIDE DEF a, b
  <2> QED
    BY <1>1 DEF Last
<1>3. b.kind = "dnssec-failed" /\ a.kind = kind /\ \A k : k # "dnssec-failed" => b # Plain(k)
  BY DEF Plain
<1>4. /\ labels # Apex /\ labels # <<Plain("www")>> /\ labels # <<Plain("diag")>>
      /\ labels # <<Plain("help")>> /\ labels \notin TxtTests /\ labels # Unresolvable
      /\ ~IsUnder(labels, "diag") /\ ~IsIn(labels, "entropy") /\ ~IsIn(labels, "qname-min")
      /\ IsIn(labels, "dnssec-failed") /\ labels \notin Nameservers
  <2>1. labels \notin Nameservers
    <3>1. b.kind \in Families
      BY <1>3 DEF Families
    <3> HIDE DEF labels
    <3> QED
      BY <1>2, <3>1, AnswersAssumption
  <2> HIDE DEF labels, a
  <2>2. labels \notin TxtTests /\ labels # Unresolvable
    BY <1>2, <1>3, LastOfFixed
  <2> HIDE DEF b
  <2> QED
    BY <1>2, <1>3, <2>1, <2>2 DEF Apex, IsUnder, IsIn, b
<1>5. dnssecFailedExists(q) /\ kind \notin BadSignatures
  BY <1>2, <1>3 DEF dnssecFailedExists, BadDenials, BadSignatures
<1>6. ZoneReply(q, m, seen) = n
  BY <1>4, <1>5 DEF ZoneReply
<1>7. q.labels[1].kind \notin BadSignatures
  BY <1>2, <1>3, <1>5
<1> QED
  BY <1>6, <1>7, SettledFailed

-----------------------------------------------------------------------------
(***************************************************************************)
(* A signed denial: where its NSEC records come from.                      *)
(***************************************************************************)
NoNsec(rrs) == \A rr \in Elements(rrs) : rr.type # "NSEC"

\* A signature has the owner of what was signed.
LEMMA TypeOfRR ==
    /\ \A type, owner, ttl, rdata : RR(type, owner, ttl, rdata).type = type /\ RR(type, owner, ttl, rdata).owner = owner
    /\ \A rr : Rrsig(rr).type = "RRSIG" /\ Rrsig(rr).owner = SignedOwner(rr)
<1>1. \A type, owner, ttl, rdata : RR(type, owner, ttl, rdata).type = type /\ RR(type, owner, ttl, rdata).owner = owner
  BY DEF RR
<1>2. ASSUME NEW rr
      PROVE  Rrsig(rr).type = "RRSIG" /\ Rrsig(rr).owner = SignedOwner(rr)
  <2> DEFINE owner == SignedOwner(rr)
             sig == RR("RRSIG", owner, rr.ttl, SigBytes)
             packs == ~(FailNamed(rr.owner, "sig-fail") /\ rr.type # "NSEC")
  <2>1. Rrsig(rr) = [sig EXCEPT !.packs = packs]
    BY DEF Rrsig
  <2>2. sig = [x \in DOMAIN sig |-> sig[x]] /\ sig.type = "RRSIG" /\ sig.owner = owner
    <3> HIDE DEF owner
    <3> QED
      BY DEF RR
  <2> HIDE DEF sig, packs
  <2> QED
    BY <2>1, <2>2
<1> QED
  BY <1>1, <1>2

LEMMA KeysSection == IsSection(Keys) /\ \A rr \in Elements(Keys) : rr.type = "DNSKEY" /\ rr.owner = Apex
<1> DEFINE key == RR("DNSKEY", Apex, 3600, KeyBytes)
<1>1. IsRecord(key) /\ key.type = "DNSKEY" /\ key.owner = Apex
  <2>1. Len(Apex) \in Nat /\ KeyBytes \in Nat
    BY DEF Apex, KeyBytes
  <2> QED
    BY <2>1, RRIsRecord, TypeOfRR
<1>2. Keys = Copies(key, 2)
  BY DEF Keys
<1> HIDE DEF key
<1> QED
  BY <1>1, <1>2, CopiesSection

\* Its NSEC records are those NsecsOf made.
LEMMA DenialNsecs ==
    ASSUME NEW q, q.labels \in Names, NEW z, NEW rr \in Elements(Denial(q, z)), rr.type = "NSEC"
    PROVE  rr \in Elements(NsecsOf(q, z))
<1> DEFINE nsecs == NsecsOf(q, z)
           sigs == [i \in DOMAIN nsecs |-> Rrsig(nsecs[i])]
           nsec3 == RR("NSEC3", <<Plain("0")>>, 300, Nsec3Bytes)
           none == <<>>
           one == <<nsec3>>
           both == nsecs \o sigs
<1>1. IsSection(nsecs) /\ IsSection(sigs)
  BY ChainedNames, NsecsSection
<1>2. IsRecord(nsec3) /\ nsec3.type = "NSEC3"
  <2>1. Len(<<Plain("0")>>) \in Nat /\ Nsec3Bytes \in Nat
    BY DEF Nsec3Bytes
  <2> QED
    BY <2>1, RRIsRecord, TypeOfRR
<1>3. Denial(q, z) = none \/ Denial(q, z) = one \/ Denial(q, z) = both
  BY DEF Denial
<1>4. \A s \in Elements(sigs) : s.type = "RRSIG"
  <2>1. DOMAIN sigs = DOMAIN nsecs
    OBVIOUS
  <2>2. \A i \in DOMAIN sigs : sigs[i].type = "RRSIG"
    BY TypeOfRR
  <2>3. DOMAIN sigs = 1..Len(sigs)
    <3> HIDE DEF sigs
    <3> QED
      BY <1>1, Section
  <2> HIDE DEF sigs
  <2> QED
    BY <2>2, <2>3 DEF Elements
<1> HIDE DEF nsecs, sigs, nsec3
<1>5. /\ Elements(none) = {}
      /\ Elements(one) = {nsec3}
      /\ Elements(both) = Elements(nsecs) \cup Elements(sigs)
  <2>1. Elements(none) = {}
    BY EmptySection
  <2>2. Elements(one) = {nsec3}
    BY <1>2, OneRecord
  <2>3. Elements(both) = Elements(nsecs) \cup Elements(sigs)
    BY <1>1, JoinedSections, Zenon
  <2> QED
    BY <2>1, <2>2, <2>3
<1> HIDE DEF none, one, both
<1> QED
  BY <1>2, <1>3, <1>4, <1>5 DEF nsecs

\* A signed reply, section by section.
LEMMA SignedIs ==
    ASSUME NEW q, NEW z, IsMessage(z), HasSigner, wantDNSSEC(q), NEW n, n = SignResponse(q, z)
    PROVE  LET keyed == WithKeys(q, z)
           IN  /\ n.answer = signSection(keyed.answer)
               /\ n.ns = signSection(keyed.ns) \o Denial(q, z)
               /\ n.rcode = z.rcode
<1> DEFINE keyed == WithKeys(q, z)
           denial == Denial(q, z)
           answer == signSection(keyed.answer)
           ns == signSection(keyed.ns) \o denial
<1>1. n = [keyed EXCEPT !.answer = answer, !.ns = ns]
  BY DEF SignResponse
<1>2. Extends(z, keyed)
  BY KeyedMessage
<1> HIDE DEF keyed, answer, ns
<1>3. n.answer = answer /\ n.ns = ns /\ n.rcode = keyed.rcode /\ keyed.rcode = z.rcode
  BY <1>1, <1>2, Zenon DEF Extends, IsMessage, MsgFields, SameBut
<1> QED
  BY <1>3 DEF keyed, answer, ns

\* The keys go to the answer or to the authority section, or nowhere.
LEMMA KeyedSections ==
    ASSUME NEW q, NEW z, IsMessage(z), NEW keyed, keyed = WithKeys(q, z)
    PROVE  /\ keyed.answer = IF q.labels = Apex /\ q.qtype = "DNSKEY" THEN z.answer \o Keys ELSE z.answer
           /\ keyed.ns = IF q.labels = Apex /\ q.qtype # "DNSKEY" /\ z.ns # <<>> THEN z.ns \o Keys ELSE z.ns
           /\ IsMessage(keyed)
<1> DEFINE answer == z.answer \o Keys
           ns == z.ns \o Keys
<1>1. /\ q.labels = Apex /\ q.qtype = "DNSKEY" => keyed = [z EXCEPT !.answer = answer]
      /\ q.labels = Apex /\ q.qtype # "DNSKEY" /\ z.ns # <<>> => keyed = [z EXCEPT !.ns = ns]
      /\ \/ q.labels # Apex
         \/ q.qtype # "DNSKEY" /\ z.ns = <<>>
         => keyed = z
  BY DEF WithKeys
<1> HIDE DEF answer, ns
<1>2. /\ [z EXCEPT !.answer = answer].answer = answer /\ [z EXCEPT !.answer = answer].ns = z.ns
      /\ [z EXCEPT !.ns = ns].ns = ns /\ [z EXCEPT !.ns = ns].answer = z.answer
  BY DEF IsMessage, MsgFields
<1>3. IsMessage(keyed)
  BY KeyedMessage DEF Extends
<1> QED
  BY <1>1, <1>2, <1>3, Zenon DEF answer, ns

\* What is signed has no NSEC record but those of the denial.
LEMMA SignedNsecs ==
    ASSUME NEW q, q.labels \in Names, NEW z, IsMessage(z), HasSigner, wantDNSSEC(q),
           NEW n, n = SignResponse(q, z), NoNsec(z.ns)
    PROVE  NsecsIn(n) \subseteq Elements(NsecsOf(q, z))
<1> DEFINE keyed == WithKeys(q, z)
           signed == signSection(keyed.ns)
           denial == Denial(q, z)
<1>1. IsMessage(keyed) /\ NoNsec(keyed.ns)
  <2>1. IsMessage(keyed) /\ (keyed.ns = z.ns \/ keyed.ns = z.ns \o Keys)
    BY KeyedSections, Zenon
  <2> HIDE DEF keyed
  <2> HIDE DEF signed, denial
  <2>3. IsSection(z.ns) /\ IsSection(Keys)
    BY KeysSection DEF IsMessage
  <2>2. Elements(z.ns \o Keys) = Elements(z.ns) \cup Elements(Keys)
    BY <2>3, JoinedSections, Zenon
  <2> QED
    BY <2>1, <2>2, KeysSection, Zenon DEF NoNsec
<1> HIDE DEF keyed
<1>2. IsSection(signed) /\ NoNsec(signed)
  BY <1>1, SignedSection, TypeOfRR DEF IsMessage, NoNsec
<1>3. n.ns = signed \o denial
  BY SignedIs DEF keyed
<1>4. IsSection(denial)
  BY ChainedNames, DenialSection
<1>5. \A rr \in Elements(denial) : rr.type = "NSEC" => rr \in Elements(NsecsOf(q, z))
  BY DenialNsecs
<1> HIDE DEF signed, denial
<1>6. IsSection(n.ns) /\ Elements(n.ns) = Elements(signed) \cup Elements(denial)
  BY <1>2, <1>3, <1>4, JoinedSections, Zenon
<1>7. DOMAIN n.ns = 1..Len(n.ns)
  BY <1>6, Section
<1> QED
  BY <1>2, <1>5, <1>6, <1>7, Zenon DEF NsecsIn, NoNsec, Elements

\* The reply a handler returns for a query that reaches the zone.
LEMMA HandleZone ==
    ASSUME NEW q, ReachesZone(q), NEW seen \in Nat
    PROVE  Handle(q, seen) = SignResponse(q, ZoneReply(q, Reply(q.labels), seen))
<1> DEFINE m == Reply(q.labels)
           zone == SignResponse(q, ZoneReply(q, m, seen))
           early == q.edns.present /\ q.edns.version # 0
           bad == SetEdns0([m EXCEPT !.rcode = BadVers], 4096, FALSE)
           formErr == [m EXCEPT !.rcode = FormErr]
           refused == [m EXCEPT !.rcode = Refused]
<1>1. Handle(q, seen) =
         IF early THEN bad
         ELSE IF ~q.asked THEN formErr
         ELSE IF q.class = "CH" THEN Chaos(q, m)
         ELSE IF q.zone # "in" THEN refused
         ELSE zone
  BY Zenon DEF Handle
<1>2. ~early /\ q.asked /\ q.class # "CH" /\ q.zone = "in"
  BY DEF ReachesZone
<1> HIDE DEF zone, early, bad, formErr, refused, m
<1>3. Handle(q, seen) = zone
  BY <1>1, <1>2
<1> QED
  BY <1>3 DEF zone, m

\* Handle starts from a blank reply, and ends with a message.
LEMMA BlankReply == \A q : Len(q.labels) \in Nat => Blank(q, Reply(q.labels))
  BY FreshReply DEF Blank, Reply, NoError

LEMMA ZoneIsMessage ==
    ASSUME NEW q, q.labels \in Names, NEW seen \in Nat,
           NEW n, n = SignResponse(q, ZoneReply(q, Reply(q.labels), seen))
    PROVE  /\ IsMessage(ZoneReply(q, Reply(q.labels), seen))
           /\ Extends(ZoneReply(q, Reply(q.labels), seen), n)
           /\ n.rcode = ZoneReply(q, Reply(q.labels), seen).rcode
<1>1. IsMessage(ZoneReply(q, Reply(q.labels), seen))
  BY ChainedNames, FreshReply, BuiltZoneReply DEF Built
<1>2. Extends(ZoneReply(q, Reply(q.labels), seen), n)
  BY <1>1, ChainedNames, SignedMessage
<1> QED
  BY <1>1, <1>2 DEF Extends, SameBut, MsgFields

SomeTypes(labels) == IF labels = Apex THEN AllTypes \ {"TXT"} ELSE {"A", "AAAA", "TXT"}

\* A negative reply is a denial with the SOA, but for referrals and the apex's keys.
LEMMA NegativeZone ==
    ASSUME NEW q, q.labels \in Names, NEW seen \in Nat, NEW z, z = ZoneReply(q, Reply(q.labels), seen),
           NEW n, n = SignResponse(q, z), IsNegative(n),
           q.labels # Unresolvable, ~(q.labels = Apex /\ q.qtype = "DNSKEY")
    PROVE  /\ z.answer = <<>> /\ z.ns = SoaOnly /\ z.rcode = n.rcode
           /\ z.rcode \in {NoError, NXDomain}
<1> DEFINE T == SomeTypes(q.labels)
<1>1. Offers(q.labels, T)
  BY DEF Offers, SomeTypes
<1> HIDE DEF T
<1>2. Settled(q, z, T)
  BY <1>1, BlankReply, SettledZone DEF Names
<1>3. IsMessage(z) /\ Extends(z, n) /\ n.rcode = z.rcode
  BY ZoneIsMessage
<1>4. z.rcode # ServFail /\ z.answer = <<>>
  BY <1>2, <1>3 DEF Settled, Extends, IsNegative, NoError, ServFail, NXDomain
<1> QED
  BY <1>2, <1>3, <1>4 DEF Settled

\* The delegated name is in no other family.
LEMMA UnresolvableIs ==
    ASSUME NEW labels, labels = Unresolvable
    PROVE  /\ labels # Apex /\ labels # <<Plain("www")>> /\ labels # <<Plain("diag")>>
           /\ labels # <<Plain("help")>> /\ labels \notin TxtTests
           /\ ~IsUnder(labels, "diag") /\ ~IsIn(labels, "entropy")
           /\ ~IsIn(labels, "qname-min") /\ ~IsIn(labels, "dnssec-failed")
           /\ labels \notin Nameservers
<1> DEFINE a == Plain("unresolvable")
           b == Plain("ns-test")
<1>1. labels = <<a, b>>
  BY DEF Unresolvable
<1>2. b.kind = "ns-test" /\ \A k : k # "ns-test" => b # Plain(k)
  BY DEF Plain
<1> HIDE DEF a, b
<1>3. labels # <<>> /\ Last(labels) = b /\ \A l : labels # <<l>>
  BY <1>1 DEF Last
<1>4. labels \notin Nameservers
  <2>1. b.kind \in Families
    BY <1>2 DEF Families
  <2> QED
    BY <1>3, <2>1, AnswersAssumption
<1>5. labels \notin TxtTests
  BY <1>2, <1>3, LastOfFixed
<1> QED
  BY <1>2, <1>3, <1>4, <1>5 DEF Apex, IsUnder, IsIn

\* The delegated name gets its referral.
LEMMA ReferralIs ==
    ASSUME NEW q, q.labels = Unresolvable, NEW seen \in Nat
    PROVE  ZoneReply(q, Reply(q.labels), seen) = referral(Reply(q.labels))
<1>1. /\ q.labels # Apex /\ q.labels # <<Plain("www")>> /\ q.labels # <<Plain("diag")>>
      /\ q.labels # <<Plain("help")>> /\ q.labels \notin TxtTests
      /\ ~IsUnder(q.labels, "diag") /\ ~IsIn(q.labels, "entropy")
      /\ ~IsIn(q.labels, "qname-min") /\ ~IsIn(q.labels, "dnssec-failed")
      /\ q.labels \notin Nameservers
  BY UnresolvableIs
<1> QED
  BY <1>1 DEF ZoneReply

\* The handler leaves the apex's keys to the signer.
LEMMA ApexKeysAre ==
    ASSUME NEW q, q.labels = Apex, q.qtype = "DNSKEY", NEW seen \in Nat
    PROVE  ZoneReply(q, Reply(q.labels), seen) = Reply(q.labels)
<1>1. \A a, b : <<a>> # Apex /\ <<a, b>> # Apex
  BY DEF Apex
<1>2. q.labels \notin TxtTests /\ q.labels # Unresolvable
  BY <1>1, Zenon DEF TxtTests, Unresolvable
<1>3. q.labels \notin Nameservers
  BY AnswersAssumption DEF Apex
<1>4. \A kind : ~IsUnder(q.labels, kind) /\ ~IsIn(q.labels, kind)
  BY DEF Apex, IsUnder, IsIn
<1>5. ZoneReply(q, Reply(q.labels), seen) = handleApex(q, Reply(q.labels))
  BY <1>1, <1>2, <1>3, <1>4 DEF ZoneReply
<1>6. handleApex(q, Reply(q.labels)) = Reply(q.labels)
  BY Zenon DEF handleApex
<1> QED
  BY <1>5, <1>6

\* The signer answers for the apex's keys.
LEMMA ApexKeysAnswered ==
    ASSUME NEW q, q.labels \in Names, NEW seen \in Nat, HasSigner, wantDNSSEC(q),
           NEW n, n = SignResponse(q, ZoneReply(q, Reply(q.labels), seen)), IsNegative(n)
    PROVE  ~(q.labels = Apex /\ q.qtype = "DNSKEY")
<1> SUFFICES ASSUME q.labels = Apex, q.qtype = "DNSKEY"
             PROVE  FALSE
  OBVIOUS
<1> DEFINE z == ZoneReply(q, Reply(q.labels), seen)
<1>0. IsMessage(z)
  BY ZoneIsMessage
<1> HIDE DEF z
<1>1. n.answer = signSection(z.answer \o Keys) /\ n.rcode = z.rcode
  BY <1>0, SignedIs, KeyedSections DEF z
<1>2. z.answer \o Keys # <<>>
  <2>1. Len(Keys) = 2
    BY DEF Keys, Copies
  <2>2. IsSection(z.answer) /\ IsSection(Keys)
    BY <1>0, KeysSection DEF IsMessage
  <2>5. Len(z.answer \o Keys) = Len(z.answer) + Len(Keys)
    BY <2>2, JoinedSections
  <2>3. Len(z.answer \o Keys) = Len(z.answer) + 2 /\ Len(z.answer) \in Nat
    BY <2>1, <2>2, <2>5, Section
  <2> DEFINE k == Len(z.answer \o Keys)
  <2>4. k # 0
    BY <2>3
  <2> QED
    BY <2>4, EmptySection
<1>3. IsSection(z.answer \o Keys)
  BY <1>0, KeysSection, JoinedSections, Zenon DEF IsMessage
<1>4. n.answer # <<>>
  BY <1>1, <1>2, <1>3, SignedSection, Zenon
<1>5. z.rcode = NoError
  <2>1. z = Reply(q.labels)
    BY ApexKeysAre DEF z
  <2> QED
    BY <2>1, BlankReply DEF Blank
<1> QED
  BY <1>1, <1>4, <1>5 DEF IsNegative, NoError, NXDomain

\* No reply the signer signs has an NSEC record that denies a listed name.
LEMMA SignedDeniesNone ==
    ASSUME NEW q, q.labels \in Names, NEW seen \in Nat, HasSigner, wantDNSSEC(q),
           NEW n, n = SignResponse(q, ZoneReply(q, Reply(q.labels), seen)), IsNegative(n),
           NEW nsec \in NsecsIn(n), NEW name \in ListedNames
    PROVE  ~Covers(nsec, name)
<1> DEFINE z == ZoneReply(q, Reply(q.labels), seen)
<1>1. IsMessage(z) /\ Extends(z, n)
  BY ZoneIsMessage
<1> HIDE DEF z
<1>3. ~(q.labels = Apex /\ q.qtype = "DNSKEY")
  BY ApexKeysAnswered
<1>4. ~Covers(nsec, name)
  <2>1. NoNsec(z.ns)
    <3>1. CASE q.labels # Unresolvable
      <4>1. z.ns = SoaOnly
        BY <1>3, <3>1, NegativeZone DEF z
      <4> DEFINE soa == SOA(0)
      <4>2. IsRecord(soa) /\ soa.type = "SOA"
        BY SOAIsRecord, TypeOfRR DEF SOA
      <4>3. z.ns = <<soa>>
        BY <4>1 DEF SoaOnly
      <4> HIDE DEF soa
      <4>4. Elements(z.ns) = {soa}
        BY <4>2, <4>3, OneRecord
      <4> QED
        BY <4>2, <4>4 DEF NoNsec
    <3>2. CASE q.labels = Unresolvable
      <4> DEFINE m == Reply(q.labels)
                 rr == RR("NS", m.qname, 60, NameBytes(m.qname) + LabelBytes)
                 both == Copies(rr, 2)
      <4>1. z = referral(m)
        BY <3>2, ReferralIs DEF z
      <4>2. z.ns = both
        <5>1. Fresh(q, m)
          BY ChainedNames, FreshReply
        <5>2. z = [m EXCEPT !.ns = both]
          BY <4>1 DEF referral
        <5> HIDE DEF both, m
        <5> QED
          BY <5>1, <5>2 DEF Fresh, IsMessage, MsgFields
      <4>3. IsRecord(rr) /\ rr.type = "NS"
        <5>1. Len(m.qname) \in Nat /\ LabelBytes \in Nat
          BY ChainedNames, FreshReply, MessagesAssumption DEF Fresh, IsMessage
        <5> DEFINE bytes == NameBytes(m.qname) + LabelBytes
        <5>2. bytes \in Nat
          BY <5>1, NameBytesNat
        <5> HIDE DEF bytes, m
        <5>3. IsRecord(RR("NS", m.qname, 60, bytes))
          BY <5>1, <5>2, RRIsRecord
        <5> QED
          BY <5>3, TypeOfRR DEF bytes
      <4> HIDE DEF rr
      <4>4. Elements(both) \subseteq {rr}
        BY <4>3, CopiesSection
      <4> QED
        BY <4>2, <4>3, <4>4 DEF NoNsec
    <3> QED
      BY <3>1, <3>2
  <2>2. nsec \in Elements(NsecsOf(q, z))
    BY <1>1, <2>1, SignedNsecs DEF z
  <2>3. PICK i \in 1..Len(NsecsOf(q, z)) : nsec = NsecsOf(q, z)[i]
    BY <2>2 DEF Elements
  <2>4. i \in DOMAIN NsecsOf(q, z)
    BY <2>3, ChainedNames, NsecsSection, Section
  <2> QED
    BY <2>3, <2>4, NsecsDeny DEF DeniesListed
<1> QED
  BY <1>4

\* "Keep in sync with handler" holds for the denials.
THEOREM DenialsSpareTheZone == Spec => []DeniesOnlyTheMissing
<1>1. ReplyInv => DeniesOnlyTheMissing
  <2> SUFFICES ASSUME ReplyInv, NEW h \in Handlers, IsSignedDenial(h),
                      NEW n \in NsecsIn(handled[h]), NEW name \in FixedNames, Covers(n, name)
               PROVE  name \in Unlisted
    BY DEF DeniesOnlyTheMissing
  <2> DEFINE q == query[h]
  <2>1. IsOnItsWay("done", Queries[h], q, reply[h], handled[h], sent[h])
    BY DEF ReplyInv, IsSignedDenial
  <2>2. IsQuery(q) /\ IsHandled(q, handled[h])
    BY <2>1 DEF IsOnItsWay
  <2>3. PICK seen \in Nat : handled[h] = Handle(q, seen)
    BY <2>2, Zenon DEF IsHandled
  <2>4. /\ handled[h] = SignResponse(q, ZoneReply(q, Reply(q.labels), seen))
        /\ q.labels \in Names /\ HasSigner /\ wantDNSSEC(q) /\ IsNegative(handled[h])
    BY <2>2, <2>3, HandleZone DEF IsSignedDenial, IsQuery, Names
  <2> HIDE DEF q
  <2>5. name \notin ListedNames
    BY <2>4, SignedDeniesNone
  <2> QED
    BY <2>5, FixedAreListed
<1> QED
  BY <1>1, ReplyInvariant, PTL

-----------------------------------------------------------------------------
(***************************************************************************)
(* What a denial has: the SOA, NSEC records, and a signature for each.     *)
(***************************************************************************)
\* The records of a denial: the NSECs and a signature for each, unless the name is to
\* break the denial.
Unbroken(q) == ~FailNamed(q.labels, "nsec-missing") /\ ~FailNamed(q.labels, "nsec3-instead")

LEMMA DenialHasAll ==
    ASSUME NEW q, q.labels \in Names, Unbroken(q), NEW z, z.rcode = NXDomain \/ isNoData(z)
    PROVE  \A nsec \in Elements(NsecsOf(q, z)) :
               nsec \in Elements(Denial(q, z)) /\ Rrsig(nsec) \in Elements(Denial(q, z))
<1> DEFINE nsecs == NsecsOf(q, z)
           sigs == [i \in DOMAIN nsecs |-> Rrsig(nsecs[i])]
           both == nsecs \o sigs
<1>1. IsSection(nsecs) /\ IsSection(sigs)
  BY ChainedNames, NsecsSection
<1>2. Denial(q, z) = both
  BY Zenon DEF Denial, Unbroken
<1>3. \A i \in DOMAIN nsecs : i \in DOMAIN sigs /\ sigs[i] = Rrsig(nsecs[i])
  OBVIOUS
<1> HIDE DEF nsecs, sigs
<1>4. Elements(both) = Elements(nsecs) \cup Elements(sigs)
  BY <1>1, JoinedSections, Zenon
<1>5. DOMAIN nsecs = 1..Len(nsecs) /\ DOMAIN sigs = 1..Len(sigs)
  BY <1>1, Section
<1>6. \A nsec \in Elements(nsecs) : Rrsig(nsec) \in Elements(sigs)
  BY <1>3, <1>5 DEF Elements
<1> HIDE DEF both
<1> QED
  BY <1>2, <1>4, <1>6 DEF nsecs

\* No record of a denial is a SOA.
LEMMA DenialHasNoSoa ==
    ASSUME NEW q, q.labels \in Names, NEW z, NEW rr \in Elements(Denial(q, z))
    PROVE  rr.type # "SOA"
<1> DEFINE nsecs == NsecsOf(q, z)
           sigs == [i \in DOMAIN nsecs |-> Rrsig(nsecs[i])]
           nsec3 == RR("NSEC3", <<Plain("0")>>, 300, Nsec3Bytes)
           none == <<>>
           one == <<nsec3>>
           both == nsecs \o sigs
<1>1. IsSection(nsecs) /\ IsSection(sigs)
  BY ChainedNames, NsecsSection
<1>2. IsRecord(nsec3) /\ nsec3.type = "NSEC3"
  <2>1. Len(<<Plain("0")>>) \in Nat /\ Nsec3Bytes \in Nat
    BY DEF Nsec3Bytes
  <2> QED
    BY <2>1, RRIsRecord, TypeOfRR
<1>3. Denial(q, z) = none \/ Denial(q, z) = one \/ Denial(q, z) = both
  BY DEF Denial
<1>4. \A i \in DOMAIN sigs : sigs[i].type = "RRSIG"
  BY TypeOfRR
<1>5. \A i \in DOMAIN nsecs : nsecs[i].type = "NSEC"
  <2> DEFINE spans == nsecForName(q.labels, q.qtype, isNoData(z)) \o
                         (IF z.rcode = NXDomain THEN <<nsecForWildcard>> ELSE <<>>)
  <2>1. nsecs = [i \in DOMAIN spans |-> NSEC(spans[i])]
    BY Zenon DEF NsecsOf
  <2> HIDE DEF nsecs, spans
  <2> QED
    BY <2>1 DEF NSEC
<1> HIDE DEF nsecs, sigs, nsec3
<1>6. Elements(none) = {} /\ Elements(one) = {nsec3}
  <2>1. Elements(none) = {}
    BY EmptySection
  <2>2. Elements(one) = {nsec3}
    BY <1>2, OneRecord
  <2> QED
    BY <2>1, <2>2
<1>7. Elements(both) = Elements(nsecs) \cup Elements(sigs)
  BY <1>1, JoinedSections, Zenon
<1>8. DOMAIN nsecs = 1..Len(nsecs) /\ DOMAIN sigs = 1..Len(sigs)
  BY <1>1, Section
<1> HIDE DEF none, one, both
<1>9. (\A x \in Elements(nsecs) : x.type = "NSEC") /\ (\A x \in Elements(sigs) : x.type = "RRSIG")
  BY <1>4, <1>5, <1>8 DEF Elements
<1>10. rr \in Elements(none) \/ rr \in Elements(one) \/ rr \in Elements(both)
  BY <1>3
<1>11. rr = nsec3 \/ rr \in Elements(nsecs) \/ rr \in Elements(sigs)
  BY <1>6, <1>7, <1>10
<1> QED
  BY <1>2, <1>9, <1>11

\* The authority section before it is signed.
LEMMA KeyedNs ==
    ASSUME NEW q, NEW z, IsMessage(z)
    PROVE  WithKeys(q, z).ns = z.ns \/ WithKeys(q, z).ns = z.ns \o Keys
  BY KeyedSections, Zenon

LEMMA SecondPart ==
    ASSUME NEW S, NEW x \in Seq(S), NEW y \in Seq(S)
    PROVE  \A i \in 1..Len(y) : (x \o y)[Len(x) + i] = y[i]
  OBVIOUS

\* The zone's part of a signed denial: the SOA first, and a signature for it.
LEMMA SignedSoa ==
    ASSUME NEW q, NEW z, IsMessage(z), z.ns = SoaOnly,
           NEW keyed, keyed = WithKeys(q, z), ~(q.labels = Apex /\ q.qtype = "DNSKEY"),
           NEW signed, signed = signSection(keyed.ns)
    PROVE  /\ IsSection(signed) /\ signed # <<>> /\ signed[1].type = "SOA"
           /\ \A rr \in Elements(signed) : rr.type # "NSEC" /\ (rr.type = "SOA" => rr.owner = Apex)
           /\ \E rr \in Elements(signed) : rr.type = "RRSIG" /\ rr.owner = Apex
<1> DEFINE soa == SOA(0)
           ns == keyed.ns
           none == <<>>
           one == <<soa>>
<1>1. IsRecord(soa) /\ soa.type = "SOA" /\ soa.owner = Apex
  BY SOAIsRecord, TypeOfRR DEF SOA
<1>2. one = z.ns
  BY DEF SoaOnly
<1>3. ns = one \/ ns = one \o Keys
  <2> HIDE DEF soa, ns, none, one
  <2>2. keyed.ns = z.ns \/ keyed.ns = z.ns \o Keys
    BY KeyedNs, Zenon
  <2> QED
    BY <1>2, <2>2 DEF ns
<1> HIDE DEF soa, ns
<1>4. IsSection(one) /\ Len(one) = 1 /\ Elements(one) = {soa} /\ one # <<>> /\ one[1] = soa
  <2>1. IsSection(one) /\ Len(one) = 1 /\ Elements(one) = {soa}
    BY <1>1, OneRecord
  <2> QED
    BY <2>1
<1> HIDE DEF one
<1>5. /\ IsSection(ns) /\ ns # <<>> /\ ns[1] = soa /\ Len(ns) \in Nat /\ Len(ns) >= 1
      /\ \A rr \in Elements(ns) : rr = soa \/ (rr.type = "DNSKEY" /\ rr.owner = Apex)
      /\ Len(ns) > 1 => ns[2].type = "DNSKEY"
  <2>1. CASE ns = one
    <3>1. /\ IsSection(ns) /\ ns # <<>> /\ ns[1] = soa /\ Len(ns) = 1
          /\ \A rr \in Elements(ns) : rr = soa
      BY <1>4, <2>1
    <3>2. Len(ns) \in Nat /\ Len(ns) >= 1 /\ ~(Len(ns) > 1)
      BY <3>1
    <3> QED
      BY <3>1, <3>2
  <2>2. CASE ns = one \o Keys
    <3>1. /\ IsSection(ns) /\ ns # <<>> /\ ns[1] = soa /\ Len(ns) = Len(one) + Len(Keys)
          /\ Elements(ns) = Elements(one) \cup Elements(Keys)
      BY <1>4, <2>2, KeysSection, JoinedSections, Zenon
    <3>2. Len(Keys) = 2 /\ Keys[1].type = "DNSKEY"
      <4>1. Keys[1] = RR("DNSKEY", Apex, 3600, KeyBytes) /\ Len(Keys) = 2
        BY DEF Keys, Copies
      <4> QED
        BY <4>1, TypeOfRR
    <3>3. ns[2] = Keys[1]
      <4>1. PICK A : one \in Seq(A)
        BY <1>4 DEF IsSection
      <4>2. PICK B : Keys \in Seq(B)
        BY KeysSection DEF IsSection
      <4>3. one \in Seq(A \cup B) /\ Keys \in Seq(A \cup B)
        BY <4>1, <4>2
      <4> DEFINE C == A \cup B
      <4>4. \A x, y \in Seq(C) : Len(x) = 1 /\ Len(y) = 2 => (x \o y)[2] = y[1]
        <5> HIDE DEF C
        <5> SUFFICES ASSUME NEW x \in Seq(C), NEW y \in Seq(C), Len(x) = 1, Len(y) = 2
                     PROVE  (x \o y)[2] = y[1]
          OBVIOUS
        <5>3. \A i \in 1..Len(y) : (x \o y)[Len(x) + i] = y[i]
          BY SecondPart
        <5>1. (x \o y)[Len(x) + 1] = y[1]
          BY <5>3
        <5>2. Len(x) + 1 = 2
          OBVIOUS
        <5> QED
          BY <5>1, <5>2
      <4> HIDE DEF C
      <4>6. one \in Seq(C) /\ Keys \in Seq(C)
        BY <4>3 DEF C
      <4>5. (one \o Keys)[2] = Keys[1]
        BY <1>4, <3>2, <4>6, <4>4, Zenon
      <4> QED
        BY <2>2, <4>5
    <3> QED
      BY <1>4, <3>1, <3>2, <3>3, KeysSection
  <2> QED
    BY <1>3, <2>1, <2>2
<1>6. signed = signSection(ns)
  BY DEF ns
<1>7. /\ IsSection(signed) /\ signed # <<>> /\ signed[1] = soa
      /\ \A x \in Elements(signed) : x \in Elements(ns) \/ \E rr \in Elements(ns) : x = Rrsig(rr)
  BY <1>5, <1>6, SignedSection
<1>8. Rrsig(soa) \in Elements(signed)
  <2>1. 1 \in 1..Len(ns)
    BY <1>5
  <2>2. ~(1 < Len(ns) /\ SameSet(ns[1], ns[1 + 1]))
    BY <1>1, <1>5 DEF SameSet
  <2>3. ~FailNamed(ns[1].owner, "rrsig-missing")
    <3>1. \A a, b : <<a, b>> # Apex
      BY DEF Apex
    <3> QED
      BY <1>1, <1>5, <3>1, Zenon DEF FailNamed
  <2>4. \/ (1 < Len(ns) /\ SameSet(ns[1], ns[1 + 1])) \/ FailNamed(ns[1].owner, "rrsig-missing")
        \/ Rrsig(ns[1]) \in Elements(signSection(ns))
    BY <1>5, <2>1, SignedSection
  <2> QED
    BY <1>5, <1>6, <2>2, <2>3, <2>4
<1>9. \A rr \in Elements(signed) : rr.type # "NSEC" /\ (rr.type = "SOA" => rr.owner = Apex)
  BY <1>1, <1>5, <1>7, TypeOfRR
<1>10. Rrsig(soa).type = "RRSIG" /\ Rrsig(soa).owner = Apex
  BY <1>1, TypeOfRR, Zenon DEF SignedOwner
<1> QED
  BY <1>1, <1>7, <1>8, <1>9, <1>10

\* The NSEC records there are.
LEMMA NsecsAre ==
    ASSUME NEW q, q.labels \in Names, NEW z
    PROVE  LET name == nsecForName(q.labels, q.qtype, isNoData(z))
           IN  /\ \A nsec \in Elements(NsecsOf(q, z)) :
                     \/ nsec \in {NSEC(name[i]) : i \in 1..Len(name)}
                     \/ nsec = NSEC(nsecForWildcard) /\ z.rcode = NXDomain
               /\ \A i \in 1..Len(name) : NSEC(name[i]) \in Elements(NsecsOf(q, z))
               /\ z.rcode = NXDomain => NSEC(nsecForWildcard) \in Elements(NsecsOf(q, z))
<1> DEFINE name == nsecForName(q.labels, q.qtype, isNoData(z))
           wild == IF z.rcode = NXDomain THEN <<nsecForWildcard>> ELSE <<>>
           spans == name \o wild
           around == Span(Prev(q.labels), NextOrSame(q.labels), typesAtName(Prev(q.labels)))
           at == Span(q.labels, WrongNext(q.labels), typesAtName(q.labels) \ {q.qtype})
           S == {around, at, nsecForWildcard}
           star == nsecForWildcard
<1>1. NsecsOf(q, z) = [i \in DOMAIN spans |-> NSEC(spans[i])]
  BY Zenon DEF NsecsOf
<1>2. name = <<>> \/ name = <<at>> \/ name = <<around>>
  BY Zenon DEF nsecForName, SpanAt
<1>3. wild = <<>> \/ wild = <<star>>
  BY Zenon
<1>4. z.rcode = NXDomain => wild = <<star>>
  BY Zenon
<1>5. z.rcode # NXDomain => wild = <<>>
  BY Zenon
<1> HIDE DEF name, wild, around, at, star
<1>6. \A x, y, w : /\ <<>> \in Seq({x, y, w}) /\ <<x>> \in Seq({x, y, w})
                   /\ <<y>> \in Seq({x, y, w}) /\ <<w>> \in Seq({x, y, w})
  OBVIOUS
<1>7. S = {around, at, star}
  BY DEF star
<1> HIDE DEF S
<1>8. name \in Seq(S) /\ wild \in Seq(S)
  <2>1. <<>> \in Seq(S) /\ <<around>> \in Seq(S) /\ <<at>> \in Seq(S) /\ <<star>> \in Seq(S)
    BY <1>6, <1>7, Zenon
  <2> QED
    BY <1>2, <1>3, <2>1, Zenon
<1>9. \A x, y \in Seq(S) :
        /\ DOMAIN (x \o y) = 1..(Len(x) + Len(y)) /\ Len(x) \in Nat /\ Len(y) \in Nat
        /\ \A i \in 1..Len(x) : (x \o y)[i] = x[i]
        /\ \A i \in 1..Len(y) : (x \o y)[Len(x) + i] = y[i]
        /\ \A i \in 1..(Len(x) + Len(y)) : i \in 1..Len(x) \/ \E j \in 1..Len(y) : i = Len(x) + j
  <2> TAKE x, y \in Seq(S)
  <2>1. Len(x) \in Nat /\ Len(y) \in Nat /\ DOMAIN (x \o y) = 1..(Len(x) + Len(y))
    OBVIOUS
  <2>2. \A i \in 1..Len(x) : (x \o y)[i] = x[i]
    OBVIOUS
  <2>3. \A i \in 1..Len(y) : (x \o y)[Len(x) + i] = y[i]
    OBVIOUS
  <2>4. ASSUME NEW i \in 1..(Len(x) + Len(y)), i \notin 1..Len(x)
        PROVE  \E j \in 1..Len(y) : i = Len(x) + j
    <3>1. i - Len(x) \in 1..Len(y) /\ i = Len(x) + (i - Len(x))
      BY <2>1, <2>4
    <3> QED
      BY <3>1, Zenon
  <2> QED
    BY <2>1, <2>2, <2>3, <2>4
<1> DEFINE n == Len(name)
           k == Len(wild)
<1>10. /\ DOMAIN spans = 1..(n + k) /\ n \in Nat /\ k \in Nat
       /\ \A i \in 1..n : spans[i] = name[i]
       /\ \A i \in 1..k : spans[n + i] = wild[i]
       /\ \A i \in 1..(n + k) : i \in 1..n \/ \E j \in 1..k : i = n + j
  BY <1>8, <1>9
<1>11. \A i \in 1..n : i \in 1..(n + k)
  BY <1>10
<1>12. \A j \in 1..k : n + j \in 1..(n + k)
  BY <1>10
<1>13. (z.rcode # NXDomain => k = 0) /\ (z.rcode = NXDomain => k = 1 /\ wild[1] = star)
  <2>1. Len(<<>>) = 0 /\ Len(<<star>>) = 1 /\ <<star>>[1] = star
    OBVIOUS
  <2> QED
    BY <1>4, <1>5, <2>1
<1> HIDE DEF spans, n, k
<1>14. DOMAIN NsecsOf(q, z) = 1..(n + k) /\ \A i \in 1..(n + k) : NsecsOf(q, z)[i] = NSEC(spans[i])
  BY <1>1, <1>10
<1>15. 1..Len(NsecsOf(q, z)) = 1..(n + k)
  BY <1>14, ChainedNames, NsecsSection, Section
<1>16. Elements(NsecsOf(q, z)) = {NSEC(spans[i]) : i \in 1..(n + k)}
  BY <1>14, <1>15, Zenon DEF Elements
<1>17. ASSUME NEW nsec \in Elements(NsecsOf(q, z))
       PROVE  nsec \in {NSEC(name[i]) : i \in 1..n} \/ (nsec = NSEC(star) /\ z.rcode = NXDomain)
  <2>1. PICK i \in 1..(n + k) : nsec = NSEC(spans[i])
    BY <1>16
  <2>2. CASE i \in 1..n
    BY <1>10, <2>1, <2>2
  <2>3. ASSUME NEW j \in 1..k, i = n + j
        PROVE  nsec = NSEC(star) /\ z.rcode = NXDomain
    <3>1. k # 0
      BY <1>10, <2>3
    <3>2. k = 1 /\ wild[1] = star /\ z.rcode = NXDomain
      BY <1>13, <3>1
    <3>3. j = 1
      BY <2>3, <3>2
    <3> QED
      BY <1>10, <2>1, <2>3, <3>2, <3>3
  <2> QED
    BY <1>10, <2>2, <2>3
<1>18. \A i \in 1..n : NSEC(name[i]) \in Elements(NsecsOf(q, z))
  BY <1>10, <1>11, <1>16
<1>19. z.rcode = NXDomain => NSEC(star) \in Elements(NsecsOf(q, z))
  <2> HAVE z.rcode = NXDomain
  <2>1. k = 1 /\ wild[1] = star /\ 1 \in 1..k
    BY <1>13
  <2>2. spans[n + 1] = star /\ n + 1 \in 1..(n + k)
    BY <1>10, <1>12, <2>1
  <2> QED
    BY <1>16, <2>2
<1> QED
  BY <1>17, <1>18, <1>19 DEF name, n, star

\* A signed denial of the zone that is not to be broken: the SOA first, then the NSEC
\* records, and a signature for each that is not of rrsig-wrong-rrset.
LEMMA SignedDenial ==
    ASSUME NEW q, q.labels \in Names, NEW seen \in Nat, HasSigner, wantDNSSEC(q),
           NEW z, z = ZoneReply(q, Reply(q.labels), seen),
           NEW n, n = SignResponse(q, z), IsNegative(n), Unbroken(q),
           q.labels # Unresolvable, ~(q.labels = Apex /\ q.qtype = "DNSKEY")
    PROVE  /\ n.ns # <<>> /\ n.ns[1].type = "SOA"
           /\ NsecsIn(n) = Elements(NsecsOf(q, z))
           /\ SignedIn(n.ns, "SOA")
           /\ (\A nsec \in NsecsIn(n) : nsec.owner # WrongRrset) => SignedIn(n.ns, "NSEC")
           /\ z.rcode = n.rcode /\ (z.rcode = NXDomain \/ (z.rcode = NoError /\ isNoData(z)))
<1> DEFINE keyed == WithKeys(q, z)
           signed == signSection(keyed.ns)
           denial == Denial(q, z)
           nsecs == NsecsOf(q, z)
<1>1. IsMessage(z) /\ z.answer = <<>> /\ z.ns = SoaOnly /\ z.rcode = n.rcode
      /\ z.rcode \in {NoError, NXDomain}
  BY ZoneIsMessage, NegativeZone, Zenon
<1>2. z.rcode = NXDomain \/ (z.rcode = NoError /\ isNoData(z))
  <2>1. z.ns # <<>> /\ z.ns[1].type = "SOA"
    <3> DEFINE soa == SOA(0)
    <3>1. soa.type = "SOA" /\ z.ns = <<soa>>
      BY <1>1, TypeOfRR DEF SOA, SoaOnly
    <3> HIDE DEF soa
    <3> QED
      BY <3>1
  <2> QED
    BY <1>1, <2>1 DEF isNoData
<1>3. /\ IsSection(signed) /\ signed # <<>> /\ signed[1].type = "SOA"
      /\ \A rr \in Elements(signed) : rr.type # "NSEC" /\ (rr.type = "SOA" => rr.owner = Apex)
      /\ \E rr \in Elements(signed) : rr.type = "RRSIG" /\ rr.owner = Apex
  BY <1>1, SignedSoa
<1>4. n.ns = signed \o denial
  <2>1. IsMessage(z)
    BY <1>1
  <2> HIDE DEF keyed, signed, denial, nsecs
  <2> QED
    BY <2>1, SignedIs, Zenon DEF keyed, signed, denial
<1>5. /\ IsSection(denial)
      /\ \A rr \in Elements(denial) : rr.type # "SOA" /\ (rr.type = "NSEC" => rr \in Elements(nsecs))
      /\ \A nsec \in Elements(nsecs) : nsec \in Elements(denial) /\ Rrsig(nsec) \in Elements(denial)
  BY <1>2, ChainedNames, DenialSection, DenialHasNoSoa, DenialNsecs, DenialHasAll
<1>6. \A nsec \in Elements(nsecs) : nsec.type = "NSEC"
  <2> SUFFICES ASSUME NEW nsec \in Elements(NsecsOf(q, z))
               PROVE  nsec.type = "NSEC"
    OBVIOUS
  <2>1. \E span : nsec = NSEC(span)
    BY NsecsAre
  <2> QED
    BY <2>1 DEF NSEC
<1> HIDE DEF keyed, signed, denial, nsecs
<1>7. /\ IsSection(n.ns) /\ n.ns # <<>> /\ n.ns[1] = signed[1]
      /\ Elements(n.ns) = Elements(signed) \cup Elements(denial)
  <2> DEFINE c == signed \o denial
  <2>1. IsSection(c) /\ c # <<>> /\ c[1] = signed[1] /\ Elements(c) = Elements(signed) \cup Elements(denial)
    BY <1>3, <1>5, JoinedSections, Zenon
  <2>2. n.ns = c
    BY <1>4
  <2> HIDE DEF c
  <2> QED
    BY <2>1, <2>2
<1>8. DOMAIN n.ns = 1..Len(n.ns)
  BY <1>7, Section
<1>9. /\ \A i \in DOMAIN n.ns : n.ns[i] \in Elements(n.ns)
      /\ \A rr \in Elements(n.ns) : \E i \in DOMAIN n.ns : rr = n.ns[i]
  BY <1>8 DEF Elements
<1>10. NsecsIn(n) = Elements(nsecs)
  <2>1. \A rr \in Elements(n.ns) : rr.type = "NSEC" <=> rr \in Elements(nsecs)
    BY <1>3, <1>5, <1>6, <1>7
  <2>2. Elements(nsecs) \subseteq Elements(n.ns)
    BY <1>5, <1>7
  <2> QED
    BY <1>9, <2>1, <2>2 DEF NsecsIn
<1>11. SignedIn(n.ns, "SOA")
  <2>1. \A i \in DOMAIN n.ns : n.ns[i].type = "SOA" => n.ns[i].owner = Apex
    BY <1>3, <1>5, <1>7, <1>9
  <2>2. \E rr \in Elements(n.ns) : rr.type = "RRSIG" /\ rr.owner = Apex
    BY <1>3, <1>7
  <2> QED
    BY <1>9, <2>1, <2>2 DEF SignedIn
<1>12. ASSUME \A nsec \in NsecsIn(n) : nsec.owner # WrongRrset
       PROVE  SignedIn(n.ns, "NSEC")
  <2>0. \A i \in DOMAIN n.ns : n.ns[i].type = "NSEC" => SignedOwner(n.ns[i]) = n.ns[i].owner
    <3>1. \A rr : rr.owner # WrongRrset => SignedOwner(rr) = rr.owner
      BY Zenon DEF SignedOwner, FailNamed, WrongRrset
    <3>2. \A i \in DOMAIN n.ns : n.ns[i].type = "NSEC" => n.ns[i] \in NsecsIn(n)
      BY Zenon DEF NsecsIn
    <3> QED
      BY <1>12, <3>1, <3>2
  <2>1. \A i \in DOMAIN n.ns : n.ns[i].type = "NSEC" => Rrsig(n.ns[i]) \in Elements(n.ns)
    BY <1>3, <1>5, <1>7, <1>9
  <2> QED
    BY <1>9, <2>0, <2>1, TypeOfRR DEF SignedIn
<1> QED
  BY <1>1, <1>2, <1>3, <1>7, <1>10, <1>11, <1>12 DEF nsecs

\* Outside dnssec-failed, none of them is of rrsig-wrong-rrset.
LEMMA NsecOwners ==
    ASSUME NEW q, q.labels \in Names, ~IsIn(q.labels, "dnssec-failed"), NEW z,
           NEW nsec \in Elements(NsecsOf(q, z))
    PROVE  nsec.owner # WrongRrset
<1> DEFINE name == nsecForName(q.labels, q.qtype, isNoData(z))
           around == Span(Prev(q.labels), NextOrSame(q.labels), typesAtName(Prev(q.labels)))
           at == Span(q.labels, WrongNext(q.labels), typesAtName(q.labels) \ {q.qtype})
           star == nsecForWildcard
<1>1. \A span : NSEC(span).owner = span.owner
  BY DEF NSEC
<1>2. /\ around.owner = Prev(q.labels) /\ at.owner = q.labels
      /\ star.owner = <<Plain("!")>>
  BY DEF Span, nsecForWildcard
<1>3. name = <<>> \/ name = <<at>> \/ (name = <<around>> /\ ~IsListed(q.labels))
  BY Zenon DEF nsecForName, SpanAt
<1>4. \A a : <<a>> # WrongRrset
  BY DEF WrongRrset
<1>5. q.labels # WrongRrset
  <2> DEFINE a == Plain("rrsig-wrong-rrset")
             b == Plain("dnssec-failed")
  <2>1. WrongRrset = <<a, b>>
    BY DEF WrongRrset
  <2> HIDE DEF a, b
  <2>2. WrongRrset # <<>> /\ Last(WrongRrset) = b
    BY <2>1 DEF Last
  <2> QED
    BY <2>2 DEF IsIn, b
<1>6. ~IsListed(q.labels) => Prev(q.labels) # WrongRrset
  BY AfterWrongRrset
<1> HIDE DEF around, at
<1>7. \A i \in 1..Len(name) : name[i] = at \/ (name[i] = around /\ ~IsListed(q.labels))
  <2> HIDE DEF name
  <2> QED
    BY <1>3
<1> HIDE DEF name, star
<1>8. (\E i \in 1..Len(name) : nsec = NSEC(name[i])) \/ nsec = NSEC(star)
  BY NsecsAre DEF name, star
<1> QED
  BY <1>1, <1>2, <1>4, <1>5, <1>6, <1>7, <1>8

\* There is an NSEC record, if the signer believes the name to have another type.
LEMMA ThereAreNsecs ==
    ASSUME NEW q, q.labels \in Names, NEW z, z.rcode = NXDomain \/ isNoData(z),
           typesAtName(q.labels) # {q.qtype}
    PROVE  Elements(NsecsOf(q, z)) # {}
<1>1. CASE z.rcode = NXDomain
  BY <1>1, NsecsAre
<1>2. CASE isNoData(z)
  <2> DEFINE types == typesAtName(q.labels) \ {q.qtype}
             name == nsecForName(q.labels, q.qtype, isNoData(z))
             span == Span(q.labels, WrongNext(q.labels), types)
  <2>1. types # {}
    <3>1. typesAtName(q.labels) # {}
      BY DEF typesAtName
    <3> QED
      BY <3>1
  <2>2. name = <<span>>
    BY <1>2, <2>1, Zenon DEF nsecForName, SpanAt
  <2> HIDE DEF span
  <2>3. 1 \in 1..Len(name)
    BY <2>2
  <2> QED
    BY <2>3, NsecsAre
<1> QED
  BY <1>1, <1>2

\* What the NSEC records of an NXDOMAIN say.
LEMMA NameIsDenied ==
    ASSUME NEW q, q.labels \in Names, NEW z, z.rcode = NXDomain, ~isNoData(z)
    PROVE  LET nsecs == Elements(NsecsOf(q, z))
           IN  /\ IsListed(q.labels) \/ \E n \in nsecs : Covers(n, q.labels)
               /\ IsEmptyNonTerminal(q.labels) \/
                     \A n \in nsecs : Covers(n, q.labels) => ~IsBelow(n.next, q.labels)
               /\ \E n \in nsecs : Covers(n, WildcardOf(Apex))
<1> DEFINE nsecs == Elements(NsecsOf(q, z))
           types == typesAtName(Prev(q.labels))
           around == Span(Prev(q.labels), NextOrSame(q.labels), types)
           name == nsecForName(q.labels, q.qtype, isNoData(z))
<1>1. \A span : NSEC(span).owner = span.owner /\ NSEC(span).next = span.next
  BY DEF NSEC
<1>2. \A span, l : Covers(NSEC(span), l) <=> Covers(span, l)
  BY <1>1 DEF Covers
<1>3. around.owner = Prev(q.labels) /\ around.next = NextOrSame(q.labels)
  BY DEF Span
<1>4. WildcardOf(Apex) = Wildcard
  BY WildcardDenies DEF WildcardOf, Apex, Names
<1>5. NSEC(nsecForWildcard) \in nsecs
  BY NsecsAre
<1>6. CASE IsListed(q.labels)
  <2>1. \A n \in nsecs : ~Covers(n, q.labels)
    <3> SUFFICES ASSUME NEW n \in Elements(NsecsOf(q, z))
                 PROVE  ~Covers(n, q.labels)
      OBVIOUS
    <3>1. PICK i \in 1..Len(NsecsOf(q, z)) : n = NsecsOf(q, z)[i]
      BY DEF Elements
    <3>2. i \in DOMAIN NsecsOf(q, z)
      BY NsecsSection, Section
    <3> QED
      BY <1>6, <3>1, <3>2, NsecsDeny DEF DeniesListed, IsListed
  <2> HIDE DEF nsecs
  <2>2. \E n \in nsecs : Covers(n, WildcardOf(Apex))
    BY <1>2, <1>4, <1>5, WildcardDenies
  <2> QED
    BY <1>6, <2>1, <2>2 DEF nsecs
<1>7. CASE ~IsListed(q.labels)
  <2>1. name = <<around>>
    BY <1>7, Zenon DEF nsecForName
  <2>2. \A n \in nsecs : n = NSEC(around) \/ n = NSEC(nsecForWildcard)
    <3>1. \A n \in nsecs : n \in {NSEC(name[i]) : i \in 1..Len(name)} \/ n = NSEC(nsecForWildcard)
      BY NsecsAre
    <3> HIDE DEF around, nsecs
    <3>2. Len(name) = 1 /\ name[1] = around
      BY <2>1
    <3> HIDE DEF name
    <3> QED
      BY <3>1, <3>2
  <2>3. NSEC(around) \in nsecs
    <3>1. \A i \in 1..Len(name) : NSEC(name[i]) \in nsecs
      BY NsecsAre
    <3> HIDE DEF around, nsecs
    <3>2. Len(name) = 1 /\ name[1] = around
      BY <2>1
    <3> HIDE DEF name
    <3> QED
      BY <3>1, <3>2
  <2>4. Covers(around, q.labels) /\ around.next \in ListedNames
    BY <1>3, <1>7, AroundDenies DEF Covers
  <2> HIDE DEF around, nsecs, name
  <2>5. \A n \in nsecs : n.next \in ListedNames
    BY <1>1, <2>2, <2>4, WildcardDenies
  <2>6. \E n \in nsecs : Covers(n, q.labels)
    BY <1>2, <2>3, <2>4
  <2>7. \E n \in nsecs : Covers(n, WildcardOf(Apex))
    BY <1>2, <1>4, <1>5, WildcardDenies
  <2>8. IsEmptyNonTerminal(q.labels) \/ \A n \in nsecs : ~IsBelow(n.next, q.labels)
    BY <1>7, <2>5 DEF IsEmptyNonTerminal
  <2> QED
    BY <2>6, <2>7, <2>8 DEF nsecs
<1> QED
  BY <1>6, <1>7

LEMMA UnsignedIs == \A q, z : ~(HasSigner /\ wantDNSSEC(q)) => SignResponse(q, z) = z
  BY Zenon DEF SignResponse

\* What a reply of the zone has to have, and what it says.
LEMMA ZoneProves ==
    ASSUME NEW q, q.labels \in Names, NEW seen \in Nat,
           NEW n, n = SignResponse(q, ZoneReply(q, Reply(q.labels), seen)), IsNegative(n)
    PROVE  /\ ToBeProven(q) /\ q.zone = "in" => HasProof(q, n)
           /\ HasSigner /\ wantDNSSEC(q) /\ n.rcode = NXDomain =>
                /\ IsListed(q.labels) \/ \E nsec \in NsecsIn(n) : Covers(nsec, q.labels)
                /\ IsEmptyNonTerminal(q.labels) \/
                      \A nsec \in NsecsIn(n) : Covers(nsec, q.labels) => ~IsBelow(nsec.next, q.labels)
                /\ \E nsec \in NsecsIn(n) : Covers(nsec, WildcardOf(Apex))
<1> DEFINE z == ZoneReply(q, Reply(q.labels), seen)
<1>1. n = SignResponse(q, z) /\ n.rcode = z.rcode
  BY ZoneIsMessage
<1>2. z = ZoneReply(q, Reply(q.labels), seen)
  OBVIOUS
<1> HIDE DEF z
<1>3. ASSUME ToBeProven(q), q.zone = "in"
      PROVE  HasProof(q, n)
  <2>1. ~(q.labels = Apex /\ q.qtype = "DNSKEY")
    BY <1>3 DEF ToBeProven, IsApexDnskey, Apex
  <2>2. q.labels # Unresolvable
    <3> DEFINE a == Plain("unresolvable")
               b == Plain("ns-test")
    <3>1. Unresolvable = <<a, b>>
      BY DEF Unresolvable
    <3> HIDE DEF a
    <3>2. Unresolvable # <<>> /\ Last(Unresolvable) = b
      <4> HIDE DEF b
      <4> QED
        BY <3>1 DEF Last
    <3>3. IsIn(Unresolvable, "ns-test")
      BY <3>2 DEF IsIn
    <3> QED
      BY <1>3, <3>3 DEF ToBeProven
  <2>3. CASE HasSigner /\ wantDNSSEC(q)
    <3>1. Unbroken(q)
      <4>1. ASSUME NEW kind, FailNamed(q.labels, kind)
            PROVE  IsIn(q.labels, "dnssec-failed")
        <5> DEFINE a == Plain(kind)
                   b == Plain("dnssec-failed")
        <5>1. q.labels = <<a, b>>
          BY <4>1 DEF FailNamed
        <5> HIDE DEF a
        <5>2. q.labels # <<>> /\ Last(q.labels) = b
          <6> HIDE DEF b
          <6> QED
            BY <5>1 DEF Last
        <5> QED
          BY <5>2 DEF IsIn
      <4> QED
        BY <1>3, <4>1 DEF ToBeProven, Unbroken
    <3>2. /\ n.ns # <<>> /\ n.ns[1].type = "SOA" /\ NsecsIn(n) = Elements(NsecsOf(q, z))
          /\ SignedIn(n.ns, "SOA")
          /\ (\A nsec \in NsecsIn(n) : nsec.owner # WrongRrset) => SignedIn(n.ns, "NSEC")
          /\ (z.rcode = NXDomain \/ isNoData(z))
      BY <1>1, <1>2, <2>1, <2>2, <2>3, <3>1, SignedDenial
    <3>5. SignedIn(n.ns, "NSEC")
      <4>1. ~IsIn(q.labels, "dnssec-failed")
        BY <1>3 DEF ToBeProven
      <4> QED
        BY <3>2, <4>1, NsecOwners
    <3>3. typesAtName(q.labels) # {q.qtype}
      BY <1>3 DEF ToBeProven
    <3>4. NsecsIn(n) # {}
      BY <3>2, <3>3, ThereAreNsecs, Zenon
    <3> QED
      BY <3>2, <3>4, <3>5 DEF HasProof
  <2>4. CASE ~(HasSigner /\ wantDNSSEC(q))
    <3>1. n = z
      BY <1>1, <2>4, UnsignedIs
    <3>2. n.ns = SoaOnly
      BY <1>1, <1>2, <2>1, <2>2, <3>1, NegativeZone
    <3> DEFINE soa == SOA(0)
    <3>3. soa.type = "SOA" /\ n.ns = <<soa>>
      BY <3>2, TypeOfRR DEF SOA, SoaOnly
    <3> HIDE DEF soa
    <3>4. n.ns # <<>> /\ n.ns[1].type = "SOA"
      BY <3>3
    <3> QED
      BY <2>4, <3>4 DEF HasProof
  <2> QED
    BY <2>3, <2>4
<1>4. ASSUME HasSigner, wantDNSSEC(q), n.rcode = NXDomain
      PROVE  /\ NsecsIn(n) = Elements(NsecsOf(q, z))
             /\ z.rcode = NXDomain /\ ~isNoData(z)
  <2>1. z.rcode = NXDomain /\ z.rcode # NoError /\ ~isNoData(z)
    BY <1>1, <1>4 DEF isNoData, NoError, NXDomain
  <2>2. q.labels # Unresolvable
    <3> SUFFICES ASSUME q.labels = Unresolvable
                 PROVE  FALSE
      OBVIOUS
    <3> DEFINE m == Reply(q.labels)
               both == Copies(RR("NS", m.qname, 60, NameBytes(m.qname) + LabelBytes), 2)
    <3>1. z = [m EXCEPT !.ns = both]
      BY <1>2, ReferralIs, Zenon DEF referral
    <3>2. Fresh(q, m) /\ m.rcode = NoError
      BY ChainedNames, BlankReply DEF Blank
    <3> HIDE DEF both, m
    <3>3. z.rcode = NoError
      BY <3>1, <3>2 DEF Fresh, IsMessage, MsgFields
    <3> QED
      BY <2>1, <3>3
  <2>3. ~(q.labels = Apex /\ q.qtype = "DNSKEY")
    <3>1. Len(q.labels) \in Nat
      BY ChainedNames
    <3> QED
      BY <1>2, <2>1, <3>1, ApexKeysAre, BlankReply, Zenon DEF Blank
  <2>4. Unbroken(q)
    <3>1. \A kind \in BadDenials : ~FailNamed(q.labels, kind)
      BY <1>2, <2>1, ChainedNames, BlankReply, DenialTest
    <3> QED
      BY <3>1 DEF Unbroken, BadDenials
  <2> QED
    BY <1>1, <1>2, <1>4, <2>1, <2>2, <2>3, <2>4, SignedDenial
<1> QED
  BY <1>3, <1>4, NameIsDenied

\* A negative answer of the zone has its proof, and the proof of an NXDOMAIN says what
\* it has to.
THEOREM DenialsAreProven == Spec => []DenialProven
<1>1. ReplyInv => DenialProven
  <2> SUFFICES ASSUME ReplyInv, NEW h \in Handlers
               PROVE  LET q == query[h] m == handled[h] IN
                        /\ m # NoMsg /\ ReachesZone(q) /\ IsNegative(m) /\ ToBeProven(q) => HasProof(q, m)
                        /\ IsSignedDenial(h) /\ m.rcode = NXDomain =>
                            /\ IsListed(q.labels) \/ \E n \in NsecsIn(m) : Covers(n, q.labels)
                            /\ IsEmptyNonTerminal(q.labels) \/
                                  \A n \in NsecsIn(m) : Covers(n, q.labels) => ~IsBelow(n.next, q.labels)
                            /\ ClosestEncloser(q.labels) # Apex \/
                                  \E n \in NsecsIn(m) : Covers(n, WildcardOf(Apex))
    BY DEF DenialProven
  <2> DEFINE q == query[h]
             m == handled[h]
  <2>1. IsOnItsWay(pc[h], Queries[h], q, reply[h], m, sent[h])
    BY DEF ReplyInv
  <2>2. m = NoMsg \/ (IsQuery(q) /\ IsHandled(q, m))
    BY <2>1 DEF IsOnItsWay
  <2>4. IsSignedDenial(h) =>
          IsQuery(q) /\ IsHandled(q, m) /\ ReachesZone(q) /\ HasSigner /\ wantDNSSEC(q) /\ IsNegative(m)
    BY <2>1 DEF IsSignedDenial, IsOnItsWay
  <2> HIDE DEF q, m
  <2>5. ASSUME IsQuery(q), IsHandled(q, m), ReachesZone(q), IsNegative(m)
        PROVE  /\ ToBeProven(q) => HasProof(q, m)
               /\ HasSigner /\ wantDNSSEC(q) /\ m.rcode = NXDomain =>
                    /\ IsListed(q.labels) \/ \E nsec \in NsecsIn(m) : Covers(nsec, q.labels)
                    /\ IsEmptyNonTerminal(q.labels) \/
                          \A nsec \in NsecsIn(m) : Covers(nsec, q.labels) => ~IsBelow(nsec.next, q.labels)
                    /\ \E nsec \in NsecsIn(m) : Covers(nsec, WildcardOf(Apex))
    <3>1. PICK seen \in Nat : m = Handle(q, seen)
      BY <2>5, Zenon DEF IsHandled
    <3>2. m = SignResponse(q, ZoneReply(q, Reply(q.labels), seen))
      BY <2>5, <3>1, HandleZone
    <3>3. q.labels \in Names /\ q.zone = "in"
      BY <2>5 DEF IsQuery, Names, ReachesZone
    <3> QED
      BY <2>5, <3>2, <3>3, ZoneProves
  <2>6. m # NoMsg /\ ReachesZone(q) /\ IsNegative(m) /\ ToBeProven(q) => HasProof(q, m)
    BY <2>2, <2>5
  <2> QED
    BY <2>4, <2>5, <2>6 DEF q, m
<1> QED
  BY <1>1, ReplyInvariant, PTL

-----------------------------------------------------------------------------
(***************************************************************************)
(* The types of a NODATA proof, held against what the handler answers.     *)
(***************************************************************************)
\* A name whose types are those of its first label has them.
ToldByFirst(labels) ==
    labels # Apex /\ labels[1].kind \in {"delay", "ttl", "timestamp", "size"} =>
        Parsed(labels).gadget = labels[1] /\ labels \notin Nameservers

\* The handler answers no type at a name that the signer does not list there.
LEMMA AnswersAreListed ==
    ASSUME NEW q, q.labels \in Names, NEW m, Blank(q, m), NEW seen \in Nat,
           q.labels # Unresolvable, q.qtype # "DNSKEY", ToldByFirst(q.labels),
           ZoneReply(q, m, seen).answer # <<>>
    PROVE  q.qtype \in typesAtName(q.labels)
<1> DEFINE z == ZoneReply(q, m, seen)
           labels == q.labels
           short == labels # Apex /\ labels[1].kind \in {"delay", "ttl", "timestamp", "size"}
           test == labels # Apex /\ \E kind \in BadDenials : FailNamed(labels, kind)
           T == typesAtName(labels)
<1>1. /\ labels = Apex => T = {"A", "NS", "SOA", "AAAA", "RRSIG", "NSEC", "DNSKEY", "CDS"}
      /\ short \/ test => T = {"TXT"}
      /\ labels # Apex /\ ~short /\ ~test => T = {"A", "AAAA", "TXT"}
  BY DEF typesAtName
<1>2. \A S : Settled(q, z, S) => q.qtype \in S
  BY DEF Settled
<1>3. \A S : Offers(labels, S) => Settled(q, z, S)
  BY SettledZone DEF Names
<1> HIDE DEF z, T
<1>4. CASE labels = Apex
  <2> DEFINE S == AllTypes \ {"TXT"}
  <2>1. Offers(labels, S)
    BY <1>4 DEF Offers
  <2>2. q.qtype \in S
    BY <1>2, <1>3, <2>1
  <2>3. S \subseteq T
    BY <1>1, <1>4 DEF AllTypes
  <2> QED
    BY <2>2, <2>3 DEF T
<1>5. CASE short
  <2> DEFINE S == {"TXT"}
  <2>1. TextOnly(labels)
    BY <1>5 DEF ToldByFirst, TextOnly, TxtGadgets
  <2>2. Offers(labels, S)
    BY <1>5, <2>1 DEF Offers
  <2>3. q.qtype \in S
    BY <1>2, <1>3, <2>2
  <2> QED
    BY <1>1, <1>5, <2>3 DEF T
<1>6. CASE test
  <2>1. PICK kind \in BadDenials : FailNamed(labels, kind)
    BY <1>6
  <2>2. Settled(q, z, T)
    BY <2>1, DenialTest DEF z
  <2> QED
    BY <1>2, <2>2 DEF T
<1>7. CASE labels # Apex /\ ~short /\ ~test
  <2> DEFINE S == {"A", "AAAA", "TXT"}
  <2>1. Offers(labels, S)
    BY <1>7 DEF Offers
  <2>2. q.qtype \in S
    BY <1>2, <1>3, <2>1
  <2> QED
    BY <1>1, <1>7, <2>2 DEF T
<1> QED
  BY <1>4, <1>5, <1>6, <1>7

\* A delegated name has nothing to list.
LEMMA ReferralNeedsNone ==
    ASSUME NEW q, IsQuery(q), q.labels = Unresolvable
    PROVE  AnsweredTypes(q) = {}
<1> SUFFICES ASSUME NEW t \in {"A", "AAAA", "TXT", "SOA", "NS", "CDS"} \ {q.qtype},
                    ZoneReply([q EXCEPT !.qtype = t], Reply(q.labels), 1).answer # <<>>
             PROVE  FALSE
  BY Zenon DEF AnsweredTypes
<1> DEFINE p == [q EXCEPT !.qtype = t]
           m == Reply(p.labels)
           both == Copies(RR("NS", m.qname, 60, NameBytes(m.qname) + LabelBytes), 2)
           z == ZoneReply(p, m, 1)
<1>1. p.labels = q.labels
  BY DEF IsQuery
<1>2. z.answer # <<>>
  BY <1>1
<1>3. z = [m EXCEPT !.ns = both]
  <2> HIDE DEF p
  <2> QED
    BY <1>1, ReferralIs, Zenon DEF referral
<1>4. Fresh(p, m) /\ m.answer = <<>>
  <2>1. Len(p.labels) \in Nat
    BY <1>1, NameFits
  <2> QED
    BY <2>1, BlankReply, Zenon DEF Blank
<1> HIDE DEF both, m, z
<1> QED
  BY <1>2, <1>3, <1>4 DEF Fresh, IsMessage, MsgFields

\* So the types the handler would answer are listed.
LEMMA AnsweredAreListed ==
    ASSUME NEW q, IsQuery(q), ToldByFirst(q.labels), q.labels # Unresolvable
    PROVE  AnsweredTypes(q) \subseteq typesAtName(q.labels) \ {q.qtype}
<1> SUFFICES ASSUME NEW t \in {"A", "AAAA", "TXT", "SOA", "NS", "CDS"} \ {q.qtype},
                    ZoneReply([q EXCEPT !.qtype = t], Reply(q.labels), 1).answer # <<>>
             PROVE  t \in typesAtName(q.labels)
  BY DEF AnsweredTypes
<1> DEFINE p == [q EXCEPT !.qtype = t]
<1>1. p.labels = q.labels /\ p.qtype = t
  BY DEF IsQuery
<1>2. t # "DNSKEY"
  OBVIOUS
<1> HIDE DEF p
<1>3. Blank(p, Reply(p.labels))
  BY <1>1, NameFits, BlankReply
<1>4. p.labels # Unresolvable
  BY <1>1
<1>5. p.labels \in Names
  BY <1>1 DEF IsQuery, Names
<1>6. ZoneReply(p, Reply(p.labels), 1).answer # <<>>
  BY <1>1 DEF p
<1> QED
  BY <1>1, <1>2, <1>3, <1>4, <1>5, <1>6, AnswersAreListed

\* The records of a NODATA proof have the types the signer lists.
LEMMA NodataTypes ==
    ASSUME NEW q, q.labels \in Names, NEW seen \in Nat, HasSigner, wantDNSSEC(q),
           NEW z, z = ZoneReply(q, Reply(q.labels), seen),
           NEW n, n = SignResponse(q, z), IsNegative(n), n.rcode = NoError,
           q.labels # Unresolvable, NEW nsec \in NsecsIn(n)
    PROVE  nsec.types = typesAtName(q.labels) \ {q.qtype}
<1> DEFINE types == typesAtName(q.labels) \ {q.qtype}
           span == Span(q.labels, WrongNext(q.labels), types)
           none == <<>>
           one == <<span>>
           name == nsecForName(q.labels, q.qtype, isNoData(z))
<1>1. ~(q.labels = Apex /\ q.qtype = "DNSKEY")
  BY ApexKeysAnswered
<1>2. IsMessage(z) /\ z.answer = <<>> /\ z.ns = SoaOnly /\ z.rcode = n.rcode
  BY <1>1, ZoneIsMessage, NegativeZone
<1>3. isNoData(z) /\ NoNsec(z.ns)
  <2> DEFINE soa == SOA(0)
  <2>1. IsRecord(soa) /\ soa.type = "SOA" /\ z.ns = <<soa>>
    BY <1>2, SOAIsRecord, TypeOfRR DEF SOA, SoaOnly
  <2> HIDE DEF soa
  <2>2. z.ns # <<>> /\ z.ns[1].type = "SOA"
    BY <2>1
  <2>3. Elements(z.ns) = {soa}
    BY <2>1, OneRecord
  <2> QED
    BY <1>2, <2>1, <2>2, <2>3 DEF isNoData, NoNsec
<1>4. nsec \in Elements(NsecsOf(q, z))
  BY <1>2, <1>3, SignedNsecs
<1>5. nsec \in {NSEC(name[i]) : i \in 1..Len(name)}
  <2>1. z.rcode # NXDomain
    BY <1>2 DEF NoError, NXDomain
  <2> QED
    BY <1>4, <2>1, NsecsAre
<1>6. name = none \/ name = one
  BY <1>3, Zenon DEF nsecForName, SpanAt
<1>7. span.types = types
  BY DEF Span
<1> HIDE DEF name, span, types
<1>8. \A i \in 1..Len(name) : name[i] = span
  <2>1. Len(none) = 0 /\ Len(one) = 1 /\ one[1] = span
    OBVIOUS
  <2>2. \A i \in 1..Len(none) : FALSE
    BY <2>1
  <2>3. \A i \in 1..Len(one) : i = 1
    BY <2>1
  <2> HIDE DEF none, one
  <2> QED
    BY <1>6, <2>1, <2>2, <2>3
<1>9. nsec = NSEC(span)
  BY <1>5, <1>8
<1>10. NSEC(span).types = span.types
  BY DEF NSEC
<1> QED
  BY <1>7, <1>9, <1>10 DEF types

\* The types of a NODATA proof include those the handler answers.
THEOREM BitmapsAdmitAnswers == Spec => []BitmapAdmitsAnswers
<1>1. ReplyInv => BitmapAdmitsAnswers
  <2> SUFFICES ASSUME ReplyInv, NEW h \in Handlers, IsSignedDenial(h), handled[h].rcode = NoError,
                      ToldByFirst(query[h].labels), NEW n \in NsecsIn(handled[h])
               PROVE  AnsweredTypes(query[h]) \subseteq n.types
    BY DEF BitmapAdmitsAnswers, ToldByFirst
  <2> DEFINE q == query[h]
             m == handled[h]
  <2>1. IsOnItsWay("done", Queries[h], q, reply[h], m, sent[h])
    BY DEF ReplyInv, IsSignedDenial
  <2>2. IsQuery(q) /\ IsHandled(q, m)
    BY <2>1 DEF IsOnItsWay
  <2>3. PICK seen \in Nat : m = Handle(q, seen)
    BY <2>2, Zenon DEF IsHandled
  <2>4. /\ m = SignResponse(q, ZoneReply(q, Reply(q.labels), seen))
        /\ q.labels \in Names /\ HasSigner /\ wantDNSSEC(q) /\ IsNegative(m)
    BY <2>2, <2>3, HandleZone DEF IsSignedDenial, IsQuery, Names
  <2>5. m.rcode = NoError /\ ToldByFirst(q.labels) /\ n \in NsecsIn(m)
    OBVIOUS
  <2> SUFFICES AnsweredTypes(q) \subseteq n.types
    OBVIOUS
  <2> HIDE DEF q, m
  <2>6. CASE q.labels = Unresolvable
    BY <2>2, <2>6, ReferralNeedsNone
  <2>7. CASE q.labels # Unresolvable
    <3>1. n.types = typesAtName(q.labels) \ {q.qtype}
      BY <2>4, <2>5, <2>7, NodataTypes
    <3> QED
      BY <2>2, <2>5, <2>7, <3>1, AnsweredAreListed
  <2> QED
    BY <2>6, <2>7
<1> QED
  BY <1>1, ReplyInvariant, PTL
=============================================================================
