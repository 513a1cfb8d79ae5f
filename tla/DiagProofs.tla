----------------------------- MODULE DiagProofs -----------------------------
(***************************************************************************)
(* Proofs about DiagStore and DiagService, for every number of tokens,     *)
(* clients, handlers and connections and every cap, buffer, retention,     *)
(* resolution and session time: the store and its feed, the refinement of  *)
(* RetainedLog, the adapter's sessions, and the page that follows the feed.*)
(***************************************************************************)
EXTENDS DiagService, FiniteSetTheorems, SequenceTheorems,
        WellFoundedInduction, TLAPS

-----------------------------------------------------------------------------
(***************************************************************************)
(* Facts about the operators of the model.                                 *)
(***************************************************************************)
\* A finite set of things that have a number has a first one: the sets of
\* predecessors of its members have a minimal one for strict inclusion.
LEMMA FiniteHasFirst ==
    ASSUME NEW T, IsFiniteSet(T), T # {}, NEW num \in [T -> Int]
    PROVE  \E x \in T : \A y \in T : num[x] <= num[y]
<1> DEFINE Before(x) == {y \in T : num[y] < num[x]}
           F == {Before(x) : x \in T}
<1>1. F \subseteq SUBSET T /\ F # {}
  <2>1. \A x \in T : Before(x) \in SUBSET T
    OBVIOUS
  <2> HIDE DEF Before
  <2> QED
    BY <2>1
<1>2. \E B \in F : \A C \in F : ~(<<C, B>> \in StrictSubsetOrdering(T))
  <2> HIDE DEF F
  <2>1. IsWellFoundedOn(StrictSubsetOrdering(T), SUBSET T)
    BY FS_StrictSubsetOrderingWellFounded, FS_FiniteSubsetsOfFinite
  <2> QED
    BY <2>1, <1>1, WFMin
<1>3. PICK x \in T : \A C \in F : ~(<<C, Before(x)>> \in StrictSubsetOrdering(T))
  BY <1>2
<1>4. ASSUME NEW y \in T, num[y] < num[x]
      PROVE  FALSE
  <2>1. Before(y) \subseteq Before(x) /\ Before(y) # Before(x)
    BY <1>4
  <2>2. <<Before(y), Before(x)>> \in StrictSubsetOrdering(T)
    BY <2>1 DEF StrictSubsetOrdering
  <2> QED
    BY <1>3, <2>2
<1> QED
  BY <1>3, <1>4

\* What is evicted is a member, so the cap leaves room for one more record.
LEMMA EvictedLeavesRoom ==
    ASSUME NEW S, IsFiniteSet(S), Cardinality(S) <= MaxPerToken,
           \A r \in S : r.id \in Int
    PROVE  /\ Evicted(S) \subseteq S
           /\ IsFiniteSet(Evicted(S))
           /\ Cardinality(Evicted(S)) < MaxPerToken
<1>1. Cardinality(S) \in Nat /\ MaxPerToken \in Nat \ {0}
  BY FS_CardinalityType, DiagAssumption
<1>2. CASE Cardinality(S) >= MaxPerToken
  <2>1. S # {}
    BY <1>1, <1>2, FS_EmptySet
  <2>2. Oldest(S) \in S
    <3> DEFINE num == [r \in S |-> r.id]
    <3>1. \E x \in S : \A y \in S : num[x] <= num[y]
      <4>1. num \in [S -> Int]
        OBVIOUS
      <4> HIDE DEF num
      <4> QED
        BY <2>1, <4>1, FiniteHasFirst
    <3> QED
      BY <3>1 DEF Oldest
  <2>3. IsFiniteSet(S \ {Oldest(S)}) /\ Cardinality(S \ {Oldest(S)}) = Cardinality(S) - 1
    BY <2>2, FS_RemoveElement
  <2> QED
    BY <1>1, <1>2, <2>3 DEF Evicted
<1>3. CASE ~(Cardinality(S) >= MaxPerToken)
  BY <1>1, <1>3 DEF Evicted
<1> QED
  BY <1>2, <1>3

\* Division leaves a remainder, and a multiple of s below a * s is a whole s
\* below it: what rounding down to the second rests on.
LEMMA Remainder ==
    ASSUME NEW t \in Nat, NEW s \in Nat \ {0}
    PROVE  /\ t = s * (t \div s) + (t % s)
           /\ t \div s \in Nat
           /\ t % s \in 0..(s - 1)
OBVIOUS

LEMMA MultiplesApart ==
    ASSUME NEW a \in Nat, NEW b \in Nat, NEW s \in Nat \ {0}, b < a
    PROVE  s * b + s <= s * a
<1>1. PICK k \in Nat : a = b + 1 + k
  BY SMT
<1>2. s * a = s * b + s + s * k
  BY <1>1, SMT
<1>3. s * k >= 0
  BY SMT
<1>4. s * a \in Int /\ s * b \in Int /\ s * k \in Int
  OBVIOUS
<1> QED
  BY <1>2, <1>3, <1>4

LEMMA StampQuotient ==
    ASSUME NEW t \in Nat
    PROVE  \E a \in Nat, q \in 0..(Second - 1) : t = Second * a + q /\ Stamp(t) = t - q
<1>1. Second \in Nat \ {0}
  BY DiagAssumption
<1>2. /\ t = Second * (t \div Second) + (t % Second)
      /\ t \div Second \in Nat
      /\ t % Second \in 0..(Second - 1)
  BY <1>1, Remainder
<1>3. Stamp(t) = t - (t % Second)
  BY DEF Stamp
<1> QED
  BY <1>2, <1>3, Zenon

\* A record is never stamped in the future, and a later stamp is never smaller.
LEMMA StampMonotone ==
    ASSUME NEW t \in Nat, NEW u \in Nat, t <= u
    PROVE  Stamp(t) \in Nat /\ Stamp(t) <= t /\ Stamp(t) <= Stamp(u)
<1>1. Second \in Nat \ {0}
  BY DiagAssumption
<1>2. PICK a \in Nat, q \in 0..(Second - 1) : t = Second * a + q /\ Stamp(t) = t - q
  BY StampQuotient
<1>3. PICK b \in Nat, r \in 0..(Second - 1) : u = Second * b + r /\ Stamp(u) = u - r
  BY StampQuotient
<1>4. b < a => Second * b + Second <= Second * a
  BY <1>1, MultiplesApart
<1>5. a < b => Second * a + Second <= Second * b
  BY <1>1, MultiplesApart
<1>6. Second * a \in Nat /\ Second * b \in Nat
  BY <1>1
<1> QED
  BY <1>1, <1>2, <1>3, <1>4, <1>5, <1>6

\* Removing a connection from a list leaves a list of connections.
LEMMA WithoutType ==
    ASSUME NEW list \in Seq(Dashboards), NEW d \in Dashboards
    PROVE  Without(list, d) \in Seq(Dashboards)
<1> DEFINE at == {i \in DOMAIN list : list[i] = d}
<1>1. CASE at = {}
  BY <1>1 DEF Without
<1>2. CASE at # {}
  <2>1. at \subseteq 1..Len(list) /\ Len(list) \in Nat
    OBVIOUS
  <2>2. IsFiniteSet(at)
    BY <2>1, FS_Interval, FS_Subset
  <2>3. \E i \in at : \A j \in at : i <= j
    <3> DEFINE num == [i \in at |-> i]
    <3>1. num \in [at -> Int]
      BY <2>1
    <3>2. \E x \in at : \A y \in at : num[x] <= num[y]
      <4> HIDE DEF num
      <4> QED
        BY <1>2, <2>2, <3>1, FiniteHasFirst
    <3> QED
      BY <3>2
  <2> DEFINE first == CHOOSE i \in DOMAIN list :
                         list[i] = d /\ \A j \in DOMAIN list : list[j] = d => i <= j
  <2>4. first \in 1..Len(list)
    BY <2>3
  <2> HIDE DEF first
  <2>5. /\ SubSeq(list, 1, first - 1) \in Seq(Dashboards)
        /\ SubSeq(list, first + 1, Len(list)) \in Seq(Dashboards)
    BY <2>1, <2>4
  <2>6. Without(list, d) = SubSeq(list, 1, first - 1) \o SubSeq(list, first + 1, Len(list))
    BY <1>2 DEF Without, first
  <2> QED
    BY <2>5, <2>6
<1> QED
  BY <1>1, <1>2

-----------------------------------------------------------------------------
(***************************************************************************)
(* Type correctness.                                                       *)
(***************************************************************************)
LEMMA InitTypeOK == Init => TypeOK
<1> SUFFICES ASSUME Init PROVE TypeOK
  OBVIOUS
<1>1. now \in 0..MaxTime /\ nextId \in 1..(MaxEvents + 1)
  BY DiagAssumption DEF Init
<1>7. crashed \in BOOLEAN
  BY Zenon DEF Init
<1>2. byToken \in [Tokens -> SUBSET DiagRecord] /\ log \in [Tokens -> SUBSET DiagRecord]
  BY DEF Init
<1>3. subs \in [Tokens -> Seq(Dashboards)] /\ targets \in [Handlers -> Seq(Dashboards)]
  BY DEF Init
<1>4. HandlersOK
  BY DEF Init, HandlersOK
<1>5. /\ conn \in [Dashboards -> {"upgraded", "snapshotted", "streaming", "leaving",
                                  "unregistered", "closed"}]
      /\ ch \in [Dashboards -> Seq(Update)]
  BY DEF Init
<1>6. /\ snapshot \in [Dashboards -> SUBSET Ids]
      /\ shown \in [Dashboards -> SUBSET Ids]
      /\ missed \in [Dashboards -> SUBSET Ids]
      /\ since \in [Dashboards -> 0..(MaxEvents + 1)]
  BY DiagAssumption DEF Init
<1> QED
  BY <1>1, <1>2, <1>3, <1>4, <1>5, <1>6, <1>7 DEF TypeOK

\* Ending a broadcast, or moving on to the next subscriber, keeps the handler's
\* progress, job and targets in step.
LEMMA EndBroadcastType ==
    ASSUME HandlersOK, NEW h \in Handlers, EndBroadcast(h)
    PROVE  HandlersOK'
BY DEF EndBroadcast, HandlersOK

LEMMA SentType ==
    ASSUME HandlersOK, NEW h \in Handlers, pc[h] = "sending", Sent(h)
    PROVE  HandlersOK'
<1>1. CASE Len(targets[h]) = 1
  BY <1>1, EndBroadcastType DEF Sent
<1>2. CASE Len(targets[h]) # 1
  <2> DEFINE list == targets[h]
  <2>1. list \in Seq(Dashboards) /\ list # <<>>
    BY DEF HandlersOK
  <2>2. Tail(list) \in Seq(Dashboards) /\ Len(Tail(list)) = Len(list) - 1 /\ Len(list) \in Nat \ {0}
    BY <2>1, HeadTailProperties, EmptySeq
  <2>3. Len(Tail(list)) # 0
    BY <1>2, <2>2
  <2>4. Tail(list) # <<>>
    BY <2>3, EmptySeq, Zenon
  <2> QED
    BY <1>2, <2>2, <2>4 DEF Sent, HandlersOK
<1> QED
  BY <1>1, <1>2

LEMMA StartBroadcastType ==
    ASSUME HandlersOK, NEW h \in Handlers, pc[h] = "idle", nextId \in Ids,
           NEW t \in Tokens, NEW kind \in {"record", "related"}, NEW r \in DiagRecord,
           StartBroadcast(h, t, kind, r), UNCHANGED targets
    PROVE  HandlersOK' /\ nextId' \in 1..(MaxEvents + 1)
<1>1. [token |-> t, upd |-> [kind |-> kind, event |-> nextId, rec |-> r]] \in Job
  BY DEF Job, Update
<1>2. nextId' \in 1..(MaxEvents + 1)
  BY DiagAssumption DEF StartBroadcast, Ids
<1>3. targets[h] = <<>>
  BY DEF HandlersOK
<1> QED
  BY <1>1, <1>2, <1>3 DEF StartBroadcast, HandlersOK

LEMMA RecordType ==
    ASSUME TypeOK, NEW h \in Handlers, NEW t \in Tokens, NEW c \in Clients, Record(h, t, c)
    PROVE  TypeOK'
<1> DEFINE rec == [id |-> nextId, client |-> c, ts |-> Stamp(now), related |-> {}]
<1>1. rec \in DiagRecord
  <2>1. Stamp(now) \in 0..MaxTime
    <3>1. now \in Nat /\ now <= MaxTime /\ MaxTime \in Nat
      BY DiagAssumption DEF TypeOK
    <3> QED
      BY <3>1, StampMonotone
  <2> QED
    BY <2>1 DEF Record, DiagRecord
<1> HIDE DEF rec
<1>2. /\ byToken' = [byToken EXCEPT ![t] = Evicted(Pruned(t)) \cup {rec}]
      /\ log' = [log EXCEPT ![t] = @ \cup {rec}]
      /\ StartBroadcast(h, t, "record", rec)
  BY DEF Record, rec
<1>3. Evicted(Pruned(t)) \subseteq byToken[t]
  BY DEF Evicted, Pruned
<1>4. byToken' \in [Tokens -> SUBSET DiagRecord] /\ log' \in [Tokens -> SUBSET DiagRecord]
  BY <1>1, <1>2, <1>3 DEF TypeOK
<1>5. HandlersOK' /\ nextId' \in 1..(MaxEvents + 1)
  BY <1>1, <1>2, StartBroadcastType DEF Record, TypeOK
<1> QED
  BY <1>4, <1>5 DEF Record, feedVars, TypeOK

LEMMA AppendRelatedType ==
    ASSUME TypeOK, NEW h \in Handlers, NEW t \in Tokens, NEW c \in Clients,
           AppendRelated(h, t, c)
    PROVE  TypeOK'
<1> DEFINE e == [id |-> nextId, client |-> c, ts |-> Stamp(now)]
<1>1. PICK best \in Candidates(t, c) :
         LET upd == [best EXCEPT !.related = @ \cup {e}]
         IN  /\ byToken' = [byToken EXCEPT ![t] = (@ \ {best}) \cup {upd}]
             /\ StartBroadcast(h, t, "related", upd)
  BY DEF AppendRelated
<1> DEFINE upd == [best EXCEPT !.related = @ \cup {e}]
<1>2. best \in DiagRecord
  BY DEF Candidates, TypeOK
<1>3. e \in Event
  <2>1. now \in Nat /\ now <= MaxTime /\ MaxTime \in Nat
    BY DiagAssumption DEF TypeOK
  <2>2. Stamp(now) \in 0..MaxTime
    BY <2>1, StampMonotone
  <2> QED
    BY <2>2 DEF AppendRelated, Event
<1>4. upd \in DiagRecord
  <2> HIDE DEF e
  <2> QED
    BY <1>2, <1>3 DEF DiagRecord
<1> HIDE DEF e, upd
<1>5. /\ byToken' = [byToken EXCEPT ![t] = (@ \ {best}) \cup {upd}]
      /\ StartBroadcast(h, t, "related", upd)
  BY <1>1 DEF upd
<1>6. byToken' \in [Tokens -> SUBSET DiagRecord]
  BY <1>4, <1>5 DEF TypeOK
<1>7. HandlersOK' /\ nextId' \in 1..(MaxEvents + 1)
  BY <1>4, <1>5, StartBroadcastType DEF AppendRelated, TypeOK
<1> QED
  BY <1>6, <1>7 DEF AppendRelated, feedVars, TypeOK

LEMMA BroadcastType ==
    ASSUME TypeOK, NEW h \in Handlers, Broadcast(h)
    PROVE  TypeOK'
<1>1. CASE CopySubs(h)
  <2>1. job[h] \in Job /\ subs[job[h].token] \in Seq(Dashboards)
    BY <1>1 DEF CopySubs, TypeOK, HandlersOK, Job
  <2>2. HandlersOK'
    <3>1. CASE EndBroadcast(h)
      BY <3>1, EndBroadcastType DEF TypeOK
    <3>2. CASE ~EndBroadcast(h)
      BY <1>1, <2>1, <3>2 DEF CopySubs, TypeOK, HandlersOK
    <3> QED
      BY <3>1, <3>2
  <2> QED
    BY <1>1, <2>2 DEF CopySubs, storeVars, feedVars, TypeOK
<1>2. CASE Send(h)
  <2> DEFINE d == Head(targets[h])
  <2>1. d \in Dashboards /\ job[h].upd \in Update
    <3>1. targets[h] \in Seq(Dashboards) /\ targets[h] # <<>> /\ job[h] \in Job
      BY <1>2 DEF Send, TypeOK, HandlersOK
    <3> QED
      BY <3>1, HeadTailProperties DEF Job
  <2>2. HandlersOK'
    BY <1>2, SentType DEF Send, TypeOK
  <2> HIDE DEF d
  <2>3. ch' \in [Dashboards -> Seq(Update)] /\ missed' \in [Dashboards -> SUBSET Ids]
    <3>1. Append(ch[d], job[h].upd) \in Seq(Update)
      BY <2>1 DEF TypeOK
    <3>2. job[h].upd.event \in Ids
      BY <2>1 DEF Update
    <3>3. \/ ch' = [ch EXCEPT ![d] = Append(@, job[h].upd)] /\ missed' = missed
          \/ missed' = [missed EXCEPT ![d] = @ \cup {job[h].upd.event}] /\ ch' = ch
      BY <1>2, Zenon DEF Send, d
    <3>4. ch \in [Dashboards -> Seq(Update)] /\ missed \in [Dashboards -> SUBSET Ids]
      BY DEF TypeOK
    <3> QED
      BY <3>1, <3>2, <3>3, <3>4
  <2> QED
    BY <1>2, <2>2, <2>3 DEF Send, storeVars, TypeOK
<1>3. CASE SendPanics(h)
  <2>1. job[h] \in Job
    BY <1>3 DEF SendPanics, TypeOK, HandlersOK
  <2>2. job[h].upd.event \in Ids
    BY <2>1 DEF Job, Update
  <2>3. CASE h \in DoHHandlers
    <3>1. HandlersOK'
      BY <1>3, <2>3, EndBroadcastType DEF SendPanics, TypeOK
    <3>2. missed' \in [Dashboards -> SUBSET Ids]
      <4> DEFINE cut(d) == \E i \in DOMAIN targets[h] : targets[h][i] = d
                 ev == job[h].upd.event
      <4>1. missed' = [d \in Dashboards |-> IF cut(d) THEN missed[d] \cup {ev} ELSE missed[d]]
        BY <1>3, <2>3 DEF SendPanics
      <4>2. ev \in Ids /\ missed \in [Dashboards -> SUBSET Ids]
        BY <2>2 DEF TypeOK
      <4> HIDE DEF cut, ev
      <4> QED
        BY <4>1, <4>2
    <3> QED
      BY <1>3, <2>3, <3>1, <3>2 DEF SendPanics, storeVars, TypeOK
  <2>4. CASE h \notin DoHHandlers
    <3>1. crashed' \in BOOLEAN
      BY <1>3, <2>4, Zenon DEF SendPanics
    <3> QED
      BY <1>3, <2>4, <3>1 DEF SendPanics, storeVars, TypeOK, HandlersOK
  <2> QED
    BY <2>3, <2>4
<1> QED
  BY <1>1, <1>2, <1>3 DEF Broadcast

LEMMA ConnectionType ==
    ASSUME TypeOK, NEW d \in Dashboards,
           TakeSnapshot(d) \/ Register(d) \/ Stream(d) \/ Leave(d)
    PROVE  TypeOK'
<1>1. CASE TakeSnapshot(d)
  <2>1. \A r \in Pruned(Watches[d]) : {r.id} \cup {e.id : e \in r.related} \subseteq Ids
    BY DiagAssumption DEF Pruned, TypeOK, DiagRecord, Event
  <2>2. snapshot' \in [Dashboards -> SUBSET Ids]
    BY <1>1, <2>1 DEF TakeSnapshot, TypeOK
  <2> QED
    BY <1>1, <2>2 DEF TakeSnapshot, Goto, storeVars, TypeOK, HandlersOK
<1>2. CASE Register(d)
  <2>1. Watches[d] \in Tokens
    BY DiagAssumption
  <2>2. Append(subs[Watches[d]], d) \in Seq(Dashboards)
    BY <2>1 DEF TypeOK
  <2>3. subs' \in [Tokens -> Seq(Dashboards)]
    BY <1>2, <2>1, <2>2 DEF Register, TypeOK
  <2>4. since' \in [Dashboards -> 0..(MaxEvents + 1)]
    BY <1>2, DiagAssumption DEF Register, TypeOK
  <2> QED
    BY <1>2, <2>3, <2>4 DEF Register, Goto, storeVars, TypeOK, HandlersOK
<1>3. CASE Stream(d)
  <2>1. ch[d] \in Seq(Update) /\ ch[d] # <<>>
    BY <1>3 DEF Stream, WriteUpdate, WriteFails, TypeOK
  <2>2. Tail(ch[d]) \in Seq(Update) /\ Head(ch[d]).event \in Ids
    <3>1. Tail(ch[d]) \in Seq(Update) /\ Head(ch[d]) \in Update
      BY <2>1, HeadTailProperties
    <3> QED
      BY <3>1 DEF Update
  <2>3. CASE WriteUpdate(d)
    BY <2>2, <2>3 DEF WriteUpdate, storeVars, TypeOK, HandlersOK
  <2>4. CASE WriteFails(d)
    BY <2>2, <2>4 DEF WriteFails, Goto, storeVars, TypeOK, HandlersOK
  <2> QED
    BY <1>3, <2>3, <2>4 DEF Stream
<1>4. CASE Leave(d)
  <2>1. CASE Unregister(d)
    <3>1. Watches[d] \in Tokens
      BY DiagAssumption
    <3>2. Without(subs[Watches[d]], d) \in Seq(Dashboards)
      BY <3>1, WithoutType DEF TypeOK
    <3>3. subs' \in [Tokens -> Seq(Dashboards)]
      BY <2>1, <3>1, <3>2 DEF Unregister, TypeOK
    <3> QED
      BY <2>1, <3>3 DEF Unregister, Goto, storeVars, TypeOK, HandlersOK
  <2>2. CASE CloseChannel(d)
    BY <2>2 DEF CloseChannel, Goto, storeVars, TypeOK, HandlersOK
  <2> QED
    BY <1>4, <2>1, <2>2 DEF Leave
<1> QED
  BY <1>1, <1>2, <1>3, <1>4

LEMMA StepTypeOK == TypeOK /\ [Next]_vars => TypeOK'
<1> SUFFICES ASSUME TypeOK, [Next]_vars
             PROVE  TypeOK'
  OBVIOUS
<1>1. CASE \E h \in Handlers, t \in Tokens, c \in Clients : Record(h, t, c)
  BY <1>1, RecordType
<1>2. CASE \E h \in Handlers, t \in Tokens, c \in Clients : AppendRelated(h, t, c)
  BY <1>2, AppendRelatedType
<1>3. CASE \E h \in Handlers : Broadcast(h)
  BY <1>3, BroadcastType
<1>4. CASE \E d \in Dashboards : TakeSnapshot(d) \/ Register(d) \/ Stream(d) \/ Leave(d)
  BY <1>4, ConnectionType
<1>5. CASE Tick
  BY <1>5, DiagAssumption DEF Tick, storeVars, feedVars, TypeOK, HandlersOK
<1>6. CASE UNCHANGED vars
  BY <1>6 DEF vars, TypeOK, HandlersOK
<1> QED
  BY <1>1, <1>2, <1>3, <1>4, <1>5, <1>6 DEF Next

\* Every reachable state is well typed, whatever the caps, the number of
\* goroutines and the order they run in.
THEOREM TypeCorrect == Spec => []TypeOK
BY InitTypeOK, StepTypeOK, PTL DEF Spec

-----------------------------------------------------------------------------
(***************************************************************************)
(* The lists.  The properties of the lists are not inductive on their own: *)
(* a new record goes last because its number is larger than any in the     *)
(* list and its stamp is not smaller, and the list has room for it because *)
(* it was a finite set within the cap.                                     *)
(***************************************************************************)
Finite == \A t \in Tokens : IsFiniteSet(byToken[t])
Numbered ==
    \A t \in Tokens : \A r \in byToken[t] :
        r.id < nextId /\ \A o \in byToken[t] : o.id = r.id => o = r
Stamped == \A t \in Tokens : \A r \in byToken[t] : r.ts <= Stamp(now)

StoreInv ==
    Finite /\ Numbered /\ Stamped /\ ListsBounded /\ OldestFirst /\ RelatedMatchesPrimary

LEMMA InitStoreInv == Init => StoreInv
<1> SUFFICES ASSUME Init PROVE StoreInv
  OBVIOUS
<1>1. \A t \in Tokens : byToken[t] = {}
  BY DEF Init
<1>2. Finite /\ ListsBounded
  BY <1>1, FS_EmptySet, DiagAssumption DEF Finite, ListsBounded
<1> QED
  BY <1>1, <1>2 DEF StoreInv, Numbered, Stamped, OldestFirst, RelatedMatchesPrimary

LEMMA RecordStoreInv ==
    ASSUME TypeOK, StoreInv, NEW h \in Handlers, NEW t \in Tokens, NEW c \in Clients,
           Record(h, t, c)
    PROVE  StoreInv'
<1> DEFINE rec == [id |-> nextId, client |-> c, ts |-> Stamp(now), related |-> {}]
           kept == Evicted(Pruned(t))
<1>1. /\ byToken' = [byToken EXCEPT ![t] = kept \cup {rec}]
      /\ nextId' = nextId + 1 /\ now' = now
  BY DEF Record, StartBroadcast
<1>2. kept \subseteq byToken[t] /\ IsFiniteSet(kept) /\ Cardinality(kept) < MaxPerToken
  <2>1. Pruned(t) \subseteq byToken[t] /\ \A r \in Pruned(t) : r.id \in Int
    BY DEF Pruned, TypeOK, DiagRecord, Ids
  <2>2. IsFiniteSet(Pruned(t)) /\ Cardinality(Pruned(t)) <= Cardinality(byToken[t])
    BY <2>1, FS_Subset DEF StoreInv, Finite
  <2>3. Cardinality(Pruned(t)) <= MaxPerToken
    <3>1. Cardinality(Pruned(t)) \in Nat /\ Cardinality(byToken[t]) \in Nat
      BY <2>2, FS_CardinalityType DEF StoreInv, Finite
    <3> QED
      BY <2>2, <3>1, DiagAssumption DEF StoreInv, ListsBounded
  <2> QED
    BY <2>1, <2>2, <2>3, EvictedLeavesRoom
<1>3. rec.id = nextId /\ rec.ts = Stamp(now) /\ rec.related = {}
  OBVIOUS
<1>4. /\ nextId \in Nat
      /\ Stamp(now) \in Nat
      /\ \A r \in byToken[t] : r.id \in Nat /\ r.ts \in Nat
  <2>1. now \in Nat
    BY DiagAssumption DEF TypeOK
  <2> QED
    BY <2>1, StampMonotone DEF TypeOK, DiagRecord, Ids
<1> HIDE DEF rec, kept
<1>5. /\ byToken'[t] = kept \cup {rec}
      /\ \A u \in Tokens : u # t => byToken'[u] = byToken[u]
  BY <1>1 DEF TypeOK
<1>6. Finite' /\ ListsBounded'
  <2>1. IsFiniteSet(kept \cup {rec}) /\ Cardinality(kept \cup {rec}) <= MaxPerToken
    <3>1. Cardinality(kept) \in Nat
      BY <1>2, FS_CardinalityType
    <3>2. /\ IsFiniteSet(kept \cup {rec})
          /\ \/ Cardinality(kept \cup {rec}) = Cardinality(kept)
             \/ Cardinality(kept \cup {rec}) = Cardinality(kept) + 1
      BY <1>2, FS_AddElement
    <3> QED
      BY <1>2, <3>1, <3>2, DiagAssumption
  <2> QED
    BY <1>5, <2>1 DEF StoreInv, Finite, ListsBounded
<1>7. Numbered'
  BY <1>1, <1>2, <1>3, <1>4, <1>5 DEF StoreInv, Numbered, TypeOK, DiagRecord, Ids
<1>8. Stamped'
  BY <1>1, <1>2, <1>3, <1>4, <1>5 DEF StoreInv, Stamped, Stamp
<1>9. OldestFirst'
  BY <1>2, <1>3, <1>4, <1>5 DEF StoreInv, OldestFirst, Numbered, Stamped
<1>10. RelatedMatchesPrimary'
  BY <1>2, <1>3, <1>5 DEF StoreInv, RelatedMatchesPrimary
<1> QED
  BY <1>6, <1>7, <1>8, <1>9, <1>10 DEF StoreInv

LEMMA AppendRelatedStoreInv ==
    ASSUME TypeOK, StoreInv, NEW h \in Handlers, NEW t \in Tokens, NEW c \in Clients,
           AppendRelated(h, t, c)
    PROVE  StoreInv'
<1> DEFINE e == [id |-> nextId, client |-> c, ts |-> Stamp(now)]
<1>1. PICK best \in Candidates(t, c) :
         LET upd == [best EXCEPT !.related = @ \cup {e}]
         IN  /\ byToken' = [byToken EXCEPT ![t] = (@ \ {best}) \cup {upd}]
             /\ StartBroadcast(h, t, "related", upd)
  BY DEF AppendRelated
<1> DEFINE upd == [best EXCEPT !.related = @ \cup {e}]
<1>2. /\ best \in byToken[t] /\ best \in DiagRecord
      /\ best.client = c /\ best.ts >= now - RelatedWindow
  BY DEF Candidates, Within, TypeOK
<1>3. /\ upd.id = best.id /\ upd.client = best.client /\ upd.ts = best.ts
      /\ upd.related = best.related \cup {e}
  BY <1>2 DEF DiagRecord
<1>4. e.id = nextId /\ e.client = c /\ e.ts = Stamp(now)
  OBVIOUS
<1> HIDE DEF e, upd
<1>5. /\ byToken'[t] = (byToken[t] \ {best}) \cup {upd}
      /\ \A u \in Tokens : u # t => byToken'[u] = byToken[u]
      /\ nextId' = nextId + 1 /\ now' = now
  BY <1>1 DEF upd, StartBroadcast, AppendRelated, TypeOK
<1>6. /\ now \in Nat /\ RelatedWindow \in Nat /\ nextId \in Nat
      /\ Stamp(now) \in Nat /\ Stamp(now) <= now
      /\ \A r \in byToken[t] : r.id \in Nat /\ r.ts \in Nat
  <2>1. now \in Nat
    BY DiagAssumption DEF TypeOK
  <2> QED
    BY <2>1, StampMonotone, DiagAssumption DEF TypeOK, DiagRecord, Ids
<1>7. Finite' /\ ListsBounded'
  <2> DEFINE rest == byToken[t] \ {best}
  <2>1. IsFiniteSet(rest) /\ Cardinality(rest) = Cardinality(byToken[t]) - 1
    BY <1>2, FS_RemoveElement DEF StoreInv, Finite
  <2>2. /\ IsFiniteSet(rest \cup {upd})
        /\ \/ Cardinality(rest \cup {upd}) = Cardinality(rest)
           \/ Cardinality(rest \cup {upd}) = Cardinality(rest) + 1
    BY <2>1, FS_AddElement
  <2>3. Cardinality(byToken[t]) \in Nat /\ Cardinality(byToken[t]) <= MaxPerToken
    BY FS_CardinalityType DEF StoreInv, Finite, ListsBounded
  <2>4. Cardinality(rest \cup {upd}) <= MaxPerToken
    BY <2>1, <2>2, <2>3, DiagAssumption
  <2> QED
    BY <1>5, <2>2, <2>4 DEF StoreInv, Finite, ListsBounded
<1>8. Numbered'
  <2>1. \A u \in Tokens : \A r \in byToken[u] : /\ r.id \in Int /\ r.id < nextId
                                              /\ \A o \in byToken[u] : o.id = r.id => o = r
    BY DEF StoreInv, Numbered, TypeOK, DiagRecord, Ids
  <2>2. ASSUME NEW u \in Tokens, NEW r \in byToken'[u]
        PROVE  r.id < nextId' /\ \A o \in byToken'[u] : o.id = r.id => o = r
    <3>1. CASE u # t
      BY <1>5, <1>6, <2>1, <2>2, <3>1
    <3>2. CASE u = t
      <4>1. \A x \in byToken'[u] : x = upd \/ (x \in byToken[t] /\ x # best)
        BY <1>5, <3>2
      <4>2. \A x \in byToken[t] : x.id = upd.id => x = best
        BY <1>2, <1>3, <2>1
      <4>3. r.id < nextId'
        BY <1>2, <1>3, <1>5, <1>6, <2>1, <2>2, <4>1
      <4>4. \A o \in byToken'[u] : o.id = r.id => o = r
        BY <2>1, <2>2, <4>1, <4>2
      <4> QED
        BY <4>3, <4>4
    <3> QED
      BY <3>1, <3>2
  <2> QED
    BY <2>2 DEF Numbered
<1>9. Stamped'
  BY <1>2, <1>3, <1>5 DEF StoreInv, Stamped, Stamp
<1>10. OldestFirst'
  BY <1>2, <1>3, <1>5 DEF StoreInv, OldestFirst
<1>11. RelatedMatchesPrimary'
  <2>1. \A x \in upd.related : /\ x.client = upd.client /\ upd.id < x.id
                               /\ upd.ts <= x.ts /\ x.ts <= upd.ts + RelatedWindow
    <3>1. \A x \in best.related : /\ x.client = best.client /\ best.id < x.id
                                  /\ best.ts <= x.ts /\ x.ts <= best.ts + RelatedWindow
      BY <1>2 DEF StoreInv, RelatedMatchesPrimary
    <3>2. best.id < e.id /\ best.ts <= e.ts /\ e.ts <= best.ts + RelatedWindow
      BY <1>2, <1>4, <1>6 DEF StoreInv, Numbered, Stamped
    <3> QED
      BY <1>2, <1>3, <1>4, <3>1, <3>2
  <2> QED
    BY <1>5, <2>1 DEF StoreInv, RelatedMatchesPrimary
<1> QED
  BY <1>7, <1>8, <1>9, <1>10, <1>11 DEF StoreInv

\* Nothing else touches the lists; time only raises the stamp of the next record.
LEMMA StepStoreInv == TypeOK /\ StoreInv /\ [Next]_vars => StoreInv'
<1> SUFFICES ASSUME TypeOK, StoreInv, [Next]_vars
             PROVE  StoreInv'
  OBVIOUS
<1>1. CASE \E h \in Handlers, t \in Tokens, c \in Clients : Record(h, t, c)
  BY <1>1, RecordStoreInv
<1>2. CASE \E h \in Handlers, t \in Tokens, c \in Clients : AppendRelated(h, t, c)
  BY <1>2, AppendRelatedStoreInv
<1>3. CASE UNCHANGED <<byToken, nextId, now>>
  BY <1>3 DEF StoreInv, Finite, Numbered, Stamped, Stamp, ListsBounded, OldestFirst,
              RelatedMatchesPrimary
<1>4. CASE Tick
  <2>1. /\ now \in Nat /\ now' \in Nat /\ now <= now'
        /\ byToken' = byToken /\ nextId' = nextId
    BY <1>4, DiagAssumption DEF Tick, storeVars, TypeOK
  <2>2. Stamped'
    <3>1. Stamp(now) \in Nat /\ Stamp(now') \in Nat /\ Stamp(now) <= Stamp(now')
      BY <2>1, StampMonotone
    <3>2. \A t \in Tokens : \A r \in byToken[t] : r.ts \in Nat
      BY DiagAssumption DEF TypeOK, DiagRecord
    <3> QED
      BY <2>1, <3>1, <3>2 DEF StoreInv, Stamped, Stamp
  <2> QED
    BY <2>1, <2>2 DEF StoreInv, Finite, Numbered, ListsBounded, OldestFirst,
                      RelatedMatchesPrimary
<1>5. CASE \E h \in Handlers : Broadcast(h)
  BY <1>3, <1>5 DEF Broadcast, CopySubs, Send, SendPanics, storeVars
<1>6. CASE \E d \in Dashboards : TakeSnapshot(d) \/ Register(d) \/ Stream(d) \/ Leave(d)
  BY <1>3, <1>6 DEF TakeSnapshot, Register, Stream, WriteUpdate, WriteFails, Leave,
                    Unregister, CloseChannel, storeVars
<1>7. CASE UNCHANGED vars
  BY <1>3, <1>7 DEF vars
<1> QED
  BY <1>1, <1>2, <1>4, <1>5, <1>6, <1>7 DEF Next

LEMMA StoreInvariant == Spec => []StoreInv
BY InitTypeOK, StepTypeOK, InitStoreInv, StepStoreInv, PTL DEF Spec

\* However queries and related queries interleave with pruning and eviction,
\* insertion order and time order agree.
THEOREM ListsAreOldestFirst == Spec => []OldestFirst
<1>1. StoreInv => OldestFirst
  BY DEF StoreInv
<1> QED
  BY <1>1, StoreInvariant, PTL

\* A related query always hangs under a query of the same client, at most
\* RelatedWindow older.
THEOREM RelatedQueriesMatch == Spec => []RelatedMatchesPrimary
<1>1. StoreInv => RelatedMatchesPrimary
  BY DEF StoreInv
<1> QED
  BY <1>1, StoreInvariant, PTL

-----------------------------------------------------------------------------
(***************************************************************************)
(* The channels.                                                           *)
(***************************************************************************)
LEMMA StepQueuesBounded == TypeOK /\ QueuesBounded /\ [Next]_vars => QueuesBounded'
<1> SUFFICES ASSUME TypeOK, QueuesBounded, [Next]_vars
             PROVE  QueuesBounded'
  OBVIOUS
<1>1. CASE UNCHANGED ch
  BY <1>1 DEF QueuesBounded
<1>2. ASSUME NEW h \in Handlers, Send(h)
      PROVE  QueuesBounded'
  <2> DEFINE d == Head(targets[h])
             u == job[h].upd
  <2>1. u \in Update
    BY <1>2 DEF Send, TypeOK, HandlersOK, Job
  <2>2. CASE Len(ch[d]) < BufferSize /\ ch' = [ch EXCEPT ![d] = Append(@, u)]
    <3> HIDE DEF d, u
    <3>1. CASE d \in Dashboards
      <4>1. Len(Append(ch[d], u)) = Len(ch[d]) + 1 /\ Len(ch[d]) \in Nat
        BY <2>1, <3>1, AppendProperties, LenProperties DEF TypeOK
      <4>2. Len(Append(ch[d], u)) <= BufferSize
        BY <2>2, <4>1, DiagAssumption
      <4> QED
        BY <2>2, <4>2 DEF QueuesBounded, TypeOK
    <3>2. CASE d \notin Dashboards
      BY <2>2, <3>2 DEF QueuesBounded, TypeOK
    <3> QED
      BY <3>1, <3>2
  <2> QED
    BY <1>1, <1>2, <2>2, Zenon DEF Send
<1>3. ASSUME NEW d \in Dashboards, Stream(d)
      PROVE  QueuesBounded'
  <2>1. ch[d] \in Seq(Update) /\ ch[d] # <<>> /\ ch' = [ch EXCEPT ![d] = Tail(@)]
    BY <1>3 DEF Stream, WriteUpdate, WriteFails, TypeOK
  <2>2. Len(Tail(ch[d])) = Len(ch[d]) - 1 /\ Len(ch[d]) \in Nat
    BY <2>1, HeadTailProperties, LenProperties
  <2>3. Len(Tail(ch[d])) <= BufferSize
    BY <2>2, DiagAssumption DEF QueuesBounded
  <2> QED
    BY <2>1, <2>3 DEF QueuesBounded, TypeOK
<1>4. CASE \E h \in Handlers, t \in Tokens, c \in Clients :
               Record(h, t, c) \/ AppendRelated(h, t, c)
  BY <1>1, <1>4 DEF Record, AppendRelated, feedVars
<1>5. CASE \E h \in Handlers : CopySubs(h) \/ SendPanics(h)
  BY <1>1, <1>5 DEF CopySubs, SendPanics, feedVars
<1>6. CASE \E d \in Dashboards : TakeSnapshot(d) \/ Register(d) \/ Leave(d)
  BY <1>1, <1>6 DEF TakeSnapshot, Register, Leave, Unregister, CloseChannel
<1>7. CASE Tick \/ UNCHANGED vars
  BY <1>1, <1>7 DEF Tick, feedVars, vars
<1> QED
  BY <1>2, <1>3, <1>4, <1>5, <1>6, <1>7 DEF Next, Broadcast

\* No list outgrows MaxPerToken and no channel its buffer.
THEOREM ListsAndQueuesBounded == Spec => []Bounded
<1>1. Init => QueuesBounded
  BY EmptySeq, DiagAssumption DEF Init, QueuesBounded
<1>2. StoreInv => ListsBounded
  BY DEF StoreInv
<1>3. ListsBounded /\ QueuesBounded => Bounded
  BY DEF Bounded
<1> QED
  BY <1>1, <1>2, <1>3, InitTypeOK, StepTypeOK, StepQueuesBounded, StoreInvariant, PTL DEF Spec

-----------------------------------------------------------------------------
(***************************************************************************)
(* Lists of connections.                                                   *)
(***************************************************************************)
Holds(list, d) == \E i \in DOMAIN list : list[i] = d
Distinct(list) == \A i, j \in DOMAIN list : list[i] = list[j] => i = j

\* unsubscribe's append(list[:i], list[i+1:]...) takes out the one entry that is
\* this connection: the others stay, each once.
LEMMA WithoutRemovesOne ==
    ASSUME NEW list \in Seq(Dashboards), Distinct(list), NEW d \in Dashboards
    PROVE  /\ Distinct(Without(list, d))
           /\ \A x : Holds(Without(list, d), x) <=> Holds(list, x) /\ x # d
<1>1. CASE ~Holds(list, d)
  BY <1>1 DEF Without, Holds
<1>2. CASE Holds(list, d)
  <2> DEFINE first == CHOOSE i \in DOMAIN list :
                         list[i] = d /\ \A j \in DOMAIN list : list[j] = d => i <= j
             before == SubSeq(list, 1, first - 1)
             after == SubSeq(list, first + 1, Len(list))
             rest == before \o after
             n == Len(list)
  <2>1. n \in Nat /\ DOMAIN list = 1..n /\ \A i \in 1..n : list[i] \in Dashboards
    BY LenProperties
  <2>2. \E i \in DOMAIN list : list[i] = d /\ \A j \in DOMAIN list : list[j] = d => i <= j
    <3>1. PICK i \in DOMAIN list : list[i] = d
      BY <1>2 DEF Holds
    <3>2. \A j \in DOMAIN list : list[j] = d => j = i
      BY <3>1 DEF Distinct
    <3> QED
      BY <2>1, <3>1, <3>2
  <2>3. first \in 1..n /\ list[first] = d
    <3> HIDE DEF n
    <3> QED
      BY <2>1, <2>2
  <2>4. Without(list, d) = rest
    BY <1>2 DEF Without, Holds
  <2> HIDE DEF first
  <2>5. /\ before \in Seq(Dashboards) /\ Len(before) = first - 1
        /\ \A i \in 1..(first - 1) : before[i] = list[i]
    <3>1. first - 1 \in Int /\ \A i \in 1..(first - 1) : list[i] \in Dashboards
      BY <2>1, <2>3
    <3>2. /\ SubSeq(list, 1, first - 1) \in Seq(Dashboards)
          /\ Len(SubSeq(list, 1, first - 1)) = IF 1 <= first - 1 THEN first - 1 - 1 + 1 ELSE 0
          /\ \A i \in 1..(first - 1 - 1 + 1) : SubSeq(list, 1, first - 1)[i] = list[1 + i - 1]
      BY <3>1, SubSeqProperties
    <3> QED
      BY <2>1, <2>3, <3>2
  <2>6. /\ after \in Seq(Dashboards) /\ Len(after) = n - first
        /\ \A i \in 1..(n - first) : after[i] = list[first + i]
    <3>1. /\ first + 1 \in Int /\ n \in Int
          /\ \A i \in (first + 1)..n : list[i] \in Dashboards
      BY <2>1, <2>3
    <3>2. /\ SubSeq(list, first + 1, n) \in Seq(Dashboards)
          /\ Len(SubSeq(list, first + 1, n))
                = IF first + 1 <= n THEN n - (first + 1) + 1 ELSE 0
          /\ \A i \in 1..(n - (first + 1) + 1) :
                SubSeq(list, first + 1, n)[i] = list[first + 1 + i - 1]
      BY <3>1, SubSeqProperties
    <3>3. /\ n - (first + 1) + 1 = n - first
          /\ (IF first + 1 <= n THEN n - (first + 1) + 1 ELSE 0) = n - first
          /\ \A i \in 1..(n - first) : first + 1 + i - 1 = first + i
      <4>1. first \in Int /\ n \in Int /\ first <= n
        BY <2>1, <2>3
      <4> HIDE DEF n
      <4> QED
        BY <4>1
    <3> QED
      BY <3>2, <3>3
  <2> HIDE DEF before, after, n
  <2>7. /\ DOMAIN rest = 1..(n - 1)
        /\ \A i \in 1..(n - 1) : rest[i] = IF i < first THEN list[i] ELSE list[i + 1]
    <3>1. /\ rest \in Seq(Dashboards) /\ Len(rest) = Len(before) + Len(after)
          /\ \A i \in 1..(Len(before) + Len(after)) :
                rest[i] = IF i <= Len(before) THEN before[i] ELSE after[i - Len(before)]
      BY <2>5, <2>6, ConcatProperties
    <3>2. DOMAIN rest = 1..Len(rest)
      BY <3>1, LenProperties
    <3> HIDE DEF rest
    <3>3. Len(rest) = n - 1
      BY <2>1, <2>3, <2>5, <2>6, <3>1
    <3>4. ASSUME NEW i \in 1..(n - 1)
          PROVE  rest[i] = IF i < first THEN list[i] ELSE list[i + 1]
      <4>1. CASE i < first
        <5>1. i \in 1..(first - 1) /\ i <= Len(before) /\ i \in 1..(Len(before) + Len(after))
          BY <2>1, <2>3, <2>5, <2>6, <3>4, <4>1
        <5> QED
          BY <2>5, <3>1, <4>1, <5>1
      <4>2. CASE ~(i < first)
        <5>1. /\ i - Len(before) = i + 1 - first /\ i + 1 - first \in 1..(n - first)
              /\ ~(i <= Len(before)) /\ i \in 1..(Len(before) + Len(after))
          BY <2>1, <2>3, <2>5, <2>6, <3>4, <4>2
        <5>2. first + (i + 1 - first) = i + 1
          BY <2>3, <3>4
        <5> QED
          BY <2>6, <3>1, <4>2, <5>1, <5>2
      <4> QED
        BY <4>1, <4>2
    <3> QED
      BY <3>2, <3>3, <3>4
  <2> HIDE DEF rest
  <2>8. Distinct(rest)
    <3> DEFINE at(i) == IF i < first THEN i ELSE i + 1
    <3>1. \A i \in 1..(n - 1) : at(i) \in 1..n /\ rest[i] = list[at(i)]
      BY <2>1, <2>3, <2>7
    <3>2. \A i, j \in 1..(n - 1) : at(i) = at(j) => i = j
      BY <2>1, <2>3
    <3> HIDE DEF at
    <3> QED
      BY <2>1, <2>7, <3>1, <3>2 DEF Distinct
  <2>9. ASSUME NEW x
        PROVE  Holds(rest, x) <=> Holds(list, x) /\ x # d
    <3>1. ASSUME NEW i \in 1..(n - 1), rest[i] = x
          PROVE  Holds(list, x) /\ x # d
      BY <2>1, <2>3, <2>7, <3>1 DEF Holds, Distinct
    <3>2. ASSUME NEW i \in 1..n, list[i] = x, x # d
          PROVE  Holds(rest, x)
      <4>1. CASE i < first
        BY <2>1, <2>3, <2>7, <3>2, <4>1 DEF Holds
      <4>2. CASE i > first
        <5>1. i - 1 \in 1..(n - 1) /\ ~(i - 1 < first) /\ i - 1 + 1 = i
          BY <2>1, <2>3, <3>2, <4>2
        <5> QED
          BY <2>7, <3>2, <5>1 DEF Holds
      <4>3. i # first
        BY <2>3, <3>2
      <4> QED
        BY <2>3, <4>1, <4>2, <4>3
    <3> QED
      BY <2>1, <2>7, <3>1, <3>2 DEF Holds
  <2> QED
    BY <2>4, <2>8, <2>9
<1> QED
  BY <1>1, <1>2

\* append(d.subs[token], sub) of a connection that is not in the list.
LEMMA AppendAddsOne ==
    ASSUME NEW list \in Seq(Dashboards), Distinct(list), NEW d \in Dashboards, ~Holds(list, d)
    PROVE  /\ Distinct(Append(list, d))
           /\ \A x : Holds(Append(list, d), x) <=> Holds(list, x) \/ x = d
<1> DEFINE more == Append(list, d)
           n == Len(list)
<1>1. n \in Nat /\ DOMAIN list = 1..n
  BY LenProperties
<1>2. /\ DOMAIN more = 1..(n + 1)
      /\ \A i \in 1..n : more[i] = list[i]
      /\ more[n + 1] = d
  BY AppendProperties, LenProperties
<1> HIDE DEF more, n
<1>3. \A i \in 1..(n + 1) : i \in 1..n \/ i = n + 1
  BY <1>1
<1>4. 1..n \subseteq 1..(n + 1) /\ n + 1 \in 1..(n + 1)
  BY <1>1
<1>5. Distinct(more) /\ \A x : Holds(more, x) <=> Holds(list, x) \/ x = d
  BY <1>1, <1>2, <1>3, <1>4 DEF Distinct, Holds
<1> QED
  BY <1>5 DEF more

-----------------------------------------------------------------------------
(***************************************************************************)
(* The subscriber lists.                                                   *)
(***************************************************************************)
Listening(d) == conn[d] \in {"streaming", "leaving"}
SubsInv ==
    \A t \in Tokens :
        /\ Distinct(subs[t])
        /\ \A d \in Dashboards : Holds(subs[t], d) <=> Watches[d] = t /\ Listening(d)

LEMMA InitSubsInv == Init => SubsInv
BY DEF Init, SubsInv, Listening, Distinct, Holds

LEMMA RegisterSubsInv ==
    ASSUME TypeOK, SubsInv, NEW d \in Dashboards, Register(d)
    PROVE  SubsInv'
<1> DEFINE w == Watches[d]
<1>1. w \in Tokens
  BY DiagAssumption
<1>2. conn[d] = "snapshotted" /\ conn' = [conn EXCEPT ![d] = "streaming"]
  BY DEF Register, Goto
<1>3. /\ subs'[w] = Append(subs[w], d)
      /\ \A t \in Tokens : t # w => subs'[t] = subs[t]
  BY <1>1 DEF Register, TypeOK
<1>4. /\ Listening(d)' /\ ~Listening(d)
      /\ \A x \in Dashboards : x # d => (Listening(x)' <=> Listening(x))
  BY <1>2 DEF Listening, TypeOK
<1> HIDE DEF w
<1>5. subs[w] \in Seq(Dashboards) /\ Distinct(subs[w]) /\ ~Holds(subs[w], d)
  BY <1>1, <1>4 DEF SubsInv, TypeOK
<1>6. /\ Distinct(subs'[w])
      /\ \A x : Holds(subs'[w], x) <=> Holds(subs[w], x) \/ x = d
  BY <1>3, <1>5, AppendAddsOne
<1>7. Watches[d] = w
  BY DEF w
<1>8. Distinct(subs'[w]) /\ \A x \in Dashboards :
                              Holds(subs'[w], x) <=> Watches[x] = w /\ Listening(x)'
  BY <1>1, <1>4, <1>6, <1>7 DEF SubsInv
<1>9. ASSUME NEW t \in Tokens, t # w
      PROVE  Distinct(subs'[t]) /\ \A x \in Dashboards :
                                  Holds(subs'[t], x) <=> Watches[x] = t /\ Listening(x)'
  BY <1>3, <1>4, <1>7, <1>9 DEF SubsInv
<1> QED
  BY <1>1, <1>8, <1>9 DEF SubsInv

LEMMA UnregisterSubsInv ==
    ASSUME TypeOK, SubsInv, NEW d \in Dashboards, Unregister(d)
    PROVE  SubsInv'
<1> DEFINE w == Watches[d]
<1>1. w \in Tokens
  BY DiagAssumption
<1>2. conn[d] = "leaving" /\ conn' = [conn EXCEPT ![d] = "unregistered"]
  BY DEF Unregister, Goto
<1>3. /\ subs'[w] = Without(subs[w], d)
      /\ \A t \in Tokens : t # w => subs'[t] = subs[t]
  BY <1>1 DEF Unregister, TypeOK
<1>4. /\ ~Listening(d)'
      /\ \A x \in Dashboards : x # d => (Listening(x)' <=> Listening(x))
  BY <1>2 DEF Listening, TypeOK
<1> HIDE DEF w
<1>5. subs[w] \in Seq(Dashboards) /\ Distinct(subs[w])
  BY <1>1 DEF SubsInv, TypeOK
<1>6. /\ Distinct(subs'[w])
      /\ \A x : Holds(subs'[w], x) <=> Holds(subs[w], x) /\ x # d
  BY <1>3, <1>5, WithoutRemovesOne
<1>7. Watches[d] = w
  BY DEF w
<1>8. Distinct(subs'[w]) /\ \A x \in Dashboards :
                              Holds(subs'[w], x) <=> Watches[x] = w /\ Listening(x)'
  BY <1>1, <1>4, <1>6, <1>7 DEF SubsInv
<1>9. ASSUME NEW t \in Tokens, t # w
      PROVE  Distinct(subs'[t]) /\ \A x \in Dashboards :
                                  Holds(subs'[t], x) <=> Watches[x] = t /\ Listening(x)'
  BY <1>3, <1>4, <1>7, <1>9 DEF SubsInv
<1> QED
  BY <1>1, <1>8, <1>9 DEF SubsInv

LEMMA StepSubsInv == TypeOK /\ SubsInv /\ [Next]_vars => SubsInv'
<1> SUFFICES ASSUME TypeOK, SubsInv, [Next]_vars
             PROVE  SubsInv'
  OBVIOUS
<1>1. CASE subs' = subs /\ \A d \in Dashboards : Listening(d)' <=> Listening(d)
  BY <1>1 DEF SubsInv
<1>2. CASE UNCHANGED <<subs, conn>>
  BY <1>1, <1>2 DEF Listening
<1>3. ASSUME NEW d \in Dashboards,
             TakeSnapshot(d) \/ Register(d) \/ Stream(d) \/ Leave(d)
      PROVE  SubsInv'
  <2>1. CASE TakeSnapshot(d)
    BY <1>1, <2>1 DEF TakeSnapshot, Goto, Listening, TypeOK
  <2>2. CASE WriteUpdate(d)
    BY <1>2, <2>2 DEF WriteUpdate
  <2>3. CASE WriteFails(d)
    BY <1>1, <2>3 DEF WriteFails, Goto, Listening, TypeOK
  <2>4. CASE CloseChannel(d)
    BY <1>1, <2>4 DEF CloseChannel, Goto, Listening, TypeOK
  <2> QED
    BY <1>3, <2>1, <2>2, <2>3, <2>4, RegisterSubsInv, UnregisterSubsInv DEF Stream, Leave
<1>4. CASE \E h \in Handlers, t \in Tokens, c \in Clients :
               Record(h, t, c) \/ AppendRelated(h, t, c)
  BY <1>2, <1>4 DEF Record, AppendRelated, feedVars
<1>5. CASE \E h \in Handlers : Broadcast(h)
  BY <1>2, <1>5 DEF Broadcast, CopySubs, Send, SendPanics, feedVars
<1>6. CASE Tick \/ UNCHANGED vars
  BY <1>2, <1>6 DEF Tick, feedVars, vars
<1> QED
  BY <1>3, <1>4, <1>5, <1>6 DEF Next

LEMMA SubsInvariant == Spec => []SubsInv
BY InitTypeOK, StepTypeOK, InitSubsInv, StepSubsInv, PTL DEF Spec

\* A connection is in the list of the token it watches, once, from its Register to
\* its Unregister, and in no other list: unsubscribe takes out its own entry and
\* nobody else's, in whatever order connections come and go.
THEOREM ListsHoldTheLive == Spec => []SubscribersAreLive
<1>1. ASSUME TypeOK, SubsInv
      PROVE  SubscribersAreLive
  <2>1. ASSUME NEW t \in Tokens, NEW d \in Dashboards
        PROVE  Cardinality({i \in DOMAIN subs[t] : subs[t][i] = d})
                  = IF Watches[d] = t /\ Listening(d) THEN 1 ELSE 0
    <3> DEFINE at == {i \in DOMAIN subs[t] : subs[t][i] = d}
    <3>1. CASE Watches[d] = t /\ Listening(d)
      <4>1. PICK i \in DOMAIN subs[t] : subs[t][i] = d
        BY <3>1, <1>1 DEF SubsInv, Holds
      <4>2. at = {i}
        BY <4>1, <1>1 DEF SubsInv, Distinct
      <4> HIDE DEF at
      <4>3. Cardinality(at) = 1
        BY <4>2, FS_Singleton
      <4> QED
        BY <3>1, <4>3 DEF at
    <3>2. CASE ~(Watches[d] = t /\ Listening(d))
      <4>1. at = {}
        BY <3>2, <1>1 DEF SubsInv, Holds
      <4> HIDE DEF at
      <4>2. Cardinality(at) = 0
        BY <4>1, FS_EmptySet
      <4> QED
        BY <3>2, <4>2 DEF at
    <3> QED
      BY <3>1, <3>2
  <2> QED
    BY <2>1 DEF SubscribersAreLive, Listening
<1> QED
  BY <1>1, TypeCorrect, SubsInvariant, PTL

-----------------------------------------------------------------------------
(***************************************************************************)
(* What a registered connection sees.  RegisteredSeesAll is not inductive  *)
(* alone: a broadcast that ends without reaching a connection must be one  *)
(* for another token, so its event must not be among this token's, and an  *)
(* event number must not be used twice.                                    *)
(***************************************************************************)
EventsNumbered == \A t \in Tokens : \A id \in EventsOf(t) : id < nextId
JobsOwn ==
    \A h \in Handlers : pc[h] # "idle" =>
        /\ job[h].upd.event < nextId
        /\ \A t \in Tokens : t # job[h].token => job[h].upd.event \notin EventsOf(t)
FeedInv == EventsNumbered /\ JobsOwn /\ RegisteredSeesAll

LEMMA InitFeedInv == Init => FeedInv
<1> SUFFICES ASSUME Init PROVE FeedInv
  OBVIOUS
<1>1. \A t \in Tokens : EventsOf(t) = {}
  BY DEF Init, EventsOf
<1>2. \A h \in Handlers : pc[h] = "idle"
  BY DEF Init
<1>3. \A d \in Dashboards : conn[d] # "streaming"
  BY DEF Init
<1> QED
  BY <1>1, <1>2, <1>3 DEF FeedInv, EventsNumbered, JobsOwn, RegisteredSeesAll

\* Membership in the sets the feed is about.
LEMMA InEvents ==
    \A S : \A id : id \in UNION {{r.id} \cup {e.id : e \in r.related} : r \in S}
                    <=> \E r \in S : id = r.id \/ \E e \in r.related : id = e.id
OBVIOUS

LEMMA InSeen ==
    \A d, id : id \in Seen(d) <=> \/ id \in snapshot[d] \/ id \in shown[d] \/ id \in missed[d]
                                 \/ \E i \in DOMAIN ch[d] : ch[d][i].event = id
BY DEF Seen

\* Storing an event adds its number to the token's and takes others away only.
LEMMA StoringAddsOne ==
    ASSUME TypeOK, NEW h \in Handlers, NEW t \in Tokens, NEW c \in Clients,
           Record(h, t, c) \/ AppendRelated(h, t, c)
    PROVE  \A u \in Tokens : \A id \in EventsOf(u)' : id \in EventsOf(u) \/ (u = t /\ id = nextId)
<1>1. CASE Record(h, t, c)
  <2> DEFINE rec == [id |-> nextId, client |-> c, ts |-> Stamp(now), related |-> {}]
  <2>1. rec.id = nextId /\ rec.related = {}
    OBVIOUS
  <2>2. byToken' = [byToken EXCEPT ![t] = Evicted(Pruned(t)) \cup {rec}]
    BY <1>1 DEF Record
  <2> HIDE DEF rec
  <2>3. Evicted(Pruned(t)) \subseteq byToken[t]
    BY DEF Evicted, Pruned
  <2>4. \A u \in Tokens : \A r \in byToken'[u] : r \in byToken[u] \/ (u = t /\ r = rec)
    BY <2>2, <2>3 DEF TypeOK
  <2> QED
    BY <2>1, <2>4, InEvents DEF EventsOf
<1>2. CASE AppendRelated(h, t, c)
  <2> DEFINE e == [id |-> nextId, client |-> c, ts |-> Stamp(now)]
  <2>1. PICK best \in Candidates(t, c) :
           byToken' = [byToken EXCEPT ![t] =
                         (@ \ {best}) \cup {[best EXCEPT !.related = @ \cup {e}]}]
    BY <1>2 DEF AppendRelated
  <2> DEFINE upd == [best EXCEPT !.related = @ \cup {e}]
  <2>2. best \in byToken[t] /\ best \in DiagRecord
    BY DEF Candidates, TypeOK
  <2>3. upd.id = best.id /\ upd.related = best.related \cup {e} /\ e.id = nextId
    BY <2>2 DEF DiagRecord
  <2> HIDE DEF e, upd
  <2>4. \A u \in Tokens : \A r \in byToken'[u] : r \in byToken[u] \/ (u = t /\ r = upd)
    BY <2>1 DEF TypeOK, upd
  <2>5. \A id : (id = upd.id \/ \E x \in upd.related : id = x.id)
                 => id = best.id \/ (\E x \in best.related : id = x.id) \/ id = nextId
    BY <2>3
  <2>6. ASSUME NEW u \in Tokens, NEW id \in EventsOf(u)'
        PROVE  id \in EventsOf(u) \/ (u = t /\ id = nextId)
    <3>1. PICK r \in byToken'[u] : id = r.id \/ \E x \in r.related : id = x.id
      BY <2>6, InEvents DEF EventsOf
    <3> QED
      BY <2>2, <2>4, <2>5, <3>1, InEvents DEF EventsOf
  <2> QED
    BY <2>6
<1> QED
  BY <1>1, <1>2

LEMMA StoreFeedInv ==
    ASSUME TypeOK, FeedInv, NEW h \in Handlers, NEW t \in Tokens, NEW c \in Clients,
           Record(h, t, c) \/ AppendRelated(h, t, c)
    PROVE  FeedInv'
<1>1. PICK kind, r :
         StartBroadcast(h, t, kind, r) /\ pc[h] = "idle" /\ UNCHANGED <<targets, feedVars>>
  BY Zenon DEF Record, AppendRelated
<1>2. /\ pc' = [pc EXCEPT ![h] = "stored"] /\ nextId' = nextId + 1
      /\ job'[h].token = t /\ job'[h].upd.event = nextId
      /\ \A g \in Handlers : g # h => job'[g] = job[g] /\ pc'[g] = pc[g]
      /\ pc'[h] = "stored"
  BY <1>1 DEF StartBroadcast, TypeOK, HandlersOK
<1>3. nextId \in Int /\ \A u \in Tokens : \A id \in EventsOf(u) : id \in Int /\ id < nextId
  <2>1. \A u \in Tokens : EventsOf(u) \subseteq Int
    BY DEF EventsOf, TypeOK, DiagRecord, Event, Ids
  <2> QED
    BY <2>1 DEF TypeOK, FeedInv, EventsNumbered
<1>4. \A u \in Tokens : \A id \in EventsOf(u)' : id \in EventsOf(u) \/ (u = t /\ id = nextId)
  BY StoringAddsOne
<1>5. EventsNumbered'
  BY <1>2, <1>3, <1>4 DEF EventsNumbered
<1>6. JobsOwn'
  <2>1. ASSUME NEW g \in Handlers, pc'[g] # "idle", g # h
        PROVE  /\ job'[g].upd.event < nextId'
               /\ \A u \in Tokens : u # job'[g].token => job'[g].upd.event \notin EventsOf(u)'
    <3>1. /\ job[g].upd.event < nextId
          /\ \A u \in Tokens : u # job[g].token => job[g].upd.event \notin EventsOf(u)
      BY <1>2, <2>1 DEF FeedInv, JobsOwn
    <3>2. job[g].upd.event \in Int
      BY <1>2, <2>1 DEF TypeOK, HandlersOK, Job, Update, Ids
    <3> QED
      BY <1>2, <1>3, <1>4, <2>1, <3>1, <3>2
  <2>2. /\ job'[h].upd.event < nextId'
        /\ \A u \in Tokens : u # job'[h].token => job'[h].upd.event \notin EventsOf(u)'
    BY <1>2, <1>3, <1>4
  <2> QED
    BY <2>1, <2>2 DEF JobsOwn
<1>7. RegisteredSeesAll'
  <2>1. ASSUME NEW d \in Dashboards, conn'[d] = "streaming",
               NEW id \in EventsOf(Watches[d])', id >= since'[d]
        PROVE  id \in Seen(d)' \/ InFlight(id, d)'
    <3>1. /\ conn' = conn /\ since' = since /\ targets' = targets
          /\ \A x : Seen(x)' = Seen(x)
      BY <1>1 DEF feedVars, Seen
    <3>2. Watches[d] \in Tokens
      BY DiagAssumption
    <3>3. CASE id = nextId
      BY <1>2, <3>3 DEF InFlight
    <3>4. CASE id \in EventsOf(Watches[d])
      <4>1. CASE id \in Seen(d)
        BY <3>1, <4>1
      <4>2. CASE InFlight(id, d)
        <5>1. PICK g \in Handlers :
                 /\ pc[g] # "idle" /\ job[g].upd.event = id
                 /\ pc[g] = "sending" => \E i \in DOMAIN targets[g] : targets[g][i] = d
          BY <4>2 DEF InFlight
        <5>2. g # h
          BY <1>1, <5>1
        <5> QED
          BY <1>2, <3>1, <5>1, <5>2 DEF InFlight
      <4> QED
        BY <2>1, <3>1, <3>4, <4>1, <4>2 DEF FeedInv, RegisteredSeesAll
    <3> QED
      BY <1>4, <2>1, <3>2, <3>3, <3>4
  <2> QED
    BY <2>1 DEF RegisteredSeesAll
<1> QED
  BY <1>5, <1>6, <1>7 DEF FeedInv

\* A step of a broadcast: whoever was still to be reached and is not any more has
\* the event in its queue or among the missed.
LEMMA BroadcastFeedInv ==
    ASSUME TypeOK, SubsInv, FeedInv, NEW h \in Handlers, Broadcast(h)
    PROVE  FeedInv'
<1>1. /\ UNCHANGED <<nextId, byToken, conn, since, subs, snapshot, shown>>
      /\ \A g \in Handlers : g # h => pc'[g] = pc[g] /\ job'[g] = job[g] /\ targets'[g] = targets[g]
      /\ pc'[h] # "idle" => job'[h] = job[h]
      /\ pc[h] # "idle"
  BY DEF Broadcast, CopySubs, Send, SendPanics, Sent, EndBroadcast, storeVars, feedVars,
         TypeOK, HandlersOK
<1>2. \A t \in Tokens : EventsOf(t)' = EventsOf(t)
  BY <1>1 DEF EventsOf
<1>3. EventsNumbered'
  BY <1>1, <1>2 DEF FeedInv, EventsNumbered
<1>4. JobsOwn'
  <2>1. \A g \in Handlers : pc'[g] # "idle" => pc[g] # "idle" /\ job'[g] = job[g]
    BY <1>1
  <2> QED
    BY <1>1, <1>2, <2>1 DEF FeedInv, JobsOwn
<1>5. ASSUME NEW d \in Dashboards, conn[d] = "streaming",
             NEW id \in EventsOf(Watches[d]), id = job[h].upd.event,
             pc[h] = "sending" => Holds(targets[h], d)
      PROVE  \/ id \in missed'[d] \/ (\E i \in DOMAIN ch'[d] : ch'[d][i].event = id)
             \/ (pc'[h] # "idle" /\ (pc'[h] = "sending" => Holds(targets'[h], d)))
  <2>1. Watches[d] = job[h].token
    BY <1>1, <1>5, DiagAssumption DEF FeedInv, JobsOwn
  <2>2. CASE CopySubs(h)
    <3>1. Holds(subs[job[h].token], d)
      BY <1>5, <2>1, DiagAssumption DEF SubsInv, Listening
    <3>2. pc'[h] = "sending" /\ targets'[h] = subs[job[h].token]
      BY <2>2, <3>1 DEF CopySubs, Holds, TypeOK, HandlersOK
    <3> QED
      BY <3>1, <3>2
  <2>3. CASE Send(h)
    <3> DEFINE list == targets[h]
               u == job[h].upd
    <3>1. /\ list \in Seq(Dashboards) /\ list # <<>> /\ Holds(list, d) /\ u \in Update
      BY <1>5, <2>3 DEF Send, TypeOK, HandlersOK, Job
    <3>2. DOMAIN list = 1..Len(list) /\ Len(list) \in Nat \ {0} /\ Head(list) = list[1]
      BY <3>1, LenProperties, EmptySeq
    <3>3. /\ Tail(list) \in Seq(Dashboards) /\ Len(Tail(list)) = Len(list) - 1
          /\ \A i \in 1..Len(Tail(list)) : Tail(list)[i] = list[i + 1]
          /\ DOMAIN Tail(list) = 1..Len(Tail(list))
      BY <3>1, HeadTailProperties, LenProperties
    <3>4. CASE Head(list) = d
      <4>1. \/ ch' = [ch EXCEPT ![d] = Append(@, u)]
            \/ missed' = [missed EXCEPT ![d] = @ \cup {u.event}]
        BY <2>3, <3>4, Zenon DEF Send
      <4>2. CASE ch' = [ch EXCEPT ![d] = Append(@, u)]
        <5>1. ch[d] \in Seq(Update) /\ Len(ch[d]) \in Nat
          BY LenProperties DEF TypeOK
        <5>2. /\ DOMAIN Append(ch[d], u) = 1..(Len(ch[d]) + 1)
              /\ Append(ch[d], u)[Len(ch[d]) + 1] = u
          BY <3>1, <5>1, AppendProperties, LenProperties
        <5>3. Len(ch[d]) + 1 \in 1..(Len(ch[d]) + 1)
          BY <5>1
        <5>4. ch'[d] = Append(ch[d], u)
          BY <4>2 DEF TypeOK
        <5> QED
          BY <1>5, <5>2, <5>3, <5>4
      <4>3. CASE missed' = [missed EXCEPT ![d] = @ \cup {u.event}]
        BY <1>5, <4>3 DEF TypeOK
      <4> QED
        BY <4>1, <4>2, <4>3
    <3>5. CASE Head(list) # d
      <4>1. PICK i \in 1..Len(list) : list[i] = d /\ i # 1
        BY <3>1, <3>2, <3>5 DEF Holds
      <4>2. Len(list) # 1 /\ i - 1 \in 1..Len(Tail(list)) /\ Tail(list)[i - 1] = d
        BY <3>2, <3>3, <4>1
      <4>3. targets' = [targets EXCEPT ![h] = Tail(list)] /\ pc' = pc
        BY <2>3, <4>2 DEF Send, Sent
      <4>4. Holds(Tail(list), d)
        BY <3>3, <4>2 DEF Holds
      <4>5. targets'[h] = Tail(list)
        BY <4>3 DEF TypeOK, HandlersOK
      <4> QED
        BY <1>1, <4>3, <4>4, <4>5
    <3> QED
      BY <3>4, <3>5
  <2>4. CASE SendPanics(h)
    <3>1. CASE h \in DoHHandlers
      <4>1. Holds(targets[h], d)
        BY <1>5, <2>4 DEF SendPanics
      <4>2. missed'[d] = IF \E i \in DOMAIN targets[h] : targets[h][i] = d
                         THEN missed[d] \cup {job[h].upd.event} ELSE missed[d]
        BY <2>4, <3>1 DEF SendPanics
      <4> QED
        BY <1>5, <4>1, <4>2 DEF Holds
    <3>2. CASE h \notin DoHHandlers
      <4>1. pc' = pc /\ targets' = targets
        BY <2>4, <3>2 DEF SendPanics
      <4> QED
        BY <1>1, <1>5, <4>1
    <3> QED
      BY <3>1, <3>2
  <2> QED
    BY <2>2, <2>3, <2>4 DEF Broadcast
<1>6. \A d \in Dashboards : \A id : id \in Seen(d) => id \in Seen(d)'
  <2>1. \A d \in Dashboards :
           /\ missed[d] \subseteq missed'[d]
           /\ \A i \in DOMAIN ch[d] : i \in DOMAIN ch'[d] /\ ch'[d][i] = ch[d][i]
    <3>1. CASE CopySubs(h)
      BY <3>1 DEF CopySubs, feedVars
    <3>2. CASE Send(h)
      <4> DEFINE x == Head(targets[h])
                 u == job[h].upd
      <4>1. u \in Update
        BY <3>2 DEF Send, TypeOK, HandlersOK, Job
      <4>2. \/ ch' = [ch EXCEPT ![x] = Append(@, u)] /\ missed' = missed
            \/ missed' = [missed EXCEPT ![x] = @ \cup {u.event}] /\ ch' = ch
        BY <3>2, Zenon DEF Send
      <4> HIDE DEF x, u
      <4>3. ASSUME NEW d \in Dashboards
            PROVE  \A i \in DOMAIN ch[d] :
                      i \in DOMAIN Append(ch[d], u) /\ Append(ch[d], u)[i] = ch[d][i]
        <5>1. ch[d] \in Seq(Update)
          BY DEF TypeOK
        <5>2. /\ DOMAIN ch[d] = 1..Len(ch[d]) /\ Len(ch[d]) \in Nat
              /\ DOMAIN Append(ch[d], u) = 1..(Len(ch[d]) + 1)
              /\ \A i \in 1..Len(ch[d]) : Append(ch[d], u)[i] = ch[d][i]
          BY <4>1, <5>1, AppendProperties, LenProperties
        <5> QED
          BY <5>2
      <4>4. CASE ch' = [ch EXCEPT ![x] = Append(@, u)] /\ missed' = missed
        <5>1. \A d \in Dashboards : ch'[d] = IF d = x THEN Append(ch[d], u) ELSE ch[d]
          BY <4>4 DEF TypeOK
        <5> QED
          BY <4>3, <4>4, <5>1
      <4>5. CASE missed' = [missed EXCEPT ![x] = @ \cup {u.event}] /\ ch' = ch
        BY <4>5 DEF TypeOK
      <4> QED
        BY <4>2, <4>4, <4>5
    <3>3. CASE SendPanics(h)
      BY <3>3 DEF SendPanics
    <3> QED
      BY <3>1, <3>2, <3>3 DEF Broadcast
  <2> QED
    BY <1>1, <2>1 DEF Seen
<1>7. RegisteredSeesAll'
  <2>1. ASSUME NEW d \in Dashboards, conn[d] = "streaming",
               NEW id \in EventsOf(Watches[d]), id >= since[d]
        PROVE  id \in Seen(d)' \/ InFlight(id, d)'
    <3>1. CASE id \in Seen(d)
      BY <1>6, <3>1
    <3>2. CASE InFlight(id, d)
      <4>1. PICK g \in Handlers :
               /\ pc[g] # "idle" /\ job[g].upd.event = id
               /\ pc[g] = "sending" => Holds(targets[g], d)
        BY <3>2 DEF InFlight, Holds
      <4>2. CASE g # h
        BY <1>1, <4>1, <4>2 DEF InFlight, Holds
      <4>3. CASE g = h
        BY <1>1, <1>5, <2>1, <4>1, <4>3 DEF InFlight, Holds, Seen
      <4> QED
        BY <4>2, <4>3
    <3> QED
      BY <2>1, <3>1, <3>2 DEF FeedInv, RegisteredSeesAll
  <2>2. \A d \in Dashboards : Watches[d] \in Tokens
    BY DiagAssumption
  <2> QED
    BY <1>1, <1>2, <2>1, <2>2 DEF RegisteredSeesAll
<1> QED
  BY <1>3, <1>4, <1>7 DEF FeedInv

\* A step of a connection: only Register makes it one that is owed events, and then
\* every event stored so far has a smaller number.
LEMMA ConnectionFeedInv ==
    ASSUME TypeOK, FeedInv, NEW d \in Dashboards,
           TakeSnapshot(d) \/ Register(d) \/ Stream(d) \/ Leave(d)
    PROVE  FeedInv'
<1>1. /\ UNCHANGED <<nextId, byToken, pc, job, targets>>
      /\ \A x \in Dashboards : x # d => /\ conn'[x] = conn[x] /\ since'[x] = since[x]
                                       /\ snapshot'[x] = snapshot[x] /\ shown'[x] = shown[x]
                                       /\ missed'[x] = missed[x] /\ ch'[x] = ch[x]
  BY DEF TakeSnapshot, Register, Stream, WriteUpdate, WriteFails, Leave, Unregister,
         CloseChannel, Goto, storeVars, TypeOK
<1>2. \A t \in Tokens : EventsOf(t)' = EventsOf(t)
  BY <1>1 DEF EventsOf
<1>3. EventsNumbered' /\ JobsOwn'
  BY <1>1, <1>2 DEF FeedInv, EventsNumbered, JobsOwn
<1>4. ASSUME NEW x \in Dashboards, conn'[x] = "streaming",
             NEW id \in EventsOf(Watches[x]), id >= since'[x]
      PROVE  id \in Seen(x)' \/ InFlight(id, x)'
  <2>1. CASE x # d
    BY <1>1, <1>4, <2>1 DEF FeedInv, RegisteredSeesAll, Seen, InFlight
  <2>2. CASE x = d /\ Register(d)
    <3>1. since'[x] = nextId /\ nextId \in Int
      BY <2>2 DEF Register, TypeOK
    <3>2. id < nextId /\ id \in Int
      <4>1. EventsOf(Watches[x]) \subseteq Int
        BY DiagAssumption DEF EventsOf, TypeOK, DiagRecord, Event, Ids
      <4> QED
        BY <1>4, <4>1, DiagAssumption DEF FeedInv, EventsNumbered
    <3> QED
      BY <1>4, <3>1, <3>2
  <2>3. CASE x = d /\ WriteUpdate(d)
    <3> DEFINE list == ch[d]
    <3>1. list \in Seq(Update) /\ list # <<>>
      BY <2>3 DEF WriteUpdate, TypeOK
    <3>2. /\ DOMAIN list = 1..Len(list) /\ Len(list) \in Nat \ {0} /\ Head(list) = list[1]
          /\ DOMAIN Tail(list) = 1..(Len(list) - 1)
          /\ \A i \in 1..(Len(list) - 1) : Tail(list)[i] = list[i + 1]
      BY <3>1, LenProperties, EmptySeq, HeadTailProperties
    <3>3. /\ ch'[d] = Tail(list) /\ shown'[d] = shown[d] \cup {list[1].event}
          /\ snapshot' = snapshot /\ missed' = missed /\ conn' = conn /\ since' = since
      BY <2>3, <3>2 DEF WriteUpdate, TypeOK
    <3>4. ASSUME NEW i \in DOMAIN list
          PROVE  list[i].event \in shown'[d] \/ \E j \in DOMAIN ch'[d] : ch'[d][j] = list[i]
      <4>1. CASE i = 1
        BY <3>3, <4>1
      <4>2. CASE i # 1
        <5>1. i - 1 \in 1..(Len(list) - 1) /\ Tail(list)[i - 1] = list[i]
          BY <3>2, <4>2
        <5> QED
          BY <3>2, <3>3, <5>1
      <4> QED
        BY <4>1, <4>2
    <3>5. id \in Seen(d) => id \in Seen(d)'
      <4> HIDE DEF list
      <4>1. list = ch[d]
        BY DEF list
      <4> QED
        BY <3>3, <3>4, <4>1 DEF Seen
    <3> QED
      BY <1>1, <1>4, <2>3, <3>3, <3>5 DEF FeedInv, RegisteredSeesAll, InFlight
  <2>4. CASE x = d /\ ~Register(d) /\ ~WriteUpdate(d)
    BY <1>4, <2>4 DEF TakeSnapshot, Stream, WriteFails, Leave, Unregister, CloseChannel,
                      Goto, TypeOK
  <2> QED
    BY <2>1, <2>2, <2>3, <2>4
<1>5. \A x \in Dashboards : Watches[x] \in Tokens
  BY DiagAssumption
<1>6. RegisteredSeesAll'
  BY <1>2, <1>4, <1>5 DEF RegisteredSeesAll
<1> QED
  BY <1>3, <1>6 DEF FeedInv

LEMMA StepFeedInv == TypeOK /\ SubsInv /\ FeedInv /\ [Next]_vars => FeedInv'
<1> SUFFICES ASSUME TypeOK, SubsInv, FeedInv, [Next]_vars
             PROVE  FeedInv'
  OBVIOUS
<1>1. CASE UNCHANGED <<nextId, byToken, pc, job, targets, feedVars>>
  BY <1>1 DEF feedVars, FeedInv, EventsNumbered, JobsOwn, RegisteredSeesAll, EventsOf, Seen,
              InFlight
<1>2. CASE Tick \/ UNCHANGED vars
  BY <1>1, <1>2 DEF Tick, vars, storeVars, feedVars
<1> QED
  BY <1>2, StoreFeedInv, BroadcastFeedInv, ConnectionFeedInv DEF Next

LEMMA FeedInvariant == Spec => []FeedInv
BY InitTypeOK, StepTypeOK, InitSubsInv, StepSubsInv, InitFeedInv, StepFeedInv, PTL DEF Spec

\* Once registered, a connection misses no event without a reason: whatever is stored
\* from then on is on its page, in its queue or on its way, or was counted as missed.
\* So broadcast's copy of the list, taken after the store's lock is released, is
\* never too old for a connection that was there when the event was stored.
THEOREM NoSilentLoss == Spec => []RegisteredSeesAll
<1>1. FeedInv => RegisteredSeesAll
  BY DEF FeedInv
<1> QED
  BY <1>1, FeedInvariant, PTL

-----------------------------------------------------------------------------
(***************************************************************************)
(* DiagStore implements RetainedLog: under view <- [t |-> Pruned(t)] the   *)
(* empty store is the empty log, Record is Append, AppendRelated is Attach *)
(* or invisible, Tick is Tick, and nothing else shows.  The proof is for   *)
(* every cap, retention, window and resolution; no relation between them   *)
(* is assumed.                                                             *)
(***************************************************************************)

-----------------------------------------------------------------------------
(***************************************************************************)
(* Eviction one by one.                                                    *)
(***************************************************************************)
\* The INSTANCE of RetainedLog comes with a Cardinality of its own, the same.
LEMMA SameCardinality == \A S : Retained!Cardinality(S) = Cardinality(S)
BY DEF Retained!Cardinality, Cardinality

\* Of a set within the cap and a later record, the newest MaxPerToken are what is
\* left after evicting, and the record: if the set was full, its oldest member is
\* the only one with MaxPerToken later ones.
LEMMA EvictedIsNewest ==
    ASSUME NEW S, IsFiniteSet(S), Cardinality(S) <= MaxPerToken,
           \A r \in S : r.id \in Int /\ \A o \in S : o.id = r.id => o = r,
           NEW x, x.id \in Int, \A r \in S : r.id < x.id
    PROVE  Retained!Newest(S \cup {x}) = Evicted(S) \cup {x}
<1> DEFINE T == S \cup {x}
           later(r) == {o \in T : o.id > r.id}
<1>1. /\ Cardinality(S) \in Nat /\ MaxPerToken \in Nat \ {0}
      /\ x \notin S /\ IsFiniteSet(T) /\ Cardinality(T) = Cardinality(S) + 1
  <2>1. x \notin S
    OBVIOUS
  <2> QED
    BY <2>1, FS_CardinalityType, FS_AddElement, DiagAssumption
<1> HIDE DEF T
<1>2. \A r : r \in T <=> r \in S \/ r = x
  BY DEF T
<1>3. Cardinality(later(x)) < MaxPerToken
  <2>1. later(x) = {}
    BY <1>2
  <2> HIDE DEF later
  <2> QED
    BY <1>1, <2>1, FS_EmptySet
<1>4. ASSUME NEW r \in S
      PROVE  Cardinality(later(r)) <= Cardinality(S) /\ Cardinality(later(r)) \in Nat
  <2>1. r \in T
    BY <1>2
  <2>2. IsFiniteSet(T \ {r}) /\ Cardinality(T \ {r}) = Cardinality(S)
    <3>1. IsFiniteSet(T \ {r}) /\ Cardinality(T \ {r}) = Cardinality(T) - 1
      BY <1>1, <2>1, FS_RemoveElement
    <3> QED
      BY <1>1, <3>1
  <2>3. later(r) \subseteq T \ {r}
    BY <1>4
  <2> HIDE DEF later
  <2> QED
    BY <2>2, <2>3, FS_Subset, FS_CardinalityType
<1>5. Retained!Newest(T) = {r \in T : Cardinality(later(r)) < MaxPerToken}
  BY SameCardinality DEF Retained!Newest
<1> HIDE DEF later
<1>6. CASE Cardinality(S) < MaxPerToken
  <2>1. \A r \in T : Cardinality(later(r)) < MaxPerToken
    BY <1>1, <1>2, <1>3, <1>4, <1>6
  <2>2. Evicted(S) = S
    BY <1>1, <1>6 DEF Evicted
  <2> QED
    BY <1>5, <2>1, <2>2 DEF T
<1>7. CASE Cardinality(S) = MaxPerToken
  <2> DEFINE oldest == Oldest(S)
  <2>1. oldest \in S /\ \A r \in S : oldest.id <= r.id
    <3> DEFINE num == [r \in S |-> r.id]
    <3>1. S # {}
      BY <1>1, <1>7, FS_EmptySet
    <3>2. \E y \in S : \A r \in S : num[y] <= num[r]
      <4>1. num \in [S -> Int]
        OBVIOUS
      <4> HIDE DEF num
      <4> QED
        BY <3>1, <4>1, FiniteHasFirst
    <3> QED
      BY <3>2 DEF Oldest
  <2> HIDE DEF oldest
  <2>2. Evicted(S) = S \ {oldest}
    BY <1>1, <1>7 DEF Evicted, oldest
  <2>3. Cardinality(later(oldest)) = MaxPerToken
    <3>1. \A r \in S : r # oldest => r.id > oldest.id
      BY <2>1
    <3>2. later(oldest) = T \ {oldest}
      BY <1>2, <2>1, <3>1 DEF later
    <3>3. Cardinality(T \ {oldest}) = Cardinality(S)
      <4>1. Cardinality(T \ {oldest}) = Cardinality(T) - 1
        BY <1>1, <1>2, <2>1, FS_RemoveElement
      <4> QED
        BY <1>1, <4>1
    <3> QED
      BY <1>7, <3>2, <3>3
  <2>4. ASSUME NEW r \in S, r # oldest
        PROVE  Cardinality(later(r)) < MaxPerToken
    <3> DEFINE U == T \ {r}
    <3>1. IsFiniteSet(U) /\ Cardinality(U) = Cardinality(S) /\ oldest \in U
      BY <1>1, <1>2, <2>1, <2>4, FS_RemoveElement
    <3>2. later(r) \subseteq U \ {oldest}
      BY <2>1, <2>4 DEF later
    <3> HIDE DEF U
    <3>3. IsFiniteSet(U \ {oldest}) /\ Cardinality(U \ {oldest}) = Cardinality(S) - 1
      BY <3>1, FS_RemoveElement
    <3>4. Cardinality(later(r)) <= Cardinality(S) - 1
      BY <3>2, <3>3, FS_Subset
    <3> QED
      BY <1>1, <1>4, <1>7, <3>4
  <2>5. {r \in T : Cardinality(later(r)) < MaxPerToken} = (S \ {oldest}) \cup {x}
    <3>1. ASSUME NEW r \in T
          PROVE  Cardinality(later(r)) < MaxPerToken <=> r \in (S \ {oldest}) \cup {x}
      <4>1. CASE r = x
        BY <1>3, <4>1
      <4>2. CASE r = oldest
        BY <1>1, <2>1, <2>3, <4>2
      <4>3. CASE r # x /\ r # oldest
        BY <1>2, <2>4, <4>3
      <4> QED
        BY <4>1, <4>2, <4>3
    <3>2. (S \ {oldest}) \cup {x} \subseteq T
      BY <1>2
    <3> QED
      BY <3>1, <3>2
  <2> QED
    BY <1>5, <2>2, <2>5 DEF T
<1>8. Cardinality(S) < MaxPerToken \/ Cardinality(S) = MaxPerToken
  BY <1>1
<1> QED
  BY <1>6, <1>7, <1>8

-----------------------------------------------------------------------------
(***************************************************************************)
(* The refinement, step by step.                                           *)
(***************************************************************************)
View == [t \in Tokens |-> Pruned(t)]

\* A query that is recorded: Append.  What Record drops for its age no reader saw,
\* and the record it evicts is the one that falls out of the newest.
LEMMA RecordIsAppend ==
    ASSUME TypeOK, StoreInv, NEW h \in Handlers, NEW t \in Tokens, NEW c \in Clients,
           Record(h, t, c)
    PROVE  Retained!Append(t, c, nextId)
<1> DEFINE rec == [id |-> nextId, client |-> c, ts |-> Stamp(now), related |-> {}]
<1>1. /\ byToken' = [byToken EXCEPT ![t] = Evicted(Pruned(t)) \cup {rec}]
      /\ nextId' = nextId + 1 /\ now' = now
  BY DEF Record, StartBroadcast
<1>2. rec.id = nextId /\ rec = [id |-> nextId, client |-> c, ts |-> Retained!Stamp(now),
                                related |-> {}]
  BY DEF Stamp, Retained!Stamp
<1>3. /\ nextId \in Int
      /\ \A r \in Pruned(t) : /\ r.id \in Int /\ r.id < nextId
                              /\ \A o \in Pruned(t) : o.id = r.id => o = r
  BY DEF Pruned, StoreInv, Numbered, TypeOK, DiagRecord, Ids
<1>4. IsFiniteSet(Pruned(t)) /\ Cardinality(Pruned(t)) <= MaxPerToken
  <2>1. /\ Pruned(t) \in SUBSET byToken[t]
        /\ IsFiniteSet(byToken[t]) /\ Cardinality(byToken[t]) <= MaxPerToken
    BY DEF Pruned, StoreInv, Finite, ListsBounded
  <2>2. IsFiniteSet(Pruned(t)) /\ Cardinality(Pruned(t)) <= Cardinality(byToken[t])
    BY <2>1, FS_Subset
  <2>3. Cardinality(Pruned(t)) \in Nat /\ Cardinality(byToken[t]) \in Nat
    BY <2>1, <2>2, FS_CardinalityType
  <2> QED
    BY <2>1, <2>2, <2>3, DiagAssumption
<1> HIDE DEF rec
<1>5. Retained!Newest(Pruned(t) \cup {rec}) = Evicted(Pruned(t)) \cup {rec}
  BY <1>2, <1>3, <1>4, EvictedIsNewest
<1>6. View' = [View EXCEPT ![t] =
                 Retained!Fresh(Retained!Newest(@ \cup {rec}), now, Retention)]
  <2>1. \A u \in Tokens : u # t => Pruned(u)' = Pruned(u)
    BY <1>1 DEF Pruned, Within, TypeOK
  <2>2. Pruned(t)' = {r \in Evicted(Pruned(t)) \cup {rec} : r.ts >= now - Retention}
    BY <1>1 DEF Pruned, Within, TypeOK
  <2>3. Pruned(t)' = Retained!Fresh(Retained!Newest(Pruned(t) \cup {rec}), now, Retention)
    BY <1>5, <2>2 DEF Retained!Fresh
  <2> QED
    BY <2>1, <2>3 DEF View
<1>7. \A r \in View[t] : r.id < nextId
  BY <1>3 DEF View
<1> QED
  BY <1>1, <1>2, <1>6, <1>7, Zenon DEF Retained!Append, View

\* A related query: Attach, if readers still see the record it joins.  A record
\* that is too old to be seen takes it too, if RelatedWindow is the longer of the
\* two; then no record that is seen is a candidate, and nothing shows.
LEMMA RelatedIsAttach ==
    ASSUME TypeOK, StoreInv, NEW h \in Handlers, NEW t \in Tokens, NEW c \in Clients,
           AppendRelated(h, t, c)
    PROVE  Retained!Attach(t, c, nextId) \/ UNCHANGED <<now, View>>
<1> DEFINE e == [id |-> nextId, client |-> c, ts |-> Stamp(now)]
<1>1. PICK best \in Candidates(t, c) :
         LET upd == [best EXCEPT !.related = @ \cup {e}]
         IN  /\ IsBest(best, Candidates(t, c))
             /\ byToken' = [byToken EXCEPT ![t] = (@ \ {best}) \cup {upd}]
  BY DEF AppendRelated
<1> DEFINE upd == [best EXCEPT !.related = @ \cup {e}]
<1>2. best \in byToken[t] /\ best \in DiagRecord /\ best.id < nextId
  BY DEF Candidates, TypeOK, StoreInv, Numbered
<1>3. upd.ts = best.ts
  BY <1>2 DEF DiagRecord
<1>4. e = [id |-> nextId, client |-> c, ts |-> Retained!Stamp(now)]
  BY DEF Stamp, Retained!Stamp
<1> HIDE DEF e
<1>5. now' = now
  BY DEF AppendRelated
<1>6. /\ byToken'[t] = (byToken[t] \ {best}) \cup {upd}
      /\ \A u \in Tokens : u # t => byToken'[u] = byToken[u]
  BY <1>1 DEF TypeOK
<1> HIDE DEF upd
<1>7. \A u \in Tokens : u # t => Pruned(u)' = Pruned(u)
  BY <1>5, <1>6 DEF Pruned, Within
<1>8. CASE best \in Pruned(t)
  <2>1. Pruned(t)' = (Pruned(t) \ {best}) \cup {upd}
    BY <1>3, <1>5, <1>6, <1>8 DEF Pruned, Within
  <2>2. View' = [View EXCEPT ![t] = (@ \ {best}) \cup {upd}]
    BY <1>7, <2>1 DEF View
  <2> DEFINE seen == {r \in Retained!Fresh(View[t], now, RelatedWindow) : r.client = c}
  <2>3. seen \subseteq Candidates(t, c)
    BY DEF View, Retained!Fresh, Pruned, Within, Candidates
  <2>4. best \in seen
    BY <1>8 DEF View, Retained!Fresh, Pruned, Within, Candidates
  <2>5. \A o \in seen : o.ts < best.ts \/ (o.ts = best.ts /\ best.id <= o.id)
    <3> HIDE DEF seen
    <3> QED
      BY <1>1, <2>3 DEF IsBest
  <2>6. View' = [View EXCEPT ![t] = (@ \ {best}) \cup {[best EXCEPT !.related = @ \cup {e}]}]
    BY <2>2 DEF upd
  <2> HIDE DEF seen
  <2>7. \E r \in seen :
           /\ \A o \in seen : o.ts < r.ts \/ (o.ts = r.ts /\ r.id <= o.id)
           /\ r.id < nextId
           /\ View' = [View EXCEPT ![t] = (@ \ {r}) \cup {[r EXCEPT !.related = @ \cup {e}]}]
    BY <1>2, <2>4, <2>5, <2>6
  <2> QED
    BY <1>4, <1>5, <2>7, Zenon DEF Retained!Attach, View, seen
<1>9. CASE best \notin Pruned(t)
  <2>1. Pruned(t)' = Pruned(t)
    BY <1>2, <1>3, <1>5, <1>6, <1>9 DEF Pruned, Within
  <2> QED
    BY <1>5, <1>7, <2>1 DEF View
<1> QED
  BY <1>8, <1>9

\* Time: the log loses at once what the lists keep until they are next touched.
LEMMA TickIsTick ==
    ASSUME TypeOK, Tick
    PROVE  Retained!Tick
<1>1. now' = now + 1 /\ byToken' = byToken /\ now \in Int /\ Retention \in Int
  BY DiagAssumption DEF Tick, storeVars, TypeOK
<1>2. ASSUME NEW t \in Tokens
      PROVE  Pruned(t)' = Retained!Fresh(View[t], now', Retention)
  <2>1. \A r \in byToken[t] : r.ts \in Int
    BY DEF TypeOK, DiagRecord
  <2>2. \A r \in byToken[t] : r.ts >= now' - Retention => r.ts >= now - Retention
    BY <1>1, <2>1
  <2> QED
    BY <1>1, <2>2 DEF View, Pruned, Within, Retained!Fresh
<1>3. View' = [t \in Tokens |-> Retained!Fresh(View[t], now', Retention)]
  BY <1>2 DEF View
<1> QED
  BY <1>1, <1>3, Zenon DEF Retained!Tick, View

LEMMA StepImplementsLog ==
    ASSUME TypeOK, StoreInv, [Next]_vars
    PROVE  Retained!Next \/ UNCHANGED <<now, View>>
<1>1. ASSUME NEW h \in Handlers, NEW t \in Tokens, NEW c \in Clients, Record(h, t, c)
      PROVE  Retained!Next
  <2>1. nextId \in Ids
    BY <1>1 DEF Record
  <2> QED
    BY <1>1, <2>1, RecordIsAppend DEF Retained!Next
<1>2. ASSUME NEW h \in Handlers, NEW t \in Tokens, NEW c \in Clients, AppendRelated(h, t, c)
      PROVE  Retained!Next \/ UNCHANGED <<now, View>>
  <2>1. nextId \in Ids
    BY <1>2 DEF AppendRelated
  <2> QED
    BY <1>2, <2>1, RelatedIsAttach DEF Retained!Next
<1>3. CASE Tick
  BY <1>3, TickIsTick DEF Retained!Next
<1>4. CASE UNCHANGED <<now, byToken>>
  <2>1. \A t \in Tokens : Pruned(t)' = Pruned(t)
    BY <1>4 DEF Pruned, Within
  <2> QED
    BY <1>4, <2>1 DEF View
<1>5. CASE \E h \in Handlers : Broadcast(h)
  BY <1>4, <1>5 DEF Broadcast, CopySubs, Send, SendPanics, storeVars
<1>6. CASE \E d \in Dashboards : TakeSnapshot(d) \/ Register(d) \/ Stream(d) \/ Leave(d)
  BY <1>4, <1>6 DEF TakeSnapshot, Register, Stream, WriteUpdate, WriteFails, Leave,
                    Unregister, CloseChannel, storeVars
<1>7. CASE UNCHANGED vars
  BY <1>4, <1>7 DEF vars
<1> QED
  BY <1>1, <1>2, <1>3, <1>5, <1>6, <1>7 DEF Next

\* NewDiagStore's contract: whatever the store keeps, prunes and evicts, and whoever
\* reads or listens meanwhile, readers see the newest MaxPerToken of the queries
\* within the retention, with the related queries that belong to them.
THEOREM StoreImplementsLog == Spec => ImplementsLog
<1>1. Init => Retained!Init
  BY DEF Init, Retained!Init, Pruned
<1>2. TypeOK /\ StoreInv /\ [Next]_vars => [Retained!Next]_<<now, View>>
  BY StepImplementsLog
<1>3. Retained!Spec <=> Retained!Init /\ [][Retained!Next]_<<now, View>>
  BY PTL DEF Retained!Spec, View
<1> QED
  BY <1>1, <1>2, <1>3, TypeCorrect, StoreInvariant, PTL DEF Spec, ImplementsLog

-----------------------------------------------------------------------------
(***************************************************************************)
(* Proofs about DiagService: that the adapter and the page leave the store *)
(* its behaviours, and that a client's session is that of its last query   *)
(* for a token, however the handlers interleave.                           *)
(***************************************************************************)

-----------------------------------------------------------------------------
(***************************************************************************)
(* The store under the service.                                            *)
(***************************************************************************)
Session == [token : Tokens, until : Nat]
Task == [kind : {"diag", "related"}, token : Tokens, client : Clients]
AdapterOK ==
    /\ session \in [Clients -> {NoSession} \cup Session]
    /\ task \in [Handlers -> {NoTask} \cup Task]

LEMMA TaskKinds ==
    ASSUME AdapterOK, NEW h \in Handlers, task[h].kind \in {"diag", "related"}
    PROVE  task[h] \in Task /\ task[h].token \in Tokens /\ task[h].client \in Clients
<1>1. task[h] \in {NoTask} \cup Task
  BY DEF AdapterOK
<1>2. NoTask.kind = "none"
  BY DEF NoTask
<1>3. task[h] \in Task
  BY <1>1, <1>2
<1> QED
  BY <1>3 DEF Task

\* Every step of the service is a step of the store, or none for it.
LEMMA ServiceStepIsStoreStep ==
    ASSUME AdapterOK, [ServiceNext]_serviceVars
    PROVE  [Next]_vars
<1>1. ASSUME NEW h \in Handlers, NEW t \in Tokens, NEW c \in Clients, BeginDiag(h, t, c)
      PROVE  Next
  BY <1>1 DEF BeginDiag, Next
<1>2. ASSUME NEW h \in Handlers, AppendSaved(h)
      PROVE  [Next]_vars
  <2>1. task[h].token \in Tokens /\ task[h].client \in Clients
    BY <1>2, TaskKinds DEF AppendSaved
  <2>2. AppendRelated(h, task[h].token, task[h].client) \/ UNCHANGED vars
    BY <1>2 DEF AppendSaved
  <2> QED
    BY <2>1, <2>2 DEF Next
<1>3. ASSUME NEW h \in Handlers, StepBroadcast(h) \/ PanicBroadcast(h)
      PROVE  Next
  BY <1>3 DEF StepBroadcast, PanicBroadcast, Broadcast, Next
<1>4. ASSUME NEW d \in Dashboards, Connect(d) \/ DeliverUpdate(d) \/ Disconnect(d)
      PROVE  Next
  BY <1>4 DEF Connect, DeliverUpdate, Disconnect, Stream, Next
<1>5. ASSUME NEW h \in Handlers, NEW c \in Clients, ReadSession(h, c)
      PROVE  UNCHANGED vars
  BY <1>5 DEF ReadSession
<1>6. ASSUME NEW h \in Handlers, SetSession(h)
      PROVE  UNCHANGED vars
  BY <1>6 DEF SetSession
<1>7. ASSUME NEW d \in Dashboards, LoadPage(d)
      PROVE  UNCHANGED vars
  BY <1>7 DEF LoadPage
<1>8. CASE ServiceTick
  BY <1>8 DEF ServiceTick, Next
<1>9. CASE UNCHANGED serviceVars
  BY <1>9 DEF serviceVars
<1> QED
  BY <1>1, <1>2, <1>3, <1>4, <1>5, <1>6, <1>7, <1>8, <1>9 DEF ServiceNext

-----------------------------------------------------------------------------
(***************************************************************************)
(* The inductive invariant of the adapter.  Newest is the last query of a  *)
(* client for a token; unless two overlapped, the handler that is still    *)
(* busy with one is busy with that one, and between queries the session    *)
(* is its token's, and lasts at least its time.                            *)
(***************************************************************************)
LogNumbered == \A t \in Tokens : \A r \in log[t] : r.id < nextId /\ r.ts <= now
Newest(c, t, r) ==
    /\ t \in Tokens /\ r \in log[t] /\ r.client = c
    /\ \A u \in Tokens : \A o \in log[u] : o.client = c => o.id <= r.id
SessionHolds(c, t, r) ==
    IF session[c] = NoSession THEN now > r.ts + SessionTTL
    ELSE session[c].token = t /\ session[c].until >= r.ts + SessionTTL
SessionInv(c) ==
    /\ \A g, h \in Busy(c) : g = h
    /\ \A h \in Busy(c) : \A t, r : Newest(c, t, r) => t = task[h].token
    /\ Busy(c) = {} => \A t, r : Newest(c, t, r) => SessionHolds(c, t, r)
AdapterInv ==
    /\ TypeOK /\ AdapterOK /\ LogNumbered
    /\ \A c \in Clients : c \notin overlapped => SessionInv(c)

LEMMA AdapterInit == ServiceInit => AdapterInv
<1> SUFFICES ASSUME ServiceInit PROVE AdapterInv
  OBVIOUS
<1>1. Init /\ TypeOK
  BY InitTypeOK DEF ServiceInit
<1>2. AdapterOK
  BY DEF ServiceInit, AdapterOK
<1>3. \A t \in Tokens : log[t] = {}
  BY <1>1 DEF Init
<1>4. \A c \in Clients : Busy(c) = {}
  BY DEF ServiceInit, Busy, NoTask
<1>5. \A c, t, r : ~Newest(c, t, r)
  BY <1>3 DEF Newest
<1>6. \A c \in Clients : SessionInv(c)
  BY <1>4, <1>5 DEF SessionInv
<1> QED
  BY <1>1, <1>2, <1>3, <1>6 DEF AdapterInv, LogNumbered

\* A step that changes no task and no session of the client, and stores no query of it:
\* what held between its queries still holds later.
LEMMA SessionKept ==
    ASSUME AdapterInv, TypeOK', NEW c \in Clients, SessionInv(c),
           log' = log, now' >= now, Busy(c)' = Busy(c),
           \A h \in Busy(c) : task'[h] = task[h],
           session'[c] = session[c]
    PROVE  SessionInv(c)'
<1>1. \A t, r : Newest(c, t, r)' <=> Newest(c, t, r)
  BY DEF Newest
<1>2. ASSUME NEW t, NEW r, Newest(c, t, r), SessionHolds(c, t, r)
      PROVE  SessionHolds(c, t, r)'
  <2>1. r.ts \in Nat /\ now \in Nat /\ now' \in Nat /\ SessionTTL \in Nat
    BY <1>2, DiagAssumption, ServiceAssumption DEF Newest, AdapterInv, TypeOK, DiagRecord
  <2>2. now > r.ts + SessionTTL => now' > r.ts + SessionTTL
    BY <2>1
  <2> QED
    BY <1>2, <2>2 DEF SessionHolds
<1> QED
  BY <1>1, <1>2 DEF SessionInv

\* Numbers and times only grow.
LEMMA LogStep ==
    ASSUME TypeOK, LogNumbered, [Next]_vars
    PROVE  LogNumbered' /\ now' >= now
<1>1. now \in Nat /\ nextId \in Nat
  BY DiagAssumption DEF TypeOK
<1>2. \A t \in Tokens : \A r \in log[t] : r.id \in Nat /\ r.ts \in Nat
  BY DiagAssumption DEF TypeOK, DiagRecord, Ids
<1>3. ASSUME NEW h \in Handlers, NEW t \in Tokens, NEW c \in Clients, Record(h, t, c)
      PROVE  LogNumbered' /\ now' >= now
  <2> DEFINE rec == [id |-> nextId, client |-> c, ts |-> Stamp(now), related |-> {}]
  <2>1. Stamp(now) \in Nat /\ Stamp(now) <= now
    BY <1>1, StampMonotone
  <2>2. log' = [log EXCEPT ![t] = @ \cup {rec}] /\ nextId' = nextId + 1 /\ now' = now
    BY <1>3 DEF Record, StartBroadcast
  <2>3. rec.id = nextId /\ rec.ts = Stamp(now)
    OBVIOUS
  <2> HIDE DEF rec
  <2>4. ASSUME NEW u \in Tokens, NEW r \in log'[u]
        PROVE  r.id < nextId' /\ r.ts <= now'
    <3>1. r \in log[u] \/ r = rec
      BY <2>2, <2>4 DEF TypeOK
    <3>2. r \in log[u] => r.id < nextId /\ r.ts <= now /\ r.id \in Nat /\ r.ts \in Nat
      BY <1>2 DEF LogNumbered
    <3> QED
      BY <1>1, <2>1, <2>2, <2>3, <3>1, <3>2
  <2> QED
    BY <1>1, <2>2, <2>4 DEF LogNumbered
<1>4. ASSUME log' = log, nextId' \in Nat, nextId' >= nextId, now' \in Nat, now' >= now
      PROVE  LogNumbered' /\ now' >= now
  BY <1>1, <1>2, <1>4 DEF LogNumbered
<1>5. ASSUME NEW h \in Handlers, NEW t \in Tokens, NEW c \in Clients, AppendRelated(h, t, c)
      PROVE  LogNumbered' /\ now' >= now
  BY <1>1, <1>4, <1>5 DEF AppendRelated, StartBroadcast
<1>6. ASSUME NEW h \in Handlers, Broadcast(h)
      PROVE  LogNumbered' /\ now' >= now
  BY <1>1, <1>4, <1>6 DEF Broadcast, CopySubs, Send, SendPanics, storeVars
<1>7. ASSUME NEW d \in Dashboards, TakeSnapshot(d) \/ Register(d) \/ Stream(d) \/ Leave(d)
      PROVE  LogNumbered' /\ now' >= now
  BY <1>1, <1>4, <1>7 DEF TakeSnapshot, Register, Stream, WriteUpdate, WriteFails, Leave,
                          Unregister, CloseChannel, storeVars
<1>8. CASE Tick
  BY <1>1, <1>4, <1>8 DEF Tick, storeVars
<1>9. CASE UNCHANGED vars
  BY <1>1, <1>4, <1>9 DEF vars
<1> QED
  BY <1>3, <1>5, <1>6, <1>7, <1>8, <1>9 DEF Next

-----------------------------------------------------------------------------
(***************************************************************************)
(* The steps.                                                              *)
(***************************************************************************)
\* A query for a token is now its client's newest, and its handler the only busy one,
\* unless it overlaps another.
LEMMA BeginDiagInv ==
    ASSUME AdapterInv, NEW h \in Handlers, NEW t \in Tokens, NEW c \in Clients,
           BeginDiag(h, t, c), TypeOK', NEW x \in Clients, x \notin overlapped'
    PROVE  SessionInv(x)'
<1> DEFINE rec == [id |-> nextId, client |-> c, ts |-> Stamp(now), related |-> {}]
<1>0. /\ AdapterOK /\ LogNumbered /\ task[h] = NoTask /\ task \in [Handlers -> {NoTask} \cup Task]
      /\ log \in [Tokens -> SUBSET DiagRecord] /\ now \in Nat /\ nextId \in Nat
      /\ x \notin overlapped /\ SessionInv(x)
  BY DiagAssumption DEF AdapterInv, AdapterOK, BeginDiag, TypeOK
<1>1. log' = [log EXCEPT ![t] = @ \cup {rec}] /\ session' = session /\ now' = now
  BY DEF BeginDiag, Record
<1>2. task'[h] = [kind |-> "diag", token |-> t, client |-> c]
      /\ \A g \in Handlers : g # h => task'[g] = task[g]
  BY <1>0 DEF BeginDiag, Assign
<1>3. \A u \in Tokens : log'[u] = IF u = t THEN log[u] \cup {rec} ELSE log[u]
  BY <1>0, <1>1
<1>4. rec.client = c /\ rec.id = nextId
  OBVIOUS
<1> HIDE DEF rec
<1>5. h \notin Busy(x) /\ Busy(x)' = IF x = c THEN Busy(x) \cup {h} ELSE Busy(x)
  <2>1. h \notin Busy(x)
    BY <1>0 DEF Busy, NoTask
  <2>2. \A g \in Handlers : g # h => (g \in Busy(x)' <=> g \in Busy(x))
    BY <1>2 DEF Busy
  <2>3. h \in Busy(x)' <=> x = c
    BY <1>2 DEF Busy
  <2>4. Busy(x) \subseteq Handlers /\ Busy(x)' \subseteq Handlers
    BY DEF Busy
  <2> QED
    BY <2>1, <2>2, <2>3, <2>4
<1>6. CASE x # c
  <2>0. \A u \in Tokens : \A r : r.client = x => (r \in log'[u] <=> r \in log[u])
    BY <1>3, <1>4, <1>6
  <2>1. \A u, r : Newest(x, u, r)' <=> Newest(x, u, r)
    <3>1. ASSUME NEW u, NEW r, Newest(x, u, r)
          PROVE  Newest(x, u, r)'
      <4>1. u \in Tokens /\ r \in log[u] /\ r.client = x
        BY <3>1 DEF Newest
      <4>2. \A v \in Tokens : \A o \in log'[v] : o.client = x => o.id <= r.id
        BY <2>0, <3>1 DEF Newest
      <4> QED
        BY <2>0, <4>1, <4>2 DEF Newest
    <3>2. ASSUME NEW u, NEW r, Newest(x, u, r)'
          PROVE  Newest(x, u, r)
      <4>1. u \in Tokens /\ r \in log'[u] /\ r.client = x
        BY <3>2 DEF Newest
      <4>2. \A v \in Tokens : \A o \in log[v] : o.client = x => o.id <= r.id
        BY <2>0, <3>2 DEF Newest
      <4> QED
        BY <2>0, <4>1, <4>2 DEF Newest
    <3> QED
      BY <3>1, <3>2
  <2>2. \A u, r : SessionHolds(x, u, r)' <=> SessionHolds(x, u, r)
    BY <1>1 DEF SessionHolds
  <2>3. \A g \in Busy(x) : task'[g] = task[g]
    BY <1>2, <1>5 DEF Busy
  <2> QED
    BY <1>0, <1>5, <1>6, <2>1, <2>2, <2>3 DEF SessionInv
<1>7. CASE x = c
  <2>1. Busy(x) = {}
    BY <1>0, <1>7 DEF BeginDiag
  <2>2. Busy(x)' = {h}
    BY <1>5, <1>7, <2>1
  <2>3. ASSUME NEW u, NEW r, Newest(x, u, r)'
        PROVE  u = t
    <3>1. rec \in log'[t] /\ rec.client = x
      BY <1>3, <1>4, <1>7
    <3>2. u \in Tokens /\ r \in log'[u] /\ nextId <= r.id
      BY <1>4, <2>3, <3>1 DEF Newest
    <3>3. \A q \in log[u] : q.id < nextId /\ q.id \in Nat
      BY <1>0, <3>2 DEF LogNumbered, DiagRecord, Ids
    <3>4. r \notin log[u]
      BY <1>0, <3>2, <3>3
    <3> QED
      BY <1>3, <3>2, <3>4
  <2> QED
    BY <1>2, <2>2, <2>3 DEF SessionInv
<1> QED
  BY <1>6, <1>7

\* The handler that was busy with the newest query sets its token.
LEMMA SetSessionInv ==
    ASSUME AdapterInv, NEW h \in Handlers, SetSession(h), TypeOK',
           NEW x \in Clients, x \notin overlapped'
    PROVE  SessionInv(x)'
<1>0. /\ AdapterOK /\ LogNumbered /\ task[h] \in Task /\ task[h].kind = "diag"
      /\ log \in [Tokens -> SUBSET DiagRecord] /\ now \in Nat /\ SessionTTL \in Nat
      /\ x \notin overlapped /\ SessionInv(x)
  BY TaskKinds, DiagAssumption, ServiceAssumption DEF AdapterInv, SetSession, TypeOK
<1> DEFINE c == task[h].client
           s == [token |-> task[h].token, until |-> now + SessionTTL]
<1>1. session' = [session EXCEPT ![c] = s] /\ UNCHANGED vars /\ task' = [task EXCEPT ![h] = NoTask]
  BY DEF SetSession
<1>2. log' = log /\ now' = now
  BY <1>1 DEF vars
<1>3. s # NoSession /\ s.token = task[h].token /\ s.until = now + SessionTTL
  <2>1. s.token = task[h].token /\ s.until = now + SessionTTL
    OBVIOUS
  <2>2. DOMAIN s = {"token", "until"} /\ DOMAIN NoSession = {"kind"}
    BY DEF NoSession
  <2> QED
    BY <2>1, <2>2
<1>4. session'[c] = s
  BY <1>0, <1>1 DEF AdapterOK, Task
<1> HIDE DEF s
<1>5. CASE x # c
  <2>1. Busy(x)' = Busy(x) /\ \A g \in Busy(x) : task'[g] = task[g]
    BY <1>0, <1>1, <1>5 DEF Busy, AdapterOK, NoTask
  <2>2. session'[x] = session[x]
    BY <1>0, <1>1, <1>5 DEF AdapterOK
  <2> QED
    BY <1>0, <1>2, <2>1, <2>2, SessionKept
<1>6. CASE x = c
  <2>1. h \in Busy(x)
    BY <1>0, <1>6 DEF Busy
  <2>2. Busy(x) = {h}
    BY <1>0, <2>1 DEF SessionInv
  <2>3. Busy(x)' = {}
    <3>1. \A g \in Handlers : g # h => g \notin Busy(x)
      BY <2>2
    <3>2. task'[h] = NoTask /\ \A g \in Handlers : g # h => task'[g] = task[g]
      BY <1>0, <1>1 DEF AdapterOK
    <3> QED
      BY <3>1, <3>2 DEF Busy, NoTask
  <2>4. ASSUME NEW t, NEW r, Newest(x, t, r)'
        PROVE  SessionHolds(x, t, r)'
    <3>1. Newest(x, t, r)
      BY <1>2, <2>4 DEF Newest
    <3>2. t = task[h].token
      BY <1>0, <2>1, <3>1 DEF SessionInv
    <3>3. r.ts \in Nat /\ r.ts <= now
      BY <1>0, <3>1 DEF Newest, LogNumbered, DiagRecord
    <3>4. s.until >= r.ts + SessionTTL
      BY <1>0, <1>3, <3>3
    <3> QED
      BY <1>3, <1>4, <1>6, <3>2, <3>4 DEF SessionHolds
  <2> QED
    BY <2>3, <2>4 DEF SessionInv
<1> QED
  BY <1>5, <1>6

\* A session is deleted only when its time is over, for its token's newest query too.
LEMMA ReadSessionInv ==
    ASSUME AdapterInv, NEW h \in Handlers, NEW c \in Clients, ReadSession(h, c), TypeOK',
           NEW x \in Clients, x \notin overlapped'
    PROVE  SessionInv(x)'
<1>0. /\ AdapterOK /\ task[h] = NoTask /\ now \in Nat /\ SessionTTL \in Nat
      /\ log \in [Tokens -> SUBSET DiagRecord]
      /\ x \notin overlapped /\ SessionInv(x) /\ log' = log /\ now' = now
  BY DiagAssumption, ServiceAssumption DEF AdapterInv, ReadSession, TypeOK, vars
<1>1. Busy(x)' = Busy(x) /\ \A g \in Busy(x) : task'[g] = task[g]
  <2>1. h \notin Busy(x)
    BY <1>0 DEF Busy, NoTask
  <2>2. h \notin Busy(x)'
    BY <1>0 DEF ReadSession, Assign, Busy, NoTask, AdapterOK
  <2>3. \A g \in Handlers : g # h => task'[g] = task[g]
    BY <1>0 DEF ReadSession, Assign, AdapterOK
  <2>4. \A g : g \in Busy(x)' <=> g \in Busy(x)
    BY <2>1, <2>2, <2>3 DEF Busy
  <2> QED
    BY <2>1, <2>3, <2>4 DEF Busy
<1>2. CASE session'[x] = session[x]
  BY <1>0, <1>1, <1>2, SessionKept
<1>3. CASE session'[x] # session[x]
  <2>1. x = c /\ now > session[x].until /\ session'[x] = NoSession /\ session[x] # NoSession
    BY <1>0, <1>3 DEF ReadSession, AdapterOK
  <2>2. session[x] \in Session
    BY <1>0, <2>1 DEF AdapterOK
  <2>3. ASSUME NEW t, NEW r, Newest(x, t, r), SessionHolds(x, t, r)
        PROVE  SessionHolds(x, t, r)'
    <3>1. r.ts \in Nat /\ session[x].until \in Nat
      BY <1>0, <2>2, <2>3 DEF Newest, DiagRecord, Session
    <3>2. session[x].until >= r.ts + SessionTTL
      BY <2>1, <2>3 DEF SessionHolds
    <3>3. now' > r.ts + SessionTTL
      BY <1>0, <2>1, <3>1, <3>2
    <3> QED
      BY <2>1, <3>3 DEF SessionHolds
  <2>4. \A t, r : Newest(x, t, r)' <=> Newest(x, t, r)
    BY <1>0 DEF Newest
  <2> QED
    BY <1>0, <1>1, <2>3, <2>4 DEF SessionInv
<1> QED
  BY <1>2, <1>3

\* The other steps end tasks of related queries, or tasks of clients whose queries then
\* count as overlapped.
LEMMA OtherStepsInv ==
    ASSUME AdapterInv, TypeOK', now' >= now, NEW x \in Clients, x \notin overlapped',
           \/ \E h \in Handlers : AppendSaved(h) \/ StepBroadcast(h) \/ PanicBroadcast(h)
           \/ \E d \in Dashboards : LoadPage(d) \/ Connect(d) \/ DeliverUpdate(d) \/ Disconnect(d)
           \/ ServiceTick \/ UNCHANGED serviceVars
    PROVE  SessionInv(x)'
<1>1. session' = session /\ log' = log
  BY DEF AppendSaved, AppendRelated, StepBroadcast, CopySubs, Send, PanicBroadcast, SendPanics,
         LoadPage, Connect, TakeSnapshot, DeliverUpdate, WriteUpdate, Disconnect, Register,
         WriteFails, Leave, Unregister, CloseChannel, ServiceTick, Tick, serviceVars, adapterVars,
         storeVars, vars
<1>2. x \notin overlapped /\ SessionInv(x) /\ task \in [Handlers -> {NoTask} \cup Task]
  <2>1. x \notin overlapped
    BY DEF AppendSaved, StepBroadcast, PanicBroadcast, LoadPage, Connect, DeliverUpdate,
           Disconnect, ServiceTick, serviceVars, adapterVars
  <2> QED
    BY <2>1 DEF AdapterInv, AdapterOK
<1>3. \/ task' = task
      \/ \E h \in Handlers : h \notin Busy(x) /\ task' = [task EXCEPT ![h] = NoTask]
  <2>1. ASSUME NEW h \in Handlers, AppendSaved(h)
        PROVE  h \notin Busy(x) /\ task' = [task EXCEPT ![h] = NoTask]
    BY <2>1 DEF AppendSaved, Busy
  <2>2. ASSUME NEW h \in Handlers, PanicBroadcast(h)
        PROVE  task' = task \/ (h \notin Busy(x) /\ task' = [task EXCEPT ![h] = NoTask])
    <3>1. overlapped' = overlapped \cup {c \in Clients : h \in Busy(c)}
      BY <2>2 DEF PanicBroadcast
    <3>2. h \notin Busy(x)
      BY <3>1
    <3>3. task' = IF h \in DoHHandlers THEN [task EXCEPT ![h] = NoTask] ELSE task
      BY <2>2 DEF PanicBroadcast
    <3> QED
      BY <3>2, <3>3
  <2> QED
    BY <2>1, <2>2 DEF StepBroadcast, LoadPage, Connect, DeliverUpdate, Disconnect, ServiceTick,
                      serviceVars, adapterVars
<1>4. Busy(x)' = Busy(x) /\ \A g \in Busy(x) : task'[g] = task[g]
  BY <1>2, <1>3 DEF Busy, NoTask
<1> QED
  BY <1>1, <1>2, <1>4, SessionKept

-----------------------------------------------------------------------------
LEMMA AdapterStep == AdapterInv /\ [ServiceNext]_serviceVars => AdapterInv'
<1> SUFFICES ASSUME AdapterInv, [ServiceNext]_serviceVars PROVE AdapterInv'
  OBVIOUS
<1>1. [Next]_vars
  BY ServiceStepIsStoreStep DEF AdapterInv
<1>2. TypeOK' /\ LogNumbered' /\ now' >= now
  BY <1>1, StepTypeOK, LogStep DEF AdapterInv
<1>3. now \in Nat /\ SessionTTL \in Nat
  BY DiagAssumption, ServiceAssumption DEF AdapterInv, TypeOK
<1>4. ASSUME NEW h \in Handlers, NEW t \in Tokens, NEW c \in Clients, BeginDiag(h, t, c)
      PROVE  AdapterOK' /\ \A x \in Clients : x \notin overlapped' => SessionInv(x)'
  <2>1. [kind |-> "diag", token |-> t, client |-> c] \in Task
    BY DEF Task
  <2>2. AdapterOK'
    BY <1>4, <2>1 DEF AdapterInv, AdapterOK, BeginDiag, Assign
  <2> QED
    BY <1>2, <1>4, <2>2, BeginDiagInv
<1>5. ASSUME NEW h \in Handlers, SetSession(h)
      PROVE  AdapterOK' /\ \A x \in Clients : x \notin overlapped' => SessionInv(x)'
  <2>1. task[h] \in Task /\ task[h].token \in Tokens
    BY <1>5, TaskKinds DEF AdapterInv, SetSession
  <2>2. [token |-> task[h].token, until |-> now + SessionTTL] \in Session
    BY <1>3, <2>1 DEF Session
  <2>3. AdapterOK'
    BY <1>5, <2>2 DEF AdapterInv, AdapterOK, SetSession
  <2> QED
    BY <1>2, <1>5, <2>3, SetSessionInv
<1>6. ASSUME NEW h \in Handlers, NEW c \in Clients, ReadSession(h, c)
      PROVE  AdapterOK' /\ \A x \in Clients : x \notin overlapped' => SessionInv(x)'
  <2>1. session[c] \in Session
    BY <1>6 DEF AdapterInv, AdapterOK, ReadSession
  <2>2. [kind |-> "related", token |-> session[c].token, client |-> c] \in Task
    BY <2>1 DEF Session, Task
  <2>3. AdapterOK'
    BY <1>6, <2>2 DEF AdapterInv, AdapterOK, ReadSession, Assign
  <2> QED
    BY <1>2, <1>6, <2>3, ReadSessionInv
<1>7. ASSUME \/ \E h \in Handlers : AppendSaved(h) \/ StepBroadcast(h) \/ PanicBroadcast(h)
             \/ \E d \in Dashboards : LoadPage(d) \/ Connect(d) \/ DeliverUpdate(d) \/ Disconnect(d)
             \/ ServiceTick \/ UNCHANGED serviceVars
      PROVE  AdapterOK' /\ \A x \in Clients : x \notin overlapped' => SessionInv(x)'
  <2>1. session' = session /\ (task' = task \/ \E h \in Handlers : task' = [task EXCEPT ![h] = NoTask])
    BY <1>7 DEF AppendSaved, StepBroadcast, PanicBroadcast, LoadPage, Connect, DeliverUpdate,
                Disconnect, ServiceTick, serviceVars, adapterVars
  <2>2. AdapterOK'
    BY <2>1 DEF AdapterInv, AdapterOK
  <2> QED
    BY <1>2, <1>7, <2>2, OtherStepsInv
<1>8. AdapterOK' /\ \A x \in Clients : x \notin overlapped' => SessionInv(x)'
  BY <1>4, <1>5, <1>6, <1>7 DEF ServiceNext
<1> QED
  BY <1>2, <1>8 DEF AdapterInv

LEMMA AdapterInvariant == ServiceSpec => []AdapterInv
BY AdapterInit, AdapterStep, PTL DEF ServiceSpec

\* The adapter and the page only add steps around the store's: every behaviour of the
\* service is one of DiagStore, so what is proved of the store of routes.go holds in
\* the service as the adapter of main.go and the dashboard page drive it.
THEOREM ServiceRunsTheStore == ServiceSpec => Spec
<1>1. ServiceInit => Init
  BY DEF ServiceInit
<1>2. AdapterInv /\ [ServiceNext]_serviceVars => [Next]_vars
  BY ServiceStepIsStoreStep DEF AdapterInv
<1> QED
  BY <1>1, <1>2, AdapterInvariant, PTL DEF ServiceSpec, Spec

\* Between a client's queries its session is that of its last query for a token, for
\* diagSessionTTL after that query (RecordDiag and RecordRelatedIfInSession of main.go),
\* whatever the other handlers recorded, read or deleted in between.
THEOREM SessionIsTheLatest == ServiceSpec => []SessionIsLatest
<1>1. AdapterInv => SessionIsLatest
  <2> SUFFICES ASSUME AdapterInv, NEW c \in Clients, Busy(c) = {}, c \notin overlapped,
                      NEW last \in RecordsOf(c),
                      \A o \in RecordsOf(c) : o[2].id <= last[2].id
               PROVE  IF session[c] = NoSession THEN now > last[2].ts + SessionTTL
                      ELSE session[c].token = last[1]
    BY DEF SessionIsLatest
  <2>1. PICK t \in Tokens : last \in {<<t, r>> : r \in {r \in log[t] : r.client = c}}
    BY DEF RecordsOf
  <2>2. PICK r \in log[t] : r.client = c /\ last = <<t, r>>
    BY <2>1
  <2>3. last[1] = t /\ last[2] = r
    BY <2>2
  <2>4. ASSUME NEW u \in Tokens, NEW o \in log[u], o.client = c
        PROVE  o.id <= r.id
    <3>1. <<u, o>> \in RecordsOf(c)
      BY <2>4 DEF RecordsOf
    <3> QED
      BY <2>3, <3>1
  <2>5. Newest(c, t, r)
    BY <2>2, <2>4 DEF Newest
  <2>6. SessionHolds(c, t, r)
    BY <2>5 DEF AdapterInv, SessionInv
  <2> QED
    BY <2>3, <2>6 DEF SessionHolds
<1> QED
  BY <1>1, AdapterInvariant, PTL

-----------------------------------------------------------------------------
(***************************************************************************)
(* The rows a page is rendered with.                                       *)
(***************************************************************************)
Row == [id : Ids, ts : 0..MaxTime, detail : Ids, related : SUBSET Ids]
Order == INSTANCE Folding WITH Step <- Merged

LEMMA RowOfType ==
    ASSUME NEW r \in DiagRecord
    PROVE  RowOf(r) \in Row
BY DEF RowOf, Row, DiagRecord, Event

\* RowsOf numbers the records of a list by their age: a row for each, and every row
\* that of a record.
LEMMA RowsOfRecords ==
    ASSUME NEW S \in SUBSET DiagRecord, IsFiniteSet(S), \A r, o \in S : r.id = o.id => r = o
    PROVE  /\ RowsOf(S) \in Seq(Row)
           /\ \A i \in DOMAIN RowsOf(S) : \E r \in S : RowsOf(S)[i] = RowOf(r)
           /\ \A i, j \in DOMAIN RowsOf(S) : RowsOf(S)[i].id = RowsOf(S)[j].id => i = j
<1> DEFINE R == {p \in S \X S : p[1].id < p[2].id}
           n == Cardinality(S)
           before(r) == {o \in S : o.id < r.id}
           at(i) == CHOOSE r \in S : Cardinality(before(r)) = i - 1
<1>1. \A a, b \in S : <<a, b>> \in R <=> a.id < b.id
  OBVIOUS
<1>2. \A a \in S : a.id \in Int
  BY DEF DiagRecord, Ids
<1>3. Order!IsOrder(R, S)
  BY <1>1, <1>2 DEF Order!IsOrder
<1>4. \A r \in S : Order!Before(R, S, r) = before(r)
  BY <1>1 DEF Order!Before
<1>5. \A i \in 1..n : \E r \in S : Cardinality(before(r)) = i - 1
  <2>1. \A X : Order!Cardinality(X) = Cardinality(X)
    BY DEF Order!Cardinality, Cardinality
  <2>2. \A i \in 1..Cardinality(S) : \E r \in S : Cardinality(Order!Before(R, S, r)) = i - 1
    <3>1. Order!IsFiniteSet(S)
      BY DEF Order!IsFiniteSet, IsFiniteSet
    <3> HIDE DEF R
    <3>2. \A i \in 1..Order!Cardinality(S) :
             \E r \in S : Order!Cardinality(Order!Before(R, S, r)) = i - 1
      BY <1>3, <3>1, Order!Ordered
    <3> QED
      BY <2>1, <3>2
  <2> HIDE DEF R, before
  <2> QED
    BY <1>4, <2>2
<1>6. \A i \in 1..n : at(i) \in S /\ Cardinality(before(at(i))) = i - 1
  BY <1>5
<1>7. n \in Nat
  BY FS_CardinalityType
<1>8. RowsOf(S) = [i \in 1..n |-> RowOf(at(i))]
  BY <1>7 DEF RowsOf, InOrder
<1>9. \A i \in 1..n : RowOf(at(i)) \in Row
  BY <1>6, RowOfType
<1>10. RowsOf(S) \in Seq(Row) /\ DOMAIN RowsOf(S) = 1..n
  <2> HIDE DEF at, n
  <2> QED
    BY <1>7, <1>8, <1>9
<1>11. ASSUME NEW i \in 1..n, NEW j \in 1..n, RowsOf(S)[i].id = RowsOf(S)[j].id
       PROVE  i = j
  <2>1. at(i).id = at(j).id
    BY <1>8, <1>11 DEF RowOf
  <2>2. at(i) = at(j)
    BY <1>6, <2>1
  <2>3. i - 1 = j - 1
    BY <1>6, <2>2
  <2> QED
    BY <1>7, <2>3
<1>12. \A i \in 1..n : \E r \in S : RowsOf(S)[i] = RowOf(r)
  <2> HIDE DEF at
  <2> QED
    BY <1>6, <1>8
<1> QED
  BY <1>10, <1>11, <1>12

-----------------------------------------------------------------------------
(***************************************************************************)
(* What the updates under way say.  An update is about a query of the      *)
(* token's log, a "record" update about a new one and a "related" update   *)
(* about one that has the event among its related queries; a broadcast's   *)
(* targets watch its token and are registered; before it registers, a      *)
(* connection has an empty queue.                                          *)
(***************************************************************************)
Known(L, id, ts) == \E r \in L : r.id = id /\ r.ts = ts
RelIds(r) == {e.id : e \in r.related}
UpdateOK(L, u) ==
    /\ Known(L, u.rec.id, u.rec.ts)
    /\ u.kind = "record" => u.event = u.rec.id /\ u.rec.related = {}
    /\ u.kind = "related" => u.event \in RelIds(u.rec)
Working(h) == pc[h] # "idle"
Early(d) == conn[d] \in {"upgraded", "snapshotted"}

LogUnique ==
    \A t, v \in Tokens : \A r \in log[t], o \in log[v] : r.id = o.id => t = v /\ r = o
ListsLogged == \A t \in Tokens : \A r \in byToken[t] : Known(log[t], r.id, r.ts)
JobsOK ==
    /\ \A h \in Handlers : Working(h) =>
          job[h].upd.event < nextId /\ UpdateOK(log[job[h].token], job[h].upd)
    /\ \A g, h \in Handlers :
          Working(g) /\ Working(h) /\ job[g].upd.event = job[h].upd.event => g = h
TargetsOK ==
    \A h \in Handlers :
        /\ Distinct(targets[h])
        /\ \A d \in Dashboards : Holds(targets[h], d) => Watches[d] = job[h].token /\ ~Early(d)
QueuesOK ==
    \A d \in Dashboards :
        /\ \A k \in DOMAIN ch[d] : UpdateOK(log[Watches[d]], ch[d][k])
        /\ IF Early(d) THEN ch[d] = <<>> /\ since[d] = 0 ELSE since[d] # 0
WayInv == LogNumbered /\ LogUnique /\ ListsLogged /\ JobsOK /\ TargetsOK /\ QueuesOK

LEMMA InitWayInv == Init => WayInv
<1> SUFFICES ASSUME Init PROVE WayInv
  OBVIOUS
<1>1. /\ \A t \in Tokens : log[t] = {} /\ byToken[t] = {}
      /\ \A h \in Handlers : pc[h] = "idle" /\ targets[h] = <<>>
      /\ \A d \in Dashboards : conn[d] = "upgraded" /\ ch[d] = <<>> /\ since[d] = 0
  BY DEF Init
<1>2. LogNumbered /\ LogUnique /\ ListsLogged
  BY <1>1 DEF LogNumbered, LogUnique, ListsLogged
<1>3. JobsOK /\ TargetsOK
  BY <1>1 DEF JobsOK, TargetsOK, Working, Distinct, Holds
<1>4. QueuesOK
  BY <1>1 DEF QueuesOK, Early
<1> QED
  BY <1>2, <1>3, <1>4 DEF WayInv

\* What is known stays known, and what an update says stays true.
LEMMA KnownStays ==
    ASSUME NEW L, NEW M, L \subseteq M
    PROVE  /\ \A id, ts : Known(L, id, ts) => Known(M, id, ts)
           /\ \A u : UpdateOK(L, u) => UpdateOK(M, u)
BY DEF Known, UpdateOK

\* Queues are read from the front and filled at the end.
LEMMA TailOfQueue ==
    ASSUME NEW q \in Seq(Update), q # <<>>
    PROVE  /\ Head(q) = q[1] /\ Head(q) \in Update /\ 1 \in DOMAIN q
           /\ DOMAIN q = 1..Len(q) /\ Len(q) \in Nat \ {0}
           /\ Tail(q) \in Seq(Update) /\ DOMAIN Tail(q) = 1..(Len(q) - 1)
           /\ \A k \in DOMAIN Tail(q) : k + 1 \in DOMAIN q /\ k + 1 # 1 /\ Tail(q)[k] = q[k + 1]
           /\ \A k \in DOMAIN q : k # 1 => k - 1 \in DOMAIN Tail(q) /\ q[k] = Tail(q)[k - 1]
<1>1. /\ DOMAIN q = 1..Len(q) /\ Len(q) \in Nat \ {0}
      /\ Tail(q) \in Seq(Update) /\ Len(Tail(q)) = Len(q) - 1
      /\ \A i \in 1..Len(Tail(q)) : Tail(q)[i] = q[i + 1]
      /\ DOMAIN Tail(q) = 1..Len(Tail(q))
  BY LenProperties, EmptySeq, HeadTailProperties
<1>2. Head(q) = q[1] /\ Head(q) \in Update
  BY HeadTailProperties
<1>3. \A k \in DOMAIN q : k # 1 => k - 1 \in DOMAIN Tail(q) /\ q[k] = Tail(q)[k - 1]
  BY <1>1
<1> QED
  BY <1>1, <1>2, <1>3

LEMMA AppendToQueue ==
    ASSUME NEW T, NEW q \in Seq(T), NEW u \in T
    PROVE  /\ Append(q, u) \in Seq(T)
           /\ DOMAIN q = 1..Len(q) /\ Len(q) \in Nat /\ Len(Append(q, u)) = Len(q) + 1
           /\ DOMAIN Append(q, u) = 1..(Len(q) + 1)
           /\ Append(q, u)[Len(q) + 1] = u
           /\ \A k \in DOMAIN q : Append(q, u)[k] = q[k]
BY AppendProperties, LenProperties

\* Storing an event: the token's handler has a new update, and what the lists and
\* the log gain is numbered by it.
LEMMA StoringWay ==
    ASSUME TypeOK, WayInv, NEW h \in Handlers, NEW t \in Tokens, NEW c \in Clients,
           Record(h, t, c) \/ AppendRelated(h, t, c)
    PROVE  /\ ~Working(h) /\ pc'[h] = "stored" /\ nextId' = nextId + 1
           /\ job'[h] \in Job /\ job'[h].token = t /\ job'[h].upd.event = nextId
           /\ UpdateOK(log'[t], job'[h].upd)
           /\ \A g \in Handlers : g # h => pc'[g] = pc[g] /\ job'[g] = job[g]
           /\ UNCHANGED <<targets, feedVars>>
           /\ \A v \in Tokens : log[v] \subseteq log'[v]
           /\ LogUnique' /\ ListsLogged'
<1>1. PICK kind, r :
         StartBroadcast(h, t, kind, r) /\ pc[h] = "idle" /\ UNCHANGED <<targets, feedVars>>
  BY Zenon DEF Record, AppendRelated
<1>2. /\ ~Working(h) /\ pc'[h] = "stored" /\ nextId' = nextId + 1
      /\ job'[h].token = t /\ job'[h].upd.event = nextId
      /\ \A g \in Handlers : g # h => job'[g] = job[g] /\ pc'[g] = pc[g]
  BY <1>1 DEF StartBroadcast, TypeOK, HandlersOK, Working
<1>3. job'[h] \in Job
  <2>1. TypeOK'
    BY RecordType, AppendRelatedType
  <2> QED
    BY <1>2, <2>1 DEF TypeOK, HandlersOK
<1>4. CASE Record(h, t, c)
  <2> DEFINE rec == [id |-> nextId, client |-> c, ts |-> Stamp(now), related |-> {}]
  <2>1. rec.id = nextId /\ rec.related = {}
    OBVIOUS
  <2>2. /\ byToken' = [byToken EXCEPT ![t] = Evicted(Pruned(t)) \cup {rec}]
        /\ log' = [log EXCEPT ![t] = @ \cup {rec}]
        /\ StartBroadcast(h, t, "record", rec)
    BY <1>4 DEF Record
  <2> HIDE DEF rec
  <2>3. /\ job'[h].upd.rec = rec /\ job'[h].upd.kind = "record"
    BY <2>2 DEF StartBroadcast, TypeOK, HandlersOK
  <2>4. /\ log'[t] = log[t] \cup {rec} /\ \A v \in Tokens : v # t => log'[v] = log[v]
    BY <2>2 DEF TypeOK
  <2>5. UpdateOK(log'[t], job'[h].upd)
    BY <1>2, <2>1, <2>3, <2>4 DEF UpdateOK, Known
  <2>6. \A v \in Tokens : \A r1 \in log[v] : r1.id # rec.id
    <3>1. \A v \in Tokens : \A r1 \in log[v] : r1.id < nextId /\ r1.id \in Int
      BY DEF WayInv, LogNumbered, TypeOK, DiagRecord, Ids
    <3> QED
      BY <2>1, <3>1
  <2>7. LogUnique'
    BY <2>4, <2>6 DEF WayInv, LogUnique
  <2>8. \A v \in Tokens : \A r1 \in byToken'[v] : r1 \in byToken[v] \/ (v = t /\ r1 = rec)
    <3>1. Evicted(Pruned(t)) \subseteq byToken[t]
      BY DEF Evicted, Pruned
    <3> QED
      BY <2>2, <3>1 DEF TypeOK
  <2>9. ListsLogged'
    BY <2>4, <2>8 DEF WayInv, ListsLogged, Known
  <2> QED
    BY <1>1, <1>2, <1>3, <2>4, <2>5, <2>7, <2>9
<1>5. CASE AppendRelated(h, t, c)
  <2> DEFINE e == [id |-> nextId, client |-> c, ts |-> Stamp(now)]
  <2>1. PICK best \in Candidates(t, c) :
           LET upd == [best EXCEPT !.related = @ \cup {e}]
           IN  /\ byToken' = [byToken EXCEPT ![t] = (@ \ {best}) \cup {upd}]
               /\ StartBroadcast(h, t, "related", upd)
    BY <1>5 DEF AppendRelated
  <2> DEFINE upd == [best EXCEPT !.related = @ \cup {e}]
  <2>2. best \in byToken[t] /\ best \in DiagRecord
    BY DEF Candidates, TypeOK
  <2>3. upd.id = best.id /\ upd.ts = best.ts /\ upd.related = best.related \cup {e} /\ e.id = nextId
    BY <2>2 DEF DiagRecord
  <2> HIDE DEF e, upd
  <2>4. job'[h].upd.rec = upd /\ job'[h].upd.kind = "related"
    BY <2>1 DEF StartBroadcast, TypeOK, HandlersOK, upd
  <2>5. log' = log
    BY <1>5 DEF AppendRelated
  <2>6. Known(log[t], upd.id, upd.ts)
    BY <2>2, <2>3 DEF WayInv, ListsLogged
  <2>7. UpdateOK(log'[t], job'[h].upd)
    BY <1>2, <2>3, <2>4, <2>5, <2>6 DEF UpdateOK, RelIds
  <2>8. \A v \in Tokens : \A r1 \in byToken'[v] : r1 \in byToken[v] \/ (v = t /\ r1 = upd)
    BY <2>1 DEF TypeOK, upd
  <2>9. ListsLogged'
    BY <2>5, <2>6, <2>8 DEF WayInv, ListsLogged
  <2> QED
    BY <1>1, <1>2, <1>3, <2>5, <2>7, <2>9 DEF WayInv, LogUnique
<1> QED
  BY <1>4, <1>5

\* A handler owes an update to the connections it may still send it to.
Owes(h, d) == Working(h) /\ (pc[h] = "sending" => Holds(targets[h], d))

\* The rest of a list without repetitions holds all but its head.
LEMMA TailHolds ==
    ASSUME NEW list \in Seq(Dashboards), list # <<>>, Distinct(list)
    PROVE  /\ Tail(list) \in Seq(Dashboards)
           /\ Head(list) \in Dashboards /\ Holds(list, Head(list))
           /\ Distinct(Tail(list))
           /\ \A x : Holds(Tail(list), x) <=> Holds(list, x) /\ x # Head(list)
<1>1. /\ DOMAIN list = 1..Len(list) /\ Len(list) \in Nat \ {0} /\ Head(list) = list[1]
      /\ Tail(list) \in Seq(Dashboards) /\ Head(list) \in Dashboards
  BY LenProperties, EmptySeq, HeadTailProperties
<1>2. /\ \A k \in DOMAIN Tail(list) : k + 1 \in DOMAIN list /\ k + 1 # 1 /\ Tail(list)[k] = list[k + 1]
      /\ \A k \in DOMAIN list : k # 1 => k - 1 \in DOMAIN Tail(list) /\ list[k] = Tail(list)[k - 1]
  BY LenProperties, EmptySeq, HeadTailProperties
<1>3. 1 \in DOMAIN list
  BY <1>1
<1>4. Distinct(Tail(list))
  <2>1. ASSUME NEW i \in DOMAIN Tail(list), NEW j \in DOMAIN Tail(list), Tail(list)[i] = Tail(list)[j]
        PROVE  i = j
    <3>1. i + 1 = j + 1
      BY <1>2, <2>1 DEF Distinct
    <3>2. i \in Int /\ j \in Int
      BY <1>1, LenProperties
    <3> QED
      BY <3>1, <3>2
  <2> QED
    BY <2>1 DEF Distinct
<1>5. \A x : Holds(Tail(list), x) => Holds(list, x) /\ x # Head(list)
  BY <1>1, <1>2, <1>3 DEF Holds, Distinct
<1>6. \A x : Holds(list, x) /\ x # Head(list) => Holds(Tail(list), x)
  BY <1>1, <1>2 DEF Holds
<1> QED
  BY <1>1, <1>3, <1>4, <1>5, <1>6 DEF Holds

\* A step of a broadcast: it stops owing its update to some connections.  One that
\* listens has it in its queue then, or among the missed.
LEMMA BroadcastWay ==
    ASSUME TypeOK, SubsInv, WayInv, NEW h \in Handlers, Broadcast(h)
    PROVE  /\ UNCHANGED <<now, nextId, byToken, log, conn, since>>
           /\ \A g \in Handlers : g # h => pc'[g] = pc[g] /\ job'[g] = job[g] /\ targets'[g] = targets[g]
           /\ Working(h) /\ (pc'[h] # "idle" => job'[h] = job[h])
           /\ Distinct(targets'[h])
           /\ \A d \in Dashboards :
                 /\ Holds(targets'[h], d) => Watches[d] = job'[h].token /\ ~Early(d)
                 /\ Owes(h, d)' => Owes(h, d)
                 /\ missed[d] \subseteq missed'[d]
                 /\ \/ ch'[d] = ch[d]
                    \/ /\ ch'[d] = Append(ch[d], job[h].upd)
                       /\ Owes(h, d) /\ ~Owes(h, d)'
                       /\ Watches[d] = job[h].token /\ ~Early(d)
                 /\ Owes(h, d) /\ ~Owes(h, d)' /\ conn[d] = "streaming" /\ Watches[d] = job[h].token
                       => ch'[d] = Append(ch[d], job[h].upd) \/ job[h].upd.event \in missed'[d]
<1>1. /\ UNCHANGED <<now, nextId, byToken, log, conn, since>>
      /\ \A g \in Handlers : g # h => pc'[g] = pc[g] /\ job'[g] = job[g] /\ targets'[g] = targets[g]
      /\ Working(h) /\ (pc'[h] # "idle" => job'[h] = job[h])
  BY DEF Broadcast, CopySubs, Send, SendPanics, Sent, EndBroadcast, storeVars, feedVars,
         TypeOK, HandlersOK, Working
<1>2. /\ Distinct(targets[h]) /\ targets[h] \in Seq(Dashboards)
      /\ \A d \in Dashboards : Holds(targets[h], d) => Watches[d] = job[h].token /\ ~Early(d)
  BY DEF WayInv, TargetsOK, TypeOK, HandlersOK
<1>3. /\ Distinct(<<>>) /\ \A d : ~Holds(<<>>, d)
  BY DEF Distinct, Holds
<1>4. EndBroadcast(h) => pc'[h] = "idle" /\ targets'[h] = <<>>
  BY DEF EndBroadcast, TypeOK, HandlersOK
<1>5. CASE CopySubs(h)
  <2> DEFINE list == subs[job[h].token]
  <2>1. job[h].token \in Tokens
    BY <1>1 DEF TypeOK, HandlersOK, Job, Working
  <2>2. /\ Distinct(list)
        /\ \A d \in Dashboards : Holds(list, d) <=> Watches[d] = job[h].token /\ Listening(d)
    BY <2>1 DEF SubsInv
  <2>3. ch' = ch /\ missed' = missed
    BY <1>5 DEF CopySubs, feedVars
  <2>4. \A d \in Dashboards : Owes(h, d)
    BY <1>5 DEF CopySubs, Owes, Working
  <2>5. CASE list = <<>>
    <3>1. pc'[h] = "idle" /\ targets'[h] = <<>>
      BY <1>4, <1>5, <2>5 DEF CopySubs
    <3>2. \A d \in Dashboards : Watches[d] = job[h].token => conn[d] # "streaming"
      BY <1>3, <2>2, <2>5 DEF Listening
    <3> QED
      BY <1>1, <1>3, <2>3, <2>4, <3>1, <3>2 DEF Owes, Working
  <2>6. CASE list # <<>>
    <3>1. pc'[h] = "sending" /\ targets'[h] = list /\ job' = job
      BY <1>5, <2>6 DEF CopySubs, TypeOK, HandlersOK
    <3>2. \A d \in Dashboards : Holds(list, d) => ~Early(d)
      BY <2>2 DEF Listening, Early
    <3>3. \A d \in Dashboards : Owes(h, d)' <=> Holds(list, d)
      BY <3>1 DEF Owes, Working
    <3> QED
      BY <1>1, <2>2, <2>3, <2>4, <3>1, <3>2, <3>3 DEF Listening
  <2> QED
    BY <2>5, <2>6
<1>6. CASE Send(h)
  <2> DEFINE list == targets[h]
             x == Head(list)
             u == job[h].upd
  <2>1. list # <<>> /\ pc[h] = "sending"
    BY <1>6 DEF Send, TypeOK, HandlersOK
  <2>2. /\ Tail(list) \in Seq(Dashboards) /\ x \in Dashboards /\ Holds(list, x) /\ Distinct(Tail(list))
        /\ \A y : Holds(Tail(list), y) <=> Holds(list, y) /\ y # x
    BY <1>2, <2>1, TailHolds
  <2>3. \A d \in Dashboards : Owes(h, d) <=> Holds(list, d)
    BY <2>1 DEF Owes, Working
  <2>4. \/ ch' = [ch EXCEPT ![x] = Append(@, u)] /\ missed' = missed
        \/ missed' = [missed EXCEPT ![x] = @ \cup {u.event}] /\ ch' = ch
    BY <1>6, Zenon DEF Send
  <2>5. /\ Distinct(targets'[h])
        /\ \A d \in Dashboards : Holds(targets'[h], d) => Holds(list, d) /\ d # x
        /\ \A d \in Dashboards : Owes(h, d)' <=> Holds(list, d) /\ d # x
        /\ targets'[h] # <<>> => job'[h] = job[h]
    <3>1. CASE Len(list) = 1
      <4>1. pc'[h] = "idle" /\ targets'[h] = <<>>
        BY <1>4, <1>6, <3>1 DEF Send, Sent
      <4>2. \A d : Holds(list, d) => d = x
        <5>1. DOMAIN list = {1} /\ x = list[1]
          BY <1>2, <3>1, <2>1, LenProperties, HeadTailProperties
        <5> QED
          BY <5>1 DEF Holds
      <4> QED
        BY <1>3, <4>1, <4>2 DEF Owes, Working
    <3>2. CASE Len(list) # 1
      <4>1. targets'[h] = Tail(list) /\ pc' = pc /\ job' = job
        BY <1>6, <3>2 DEF Send, Sent, TypeOK, HandlersOK
      <4>2. \A d \in Dashboards : Owes(h, d)' <=> Holds(Tail(list), d)
        BY <2>1, <4>1 DEF Owes, Working
      <4> QED
        BY <2>2, <4>1, <4>2
    <3> QED
      BY <3>1, <3>2
  <2>6. \A d \in Dashboards : Holds(targets'[h], d) => Watches[d] = job'[h].token /\ ~Early(d)
    <3>1. \A d \in Dashboards : Holds(targets'[h], d) => targets'[h] # <<>>
      BY <1>3
    <3> QED
      BY <1>2, <2>5, <3>1
  <2>7. CASE ch' = [ch EXCEPT ![x] = Append(@, u)] /\ missed' = missed
    <3>1. \A d \in Dashboards : ch'[d] = IF d = x THEN Append(ch[d], u) ELSE ch[d]
      BY <2>7 DEF TypeOK
    <3> HIDE DEF x, u, list
    <3> QED
      BY <1>1, <1>2, <2>2, <2>3, <2>5, <2>6, <2>7, <3>1 DEF u, list
  <2>8. CASE missed' = [missed EXCEPT ![x] = @ \cup {u.event}] /\ ch' = ch
    <3>1. \A d \in Dashboards : missed'[d] = IF d = x THEN missed[d] \cup {u.event} ELSE missed[d]
      BY <2>8 DEF TypeOK
    <3>2. ASSUME NEW d \in Dashboards
          PROVE  /\ Owes(h, d)' => Owes(h, d)
                 /\ missed[d] \subseteq missed'[d] /\ ch'[d] = ch[d]
                 /\ Owes(h, d) /\ ~Owes(h, d)' => job[h].upd.event \in missed'[d]
      <4>1. Owes(h, d) /\ ~Owes(h, d)' => d = x
        BY <2>3, <2>5
      <4>2. Owes(h, d)' => Owes(h, d)
        BY <2>3, <2>5
      <4>3. ch'[d] = ch[d]
        BY <2>8
      <4>4. missed[d] \subseteq missed'[d]
        BY <3>1
      <4>5. d = x => job[h].upd.event \in missed'[d]
        BY <3>1
      <4> QED
        BY <4>1, <4>2, <4>3, <4>4, <4>5
    <3> HIDE DEF x, list
    <3> QED
      BY <1>1, <2>5, <2>6, <3>2
  <2> QED
    BY <2>4, <2>7, <2>8
<1>7. CASE SendPanics(h)
  <2>1. ch' = ch /\ pc[h] = "sending"
    BY <1>7 DEF SendPanics
  <2>2. CASE h \in DoHHandlers
    <3>1. pc'[h] = "idle" /\ targets'[h] = <<>>
      BY <1>4, <1>7, <2>2 DEF SendPanics
    <3>2. \A d \in Dashboards :
             missed'[d] = IF Holds(targets[h], d)
                          THEN missed[d] \cup {job[h].upd.event} ELSE missed[d]
      BY <1>7, <2>2 DEF SendPanics, Holds
    <3> QED
      BY <1>1, <1>3, <2>1, <3>1, <3>2 DEF Owes, Working
  <2>3. CASE h \notin DoHHandlers
    <3>1. UNCHANGED <<pc, job, targets, missed>>
      BY <1>7, <2>3 DEF SendPanics
    <3>2. \A d \in Dashboards : Owes(h, d)' <=> Owes(h, d)
      BY <3>1 DEF Owes, Working
    <3> QED
      BY <1>1, <1>2, <2>1, <3>1, <3>2
  <2> QED
    BY <2>2, <2>3
<1> QED
  BY <1>5, <1>6, <1>7 DEF Broadcast

\* A step of a connection touches that connection, and takes from its queue at most.
LEMMA ConnectionWay ==
    ASSUME TypeOK, NEW d \in Dashboards,
           TakeSnapshot(d) \/ Register(d) \/ Stream(d) \/ Leave(d)
    PROVE  /\ UNCHANGED <<now, nextId, byToken, log, pc, job, targets, missed>>
           /\ \A x \in Dashboards : x # d => conn'[x] = conn[x] /\ since'[x] = since[x] /\ ch'[x] = ch[x]
           /\ ch'[d] = ch[d] \/ (ch[d] # <<>> /\ ch'[d] = Tail(ch[d]))
           /\ Early(d)' => Early(d)
           /\ Early(d) => ch'[d] = ch[d] \/ ch[d] # <<>>
           /\ Register(d) => conn[d] = "snapshotted" /\ conn'[d] = "streaming" /\ since'[d] = nextId
           /\ ~Register(d) => since'[d] = since[d] /\ (Early(d)' <=> Early(d))
           /\ ~Register(d) => (conn'[d] = "streaming" => conn[d] = "streaming")
<1>1. CASE TakeSnapshot(d)
  BY <1>1 DEF TakeSnapshot, Goto, storeVars, TypeOK, Early, Register
<1>2. CASE Register(d)
  BY <1>2 DEF Register, Goto, storeVars, TypeOK, Early
<1>3. CASE WriteUpdate(d)
  BY <1>3 DEF WriteUpdate, storeVars, TypeOK, Early, Register, Goto
<1>4. CASE WriteFails(d)
  BY <1>4 DEF WriteFails, Goto, storeVars, TypeOK, Early, Register
<1>5. CASE Leave(d)
  BY <1>5 DEF Leave, Unregister, CloseChannel, Goto, storeVars, TypeOK, Early, Register
<1> QED
  BY <1>1, <1>2, <1>3, <1>4, <1>5 DEF Stream

\* The queues of the connections hold updates of their tokens.
LEMMA StepWayInv == TypeOK /\ SubsInv /\ WayInv /\ [Next]_vars => WayInv'
<1> SUFFICES ASSUME TypeOK, SubsInv, WayInv, [Next]_vars PROVE WayInv'
  OBVIOUS
<1>0. TypeOK' /\ LogNumbered'
  BY StepTypeOK, LogStep DEF WayInv
<1>1. \A x \in Dashboards : Watches[x] \in Tokens
  BY DiagAssumption
<1>2. ASSUME NEW h \in Handlers, NEW t \in Tokens, NEW c \in Clients,
             Record(h, t, c) \/ AppendRelated(h, t, c)
      PROVE  WayInv'
  <2>1. /\ ~Working(h) /\ pc'[h] = "stored" /\ nextId' = nextId + 1
        /\ job'[h].token = t /\ job'[h].upd.event = nextId
        /\ UpdateOK(log'[t], job'[h].upd)
        /\ \A g \in Handlers : g # h => pc'[g] = pc[g] /\ job'[g] = job[g]
        /\ UNCHANGED <<targets, feedVars>>
        /\ \A v \in Tokens : log[v] \subseteq log'[v]
        /\ LogUnique' /\ ListsLogged'
    BY <1>2, StoringWay
  <2>2. ASSUME NEW g \in Handlers, g # h, Working(g)
        PROVE  /\ job[g].token \in Tokens
               /\ job[g].upd.event \in Int /\ job[g].upd.event < nextId
               /\ UpdateOK(log'[job[g].token], job[g].upd)
    <3>1. job[g] \in Job
      BY <2>2 DEF TypeOK, HandlersOK, Working
    <3>2. job[g].token \in Tokens /\ job[g].upd.event \in Int
      BY <3>1 DEF Job, Update, Ids
    <3>3. job[g].upd.event < nextId /\ UpdateOK(log[job[g].token], job[g].upd)
      BY <2>2 DEF WayInv, JobsOK
    <3>4. log[job[g].token] \subseteq log'[job[g].token]
      BY <2>1, <3>2
    <3>5. UpdateOK(log'[job[g].token], job[g].upd)
      BY <3>3, <3>4, KnownStays
    <3> QED
      BY <3>2, <3>3, <3>5
  <2>3. nextId \in Int
    BY DEF TypeOK
  <2>4. JobsOK'
    <3>1. ASSUME NEW g \in Handlers, Working(g)'
          PROVE  job'[g].upd.event < nextId' /\ UpdateOK(log'[job'[g].token], job'[g].upd)
      BY <2>1, <2>2, <2>3, <3>1 DEF Working
    <3>2. ASSUME NEW g \in Handlers, NEW f \in Handlers, Working(g)', Working(f)',
                 job'[g].upd.event = job'[f].upd.event
          PROVE  g = f
      BY <2>1, <2>2, <2>3, <3>2 DEF Working, WayInv, JobsOK
    <3> QED
      BY <3>1, <3>2 DEF JobsOK
  <2>5. TargetsOK'
    <3>1. targets[h] = <<>>
      BY <2>1 DEF TypeOK, HandlersOK, Working
    <3>2. \A d : ~Holds(targets[h], d)
      BY <3>1 DEF Holds
    <3>3. \A d \in Dashboards : Early(d)' <=> Early(d)
      BY <2>1 DEF feedVars, Early
    <3> QED
      BY <2>1, <3>2, <3>3 DEF WayInv, TargetsOK
  <2>6. QueuesOK'
    BY <1>1, <2>1, KnownStays DEF WayInv, QueuesOK, feedVars, Early
  <2> QED
    BY <1>0, <2>1, <2>4, <2>5, <2>6 DEF WayInv
<1>3. ASSUME NEW h \in Handlers, Broadcast(h)
      PROVE  WayInv'
  <2>1. /\ UNCHANGED <<nextId, byToken, log, conn, since>>
        /\ \A g \in Handlers : g # h => pc'[g] = pc[g] /\ job'[g] = job[g] /\ targets'[g] = targets[g]
        /\ Working(h) /\ (pc'[h] # "idle" => job'[h] = job[h])
        /\ Distinct(targets'[h])
        /\ \A d \in Dashboards :
              /\ Holds(targets'[h], d) => Watches[d] = job'[h].token /\ ~Early(d)
              /\ \/ ch'[d] = ch[d]
                 \/ /\ ch'[d] = Append(ch[d], job[h].upd)
                    /\ Watches[d] = job[h].token /\ ~Early(d)
    BY <1>3, BroadcastWay
  <2>2. LogUnique' /\ ListsLogged'
    BY <2>1 DEF WayInv, LogUnique, ListsLogged
  <2>3. \A g \in Handlers : Working(g)' => Working(g) /\ job'[g] = job[g]
    BY <2>1 DEF Working
  <2>4. JobsOK'
    BY <2>1, <2>3 DEF WayInv, JobsOK
  <2>5. \A d \in Dashboards : Early(d)' <=> Early(d)
    BY <2>1 DEF Early
  <2>6. TargetsOK'
    <3> SUFFICES ASSUME NEW g \in Handlers
                 PROVE  /\ Distinct(targets'[g])
                        /\ \A d \in Dashboards : Holds(targets'[g], d) =>
                              Watches[d] = job'[g].token /\ ~Early(d)
      BY <2>5 DEF TargetsOK
    <3> QED
      BY <2>1 DEF WayInv, TargetsOK
  <2>7. job[h].upd \in Update /\ UpdateOK(log[job[h].token], job[h].upd)
    BY <2>1 DEF WayInv, JobsOK, TypeOK, HandlersOK, Working, Job
  <2>8. ASSUME NEW d \in Dashboards
        PROVE  /\ \A k \in DOMAIN ch'[d] : UpdateOK(log[Watches[d]], ch'[d][k])
               /\ IF Early(d) THEN ch'[d] = <<>> /\ since[d] = 0 ELSE since[d] # 0
    <3>1. /\ \A k \in DOMAIN ch[d] : UpdateOK(log[Watches[d]], ch[d][k])
          /\ IF Early(d) THEN ch[d] = <<>> /\ since[d] = 0 ELSE since[d] # 0
      BY DEF WayInv, QueuesOK
    <3>2. CASE ch'[d] = ch[d]
      BY <3>1, <3>2
    <3>3. CASE /\ ch'[d] = Append(ch[d], job[h].upd)
               /\ Watches[d] = job[h].token /\ ~Early(d)
      <4>1. ch[d] \in Seq(Update)
        BY DEF TypeOK
      <4>2. \A k \in DOMAIN ch'[d] : (k \in DOMAIN ch[d] /\ ch'[d][k] = ch[d][k]) \/ ch'[d][k] = job[h].upd
        BY <2>7, <3>3, <4>1, AppendToQueue
      <4> QED
        BY <2>7, <3>1, <3>3, <4>2
    <3> QED
      BY <2>1, <3>2, <3>3
  <2>9. QueuesOK'
    BY <2>1, <2>5, <2>8 DEF QueuesOK
  <2> QED
    BY <1>0, <2>2, <2>4, <2>6, <2>9 DEF WayInv
<1>4. ASSUME NEW d \in Dashboards, TakeSnapshot(d) \/ Register(d) \/ Stream(d) \/ Leave(d)
      PROVE  WayInv'
  <2>1. /\ UNCHANGED <<nextId, byToken, log, pc, job, targets>>
        /\ \A x \in Dashboards : x # d => conn'[x] = conn[x] /\ since'[x] = since[x] /\ ch'[x] = ch[x]
        /\ ch'[d] = ch[d] \/ (ch[d] # <<>> /\ ch'[d] = Tail(ch[d]))
        /\ Early(d)' => Early(d)
        /\ Early(d) => ch'[d] = ch[d] \/ ch[d] # <<>>
        /\ Register(d) => conn[d] = "snapshotted" /\ conn'[d] = "streaming" /\ since'[d] = nextId
        /\ ~Register(d) => since'[d] = since[d] /\ (Early(d)' <=> Early(d))
    BY <1>4, ConnectionWay
  <2>2. LogUnique' /\ ListsLogged'
    BY <2>1 DEF WayInv, LogUnique, ListsLogged
  <2>3. JobsOK'
    BY <2>1 DEF WayInv, JobsOK, Working
  <2>4. \A x \in Dashboards : Early(x)' => Early(x)
    BY <2>1 DEF Early
  <2>5. TargetsOK'
    BY <2>1, <2>4 DEF WayInv, TargetsOK
  <2>6. ASSUME NEW x \in Dashboards
        PROVE  /\ \A k \in DOMAIN ch'[x] : UpdateOK(log[Watches[x]], ch'[x][k])
               /\ IF Early(x)' THEN ch'[x] = <<>> /\ since'[x] = 0 ELSE since'[x] # 0
    <3>1. /\ \A k \in DOMAIN ch[x] : UpdateOK(log[Watches[x]], ch[x][k])
          /\ IF Early(x) THEN ch[x] = <<>> /\ since[x] = 0 ELSE since[x] # 0
          /\ ch[x] \in Seq(Update)
      BY DEF WayInv, QueuesOK, TypeOK
    <3>2. CASE x # d
      BY <2>1, <3>1, <3>2 DEF Early
    <3>3. CASE x = d
      <4>1. \A k \in DOMAIN ch'[x] : UpdateOK(log[Watches[x]], ch'[x][k])
        <5>1. CASE ch'[x] = ch[x]
          BY <3>1, <5>1
        <5>2. CASE ch[x] # <<>> /\ ch'[x] = Tail(ch[x])
          <6>1. \A k \in DOMAIN Tail(ch[x]) : k + 1 \in DOMAIN ch[x] /\ Tail(ch[x])[k] = ch[x][k + 1]
            BY <3>1, <5>2, TailOfQueue
          <6> QED
            BY <3>1, <5>2, <6>1
        <5> QED
          BY <2>1, <3>3, <5>1, <5>2
      <4>2. CASE Register(d)
        <5>1. since'[x] # 0
          BY <2>1, <3>3, <4>2 DEF TypeOK
        <5>2. ~Early(x)'
          BY <2>1, <3>3, <4>2 DEF Early
        <5> QED
          BY <4>1, <5>1, <5>2
      <4>3. CASE ~Register(d)
        BY <2>1, <3>1, <3>3, <4>1, <4>3
      <4> QED
        BY <4>2, <4>3
    <3> QED
      BY <3>2, <3>3
  <2>7. QueuesOK'
    BY <2>1, <2>6 DEF QueuesOK
  <2> QED
    BY <1>0, <2>2, <2>3, <2>5, <2>7 DEF WayInv
<1>5. CASE Tick \/ UNCHANGED vars
  <2>1. UNCHANGED <<nextId, byToken, log, pc, job, targets, conn, ch, since>>
    BY <1>5 DEF Tick, vars, storeVars, feedVars
  <2> QED
    BY <1>0, <2>1 DEF WayInv, LogUnique, ListsLogged, JobsOK, TargetsOK, QueuesOK, Working, Early
<1> QED
  BY <1>2, <1>3, <1>4, <1>5 DEF Next

-----------------------------------------------------------------------------
(***************************************************************************)
(* The rows of a page.  Up to some n they are those the server rendered,   *)
(* one for each query, all older than the page; after them come those a    *)
(* "record" update has added, again one for each query, none of which is   *)
(* announced again by an update that is queued or owed.  What is announced *)
(* is younger than the page or its broadcast was under way when it was     *)
(* rendered: so a query with two rows is one of the latter.                *)
(***************************************************************************)
Announces(u, x) == u.kind = "record" /\ u.rec.id = x
Late(x, from, early) == x >= from \/ x \in early
Once(rows, S) == \A i, j \in S : rows[i].id = rows[j].id => i = j
RowsKnown(rows, L) ==
    \A i \in DOMAIN rows :
        Known(L, rows[i].id, rows[i].ts) /\ Known(L, rows[i].detail, rows[i].ts)
Arrived(rows, n, from, early, queue, owed) ==
    /\ Once(rows, 1..n) /\ \A i \in 1..n : rows[i].id < from
    /\ Once(rows, (n + 1)..Len(rows))
    /\ \A i \in (n + 1)..Len(rows) :
          /\ Late(rows[i].id, from, early)
          /\ \A k \in DOMAIN queue : ~Announces(queue[k], rows[i].id)
          /\ \A u \in owed : ~Announces(u, rows[i].id)
ToCome(from, early, queue, owed) ==
    /\ \A k \in DOMAIN queue : \A x : Announces(queue[k], x) =>
          /\ Late(x, from, early)
          /\ \A j \in DOMAIN queue : Announces(queue[j], x) => j = k
          /\ \A u \in owed : ~Announces(u, x)
    /\ \A u \in owed : \A x : Announces(u, x) => Late(x, from, early)
RowsOK(rows, from, early, queue, owed, L) ==
    /\ RowsKnown(rows, L)
    /\ \E n \in 0..Len(rows) : Arrived(rows, n, from, early, queue, owed)
    /\ ToCome(from, early, queue, owed)

\* Less may be queued or owed, and more known.
LEMMA RowsKept ==
    ASSUME NEW rows, NEW from, NEW early, NEW queue \in Seq(Update), NEW owed, NEW L,
           RowsOK(rows, from, early, queue, owed, L),
           NEW rest, rest = queue \/ (queue # <<>> /\ rest = Tail(queue)),
           NEW due, \A u \in due : u \in owed \/ u.kind = "related",
           NEW M, L \subseteq M
    PROVE  RowsOK(rows, from, early, rest, due, M)
<1>1. RowsKnown(rows, M)
  BY KnownStays DEF RowsOK, RowsKnown
<1>2. \A u \in due : \A x : Announces(u, x) => u \in owed
  BY DEF Announces
<1>3. PICK shift \in {0, 1} :
         \A k \in DOMAIN rest : k \in Int /\ k + shift \in DOMAIN queue /\ rest[k] = queue[k + shift]
  <2>1. CASE rest = queue
    <3>1. \A k \in DOMAIN rest : k \in Int /\ k + 0 = k
      BY <2>1, LenProperties
    <3> QED
      BY <2>1, <3>1
  <2>2. CASE queue # <<>> /\ rest = Tail(queue)
    BY <2>2, TailOfQueue
  <2> QED
    BY <2>1, <2>2
<1>4. ASSUME NEW n \in 0..Len(rows), Arrived(rows, n, from, early, queue, owed)
      PROVE  Arrived(rows, n, from, early, rest, due)
  BY <1>2, <1>3, <1>4 DEF Arrived
<1>5. ToCome(from, early, rest, due)
  <2>1. ASSUME NEW k \in DOMAIN rest, NEW x, Announces(rest[k], x)
        PROVE  /\ Late(x, from, early)
               /\ \A j \in DOMAIN rest : Announces(rest[j], x) => j = k
               /\ \A u \in due : ~Announces(u, x)
    <3>1. k + shift \in DOMAIN queue /\ Announces(queue[k + shift], x)
      BY <1>3, <2>1
    <3>2. /\ Late(x, from, early)
          /\ \A j \in DOMAIN queue : Announces(queue[j], x) => j = k + shift
          /\ \A u \in owed : ~Announces(u, x)
      BY <3>1 DEF RowsOK, ToCome
    <3>3. ASSUME NEW j \in DOMAIN rest, Announces(rest[j], x)
          PROVE  j = k
      <4>1. j + shift = k + shift
        BY <1>3, <3>2, <3>3
      <4> QED
        BY <1>3, <4>1
    <3> QED
      BY <1>2, <3>2, <3>3
  <2>2. \A u \in due : \A x : Announces(u, x) => Late(x, from, early)
    BY <1>2 DEF RowsOK, ToCome
  <2> QED
    BY <2>1, <2>2 DEF ToCome
<1> QED
  BY <1>1, <1>4, <1>5 DEF RowsOK

\* A new query, numbered after all that are known, is announced to every page.
LEMMA RowsAnnounced ==
    ASSUME NEW rows, NEW from \in Int, NEW early, NEW queue, NEW owed, NEW L,
           RowsOK(rows, from, early, queue, owed, L),
           NEW u, u.rec.id >= from,
           \A i \in DOMAIN rows : rows[i].id # u.rec.id,
           \A k \in DOMAIN queue : queue[k].rec.id # u.rec.id,
           DOMAIN rows = 1..Len(rows), Len(rows) \in Nat,
           NEW due, \A v \in due : v \in owed \/ v = u,
           NEW M, L \subseteq M
    PROVE  RowsOK(rows, from, early, queue, due, M)
<1>1. RowsKnown(rows, M)
  BY KnownStays DEF RowsOK, RowsKnown
<1>2. ASSUME NEW n \in 0..Len(rows), Arrived(rows, n, from, early, queue, owed)
      PROVE  Arrived(rows, n, from, early, queue, due)
  <2>1. \A i \in (n + 1)..Len(rows) : i \in DOMAIN rows
    OBVIOUS
  <2> QED
    BY <1>2, <2>1 DEF Arrived, Announces
<1>3. ToCome(from, early, queue, due)
  <2>1. \A k \in DOMAIN queue : \A x : Announces(queue[k], x) => ~Announces(u, x)
    BY DEF Announces
  <2>2. \A x : Announces(u, x) => Late(x, from, early)
    BY DEF Announces, Late
  <2> QED
    BY <2>1, <2>2 DEF RowsOK, ToCome
<1> QED
  BY <1>1, <1>2, <1>3 DEF RowsOK

\* An update that is owed joins the queue, and nobody owes another announcing the same.
LEMMA RowsSent ==
    ASSUME NEW rows, NEW from, NEW early, NEW queue \in Seq(Update), NEW owed, NEW L,
           RowsOK(rows, from, early, queue, owed, L),
           NEW u \in Update, u \in owed, NEW due \in SUBSET owed,
           \A x : Announces(u, x) => \A v \in due : ~Announces(v, x)
    PROVE  RowsOK(rows, from, early, Append(queue, u), due, L)
<1> DEFINE more == Append(queue, u)
<1>1. /\ DOMAIN queue = 1..Len(queue) /\ Len(queue) \in Nat
      /\ DOMAIN more = 1..(Len(queue) + 1) /\ more[Len(queue) + 1] = u
      /\ \A k \in DOMAIN queue : more[k] = queue[k]
  BY AppendToQueue
<1>2. \A k \in DOMAIN more : k \in DOMAIN queue \/ k = Len(queue) + 1
  BY <1>1
<1> HIDE DEF more
<1>3. ASSUME NEW n \in 0..Len(rows), Arrived(rows, n, from, early, queue, owed)
      PROVE  Arrived(rows, n, from, early, more, due)
  <2>1. ASSUME NEW i \in (n + 1)..Len(rows)
        PROVE  /\ Late(rows[i].id, from, early)
               /\ \A k \in DOMAIN more : ~Announces(more[k], rows[i].id)
               /\ \A v \in due : ~Announces(v, rows[i].id)
    BY <1>1, <1>2, <1>3 DEF Arrived
  <2> QED
    BY <1>3, <2>1 DEF Arrived
<1>4. ToCome(from, early, more, due)
  <2>1. ASSUME NEW k \in DOMAIN more, NEW x, Announces(more[k], x)
        PROVE  /\ Late(x, from, early)
               /\ \A j \in DOMAIN more : Announces(more[j], x) => j = k
               /\ \A v \in due : ~Announces(v, x)
    <3>1. CASE k \in DOMAIN queue
      <4>1. /\ Late(x, from, early)
            /\ \A j \in DOMAIN queue : Announces(queue[j], x) => j = k
            /\ \A v \in owed : ~Announces(v, x)
        BY <1>1, <2>1, <3>1 DEF RowsOK, ToCome
      <4> QED
        BY <1>1, <1>2, <4>1
    <3>2. CASE k = Len(queue) + 1
      <4>1. Announces(u, x) /\ Late(x, from, early)
        BY <1>1, <2>1, <3>2 DEF RowsOK, ToCome
      <4>2. \A j \in DOMAIN queue : ~Announces(queue[j], x)
        BY <4>1 DEF RowsOK, ToCome
      <4> QED
        BY <1>1, <1>2, <3>2, <4>1, <4>2
    <3> QED
      BY <1>2, <3>1, <3>2
  <2>2. \A v \in due : \A x : Announces(v, x) => Late(x, from, early)
    BY DEF RowsOK, ToCome
  <2> QED
    BY <2>1, <2>2 DEF ToCome
<1>5. RowsOK(rows, from, early, more, due, L)
  BY <1>3, <1>4 DEF RowsOK
<1> QED
  BY <1>5 DEF more

\* The script's merge: a "record" update adds its row at the end, a "related" one
\* changes the details of the first row with the query's timestamp.
FirstAt(rows, i, ts) ==
    i \in DOMAIN rows /\ rows[i].ts = ts /\ \A j \in DOMAIN rows : rows[j].ts = ts => i <= j

LEMMA MergedRecord ==
    ASSUME NEW rows \in Seq(Row), NEW u \in Update, u.kind = "record"
    PROVE  /\ Merged(rows, u) = Append(rows, RowOf(u.rec)) /\ RowOf(u.rec) \in Row
           /\ Merged(rows, u) \in Seq(Row)
           /\ DOMAIN rows = 1..Len(rows) /\ Len(rows) \in Nat
           /\ Len(Merged(rows, u)) = Len(rows) + 1
           /\ DOMAIN Merged(rows, u) = 1..(Len(rows) + 1)
           /\ Merged(rows, u)[Len(rows) + 1] = RowOf(u.rec)
           /\ \A i \in DOMAIN rows : Merged(rows, u)[i] = rows[i]
<1>1. Merged(rows, u) = Append(rows, RowOf(u.rec))
  BY DEF Merged
<1>2. RowOf(u.rec) \in Row
  BY RowOfType DEF Update
<1> QED
  BY <1>1, <1>2, AppendToQueue

LEMMA MergedRelated ==
    ASSUME NEW rows \in Seq(Row), NEW u \in Update, u.kind = "related"
    PROVE  /\ Merged(rows, u) \in Seq(Row)
           /\ DOMAIN rows = 1..Len(rows) /\ Len(rows) \in Nat
           /\ Len(Merged(rows, u)) = Len(rows) /\ DOMAIN Merged(rows, u) = DOMAIN rows
           /\ \A i \in DOMAIN rows :
                 /\ Merged(rows, u)[i].id = rows[i].id /\ Merged(rows, u)[i].ts = rows[i].ts
                 /\ FirstAt(rows, i, u.rec.ts) =>
                       /\ Merged(rows, u)[i].detail = u.rec.id
                       /\ Merged(rows, u)[i].related = RelIds(u.rec)
                 /\ ~FirstAt(rows, i, u.rec.ts) => Merged(rows, u)[i] = rows[i]
<1> DEFINE same == {i \in DOMAIN rows : rows[i].ts = u.rec.ts}
           first == CHOOSE i \in same : \A j \in same : i <= j
           new == [rows EXCEPT ![first].detail = u.rec.id, ![first].related = RowOf(u.rec).related]
<1>1. DOMAIN rows = 1..Len(rows) /\ Len(rows) \in Nat /\ same \in SUBSET Nat
  BY LenProperties
<1>2. u.rec \in DiagRecord /\ RowOf(u.rec).related = RelIds(u.rec) /\ RelIds(u.rec) \in SUBSET Ids
  BY DEF Update, RowOf, RelIds, DiagRecord, Event
<1>3. CASE same = {}
  <2>1. Merged(rows, u) = rows
    BY <1>3 DEF Merged
  <2>2. \A i : ~FirstAt(rows, i, u.rec.ts)
    BY <1>3 DEF FirstAt
  <2> QED
    BY <1>1, <2>1, <2>2
<1>4. CASE same # {}
  <2>1. \E i \in same : \A j \in same : i <= j
    <3> HIDE DEF same
    <3> QED
      BY <1>1, <1>4, Order!LeastNumber
  <2>2. first \in same /\ \A j \in same : first <= j
    <3> HIDE DEF same
    <3> QED
      BY <2>1
  <2>3. Merged(rows, u) = new
    BY <1>4, Zenon DEF Merged
  <2>4. \A i : FirstAt(rows, i, u.rec.ts) <=> i = first
    <3>1. FirstAt(rows, first, u.rec.ts)
      BY <2>2 DEF FirstAt
    <3>2. ASSUME NEW i, FirstAt(rows, i, u.rec.ts)
          PROVE  i = first
      <4>1. i \in same /\ i <= first /\ first <= i
        BY <2>2, <3>2 DEF FirstAt
      <4> QED
        BY <1>1, <2>2, <4>1
    <3> QED
      BY <3>1, <3>2
  <2>5. first \in DOMAIN rows
    BY <2>2
  <2> HIDE DEF first
  <2>6. /\ DOMAIN new = DOMAIN rows
        /\ \A i \in DOMAIN rows : i # first => new[i] = rows[i]
        /\ new[first] = [rows[first] EXCEPT !.detail = u.rec.id, !.related = RowOf(u.rec).related]
    BY <2>5
  <2>7. \A i \in DOMAIN rows : rows[i] \in Row
    BY <1>1
  <2>8. /\ new[first].id = rows[first].id /\ new[first].ts = rows[first].ts
        /\ new[first].detail = u.rec.id /\ new[first].related = RelIds(u.rec)
        /\ new[first] \in Row
    BY <1>2, <2>5, <2>6, <2>7 DEF Row, DiagRecord
  <2>9. new = [i \in 1..Len(rows) |-> new[i]] /\ \A i \in 1..Len(rows) : new[i] \in Row
    BY <1>1, <2>6, <2>7, <2>8
  <2>10. new \in Seq(Row) /\ Len(new) = Len(rows)
    <3> HIDE DEF new
    <3> QED
      BY <1>1, <2>9
  <2> HIDE DEF new
  <2> QED
    BY <1>1, <2>3, <2>4, <2>6, <2>8, <2>10
<1> QED
  BY <1>3, <1>4

\* The first update in the queue reaches the script.
LEMMA RowsDelivered ==
    ASSUME NEW rows \in Seq(Row), NEW from \in Int, NEW early, NEW queue \in Seq(Update),
           queue # <<>>, NEW owed, NEW L, RowsOK(rows, from, early, queue, owed, L),
           UpdateOK(L, Head(queue))
    PROVE  RowsOK(Merged(rows, Head(queue)), from, early, Tail(queue), owed, L)
<1> DEFINE u == Head(queue)
           new == Merged(rows, u)
<1>1. RowsOK(rows, from, early, Tail(queue), owed, L)
  BY RowsKept
<1>2. ToCome(from, early, Tail(queue), owed)
  BY <1>1 DEF RowsOK
<1>3. u \in Update /\ queue[1] = u /\ 1 \in DOMAIN queue
  BY TailOfQueue
<1>4. PICK n \in 0..Len(rows) :
         /\ Arrived(rows, n, from, early, Tail(queue), owed)
         /\ Arrived(rows, n, from, early, queue, owed)
  <2>1. PICK n \in 0..Len(rows) : Arrived(rows, n, from, early, queue, owed)
    BY DEF RowsOK
  <2>2. \A k \in DOMAIN Tail(queue) : k + 1 \in DOMAIN queue /\ Tail(queue)[k] = queue[k + 1]
    BY TailOfQueue
  <2>3. Arrived(rows, n, from, early, Tail(queue), owed)
    BY <2>1, <2>2 DEF Arrived
  <2> QED
    BY <2>1, <2>3
<1>5. CASE u.kind = "record"
  <2>1. /\ DOMAIN rows = 1..Len(rows) /\ Len(rows) \in Nat
        /\ Len(new) = Len(rows) + 1 /\ DOMAIN new = 1..(Len(rows) + 1)
        /\ new[Len(rows) + 1] = RowOf(u.rec)
        /\ \A i \in DOMAIN rows : new[i] = rows[i]
    BY <1>3, <1>5, MergedRecord
  <2>2. RowOf(u.rec).id = u.rec.id /\ RowOf(u.rec).detail = u.rec.id /\ RowOf(u.rec).ts = u.rec.ts
    BY DEF RowOf
  <2>3. Known(L, u.rec.id, u.rec.ts)
    BY DEF UpdateOK
  <2>4. Announces(u, u.rec.id)
    BY <1>5 DEF Announces
  <2>5. /\ Late(u.rec.id, from, early)
        /\ \A j \in DOMAIN queue : Announces(queue[j], u.rec.id) => j = 1
        /\ \A v \in owed : ~Announces(v, u.rec.id)
    BY <1>3, <2>4 DEF RowsOK, ToCome
  <2>6. \A k \in DOMAIN Tail(queue) : ~Announces(Tail(queue)[k], u.rec.id)
    BY <2>5, TailOfQueue
  <2>7. \A i \in (n + 1)..Len(rows) : rows[i].id # u.rec.id
    BY <1>3, <1>4, <2>4 DEF Arrived
  <2> HIDE DEF u, new
  <2>8. RowsKnown(new, L)
    <3>1. \A i \in DOMAIN new : i \in DOMAIN rows \/ i = Len(rows) + 1
      BY <2>1
    <3> QED
      BY <2>1, <2>2, <2>3, <3>1 DEF RowsOK, RowsKnown
  <2>9. Arrived(new, n, from, early, Tail(queue), owed)
    <3>1. /\ \A i \in 1..n : i \in DOMAIN rows
          /\ \A i \in (n + 1)..Len(new) : i \in (n + 1)..Len(rows) \/ i = Len(rows) + 1
          /\ \A i \in (n + 1)..Len(rows) : i \in DOMAIN rows
      BY <2>1
    <3>2. Once(new, 1..n) /\ \A i \in 1..n : new[i].id < from
      BY <1>4, <2>1, <3>1 DEF Arrived, Once
    <3>3. Once(new, (n + 1)..Len(new))
      <4>1. ASSUME NEW i \in (n + 1)..Len(rows)
            PROVE  new[i].id = rows[i].id /\ new[i].id # new[Len(rows) + 1].id
        BY <2>1, <2>2, <2>7, <3>1, <4>1
      <4>2. \A i, j \in (n + 1)..Len(rows) : rows[i].id = rows[j].id => i = j
        BY <1>4 DEF Arrived, Once
      <4>3. ASSUME NEW i \in (n + 1)..Len(new), NEW j \in (n + 1)..Len(new), new[i].id = new[j].id
            PROVE  i = j
        BY <3>1, <4>1, <4>2, <4>3
      <4> QED
        BY <4>3 DEF Once
    <3>4. ASSUME NEW i \in (n + 1)..Len(new)
          PROVE  /\ Late(new[i].id, from, early)
                 /\ \A k \in DOMAIN Tail(queue) : ~Announces(Tail(queue)[k], new[i].id)
                 /\ \A v \in owed : ~Announces(v, new[i].id)
      <4>1. CASE i \in (n + 1)..Len(rows)
        BY <1>4, <2>1, <3>1, <4>1 DEF Arrived
      <4>2. CASE i = Len(rows) + 1
        BY <2>1, <2>2, <2>5, <2>6, <4>2
      <4> QED
        BY <3>1, <4>1, <4>2
    <3> QED
      BY <3>2, <3>3, <3>4 DEF Arrived
  <2>10. n \in 0..Len(new)
    BY <2>1
  <2>11. RowsOK(new, from, early, Tail(queue), owed, L)
    BY <1>2, <2>8, <2>9, <2>10 DEF RowsOK
  <2> QED
    BY <2>11 DEF new, u
<1>6. CASE u.kind = "related"
  <2>1. /\ DOMAIN rows = 1..Len(rows) /\ Len(rows) \in Nat
        /\ Len(new) = Len(rows) /\ DOMAIN new = DOMAIN rows
        /\ \A i \in DOMAIN rows :
              /\ new[i].id = rows[i].id /\ new[i].ts = rows[i].ts
              /\ FirstAt(rows, i, u.rec.ts) => new[i].detail = u.rec.id
              /\ ~FirstAt(rows, i, u.rec.ts) => new[i] = rows[i]
    BY <1>3, <1>6, MergedRelated
  <2>2. Known(L, u.rec.id, u.rec.ts)
    BY DEF UpdateOK
  <2> HIDE DEF u, new
  <2>3. RowsKnown(new, L)
    <3>1. ASSUME NEW i \in DOMAIN new
          PROVE  Known(L, new[i].id, new[i].ts) /\ Known(L, new[i].detail, new[i].ts)
      <4>1. CASE FirstAt(rows, i, u.rec.ts)
        <5>1. rows[i].ts = u.rec.ts
          BY <4>1 DEF FirstAt
        <5> QED
          BY <2>1, <2>2, <4>1, <5>1 DEF RowsOK, RowsKnown
      <4>2. CASE ~FirstAt(rows, i, u.rec.ts)
        BY <2>1, <4>2 DEF RowsOK, RowsKnown
      <4> QED
        BY <4>1, <4>2
    <3> QED
      BY <3>1 DEF RowsKnown
  <2>4. Arrived(new, n, from, early, Tail(queue), owed)
    <3>1. /\ \A i \in 1..n : i \in DOMAIN rows
          /\ \A i \in (n + 1)..Len(rows) : i \in DOMAIN rows
      BY <2>1
    <3> QED
      BY <1>4, <2>1, <3>1 DEF Arrived, Once
  <2>5. RowsOK(new, from, early, Tail(queue), owed, L)
    BY <1>2, <2>1, <2>3, <2>4 DEF RowsOK
  <2> QED
    BY <2>5 DEF new, u
<1>7. u.kind \in {"record", "related"}
  BY <1>3 DEF Update
<1> QED
  BY <1>5, <1>6, <1>7

\* The page as the server renders it: nothing is queued for it yet, and what is owed
\* is what is being broadcast.
LEMMA RowsRendered ==
    ASSUME NEW S \in SUBSET DiagRecord, IsFiniteSet(S), \A r, o \in S : r.id = o.id => r = o,
           NEW L, NEW from, NEW early, NEW owed,
           \A r \in S : Known(L, r.id, r.ts) /\ r.id < from,
           \A u \in owed : \A x : Announces(u, x) => x \in early
    PROVE  RowsOK(RowsOf(S), from, early, <<>>, owed, L)
<1> DEFINE rows == RowsOf(S)
<1>1. /\ rows \in Seq(Row)
      /\ \A i \in DOMAIN rows : \E r \in S : rows[i] = RowOf(r)
      /\ \A i, j \in DOMAIN rows : rows[i].id = rows[j].id => i = j
  BY RowsOfRecords
<1> HIDE DEF rows
<1>2. DOMAIN rows = 1..Len(rows) /\ Len(rows) \in Nat
  BY <1>1, LenProperties
<1>3. \A i \in DOMAIN rows : /\ Known(L, rows[i].id, rows[i].ts) /\ Known(L, rows[i].detail, rows[i].ts)
                             /\ rows[i].id < from
  BY <1>1 DEF RowOf
<1>4. Arrived(rows, Len(rows), from, early, <<>>, owed)
  <2>1. \A i : i \notin (Len(rows) + 1)..Len(rows)
    BY <1>2
  <2> QED
    BY <1>1, <1>2, <1>3, <2>1 DEF Arrived, Once
<1>5. ToCome(from, early, <<>>, owed)
  BY DEF ToCome, Late
<1>6. RowsOK(rows, from, early, <<>>, owed, L)
  BY <1>2, <1>3, <1>4, <1>5 DEF RowsOK, RowsKnown
<1> QED
  BY <1>6 DEF rows

-----------------------------------------------------------------------------
(***************************************************************************)
(* The pages through the steps of the service.                             *)
(***************************************************************************)
OwedTo(d) == {job[h].upd : h \in {g \in Handlers : Owes(g, d)}}
PageOK ==
    /\ page \in [Dashboards -> Seq(Row)]
    /\ loaded \in [Dashboards -> Nat]
    /\ pending \in [Dashboards -> SUBSET Ids]
    /\ \A d \in Dashboards :
          /\ loaded[d] <= nextId
          /\ conn[d] # "upgraded" => loaded[d] # 0
          /\ loaded[d] = 0 => page[d] = <<>>
RowsHold(d) == RowsOK(page[d], loaded[d], pending[d], ch[d], OwedTo(d), log[Watches[d]])
PageInv == PageOK /\ \A d \in Dashboards : RowsHold(d)

LEMMA InitPageInv == ServiceInit => PageInv
<1> SUFFICES ASSUME ServiceInit PROVE PageInv
  OBVIOUS
<1>1. /\ page = [d \in Dashboards |-> <<>>] /\ loaded = [d \in Dashboards |-> 0]
      /\ pending = [d \in Dashboards |-> {}] /\ nextId = 1
      /\ \A d \in Dashboards : conn[d] = "upgraded" /\ ch[d] = <<>>
      /\ \A h \in Handlers : ~Working(h)
  BY DEF ServiceInit, Init, Working
<1>2. PageOK
  BY <1>1 DEF PageOK
<1>3. ASSUME NEW d \in Dashboards
      PROVE  RowsOK(<<>>, 0, {}, <<>>, {}, log[Watches[d]])
  <2>1. Arrived(<<>>, 0, 0, {}, <<>>, {})
    BY DEF Arrived, Once
  <2> QED
    BY <2>1 DEF RowsOK, RowsKnown, ToCome
<1>4. \A d \in Dashboards : OwedTo(d) = {}
  BY <1>1 DEF OwedTo, Owes
<1> QED
  BY <1>1, <1>2, <1>3, <1>4 DEF PageInv, RowsHold

\* Where nothing is added to the queue, or owed but a related query, the rows stay.
LEMMA RowsHoldOn ==
    ASSUME TypeOK, PageInv, NEW d \in Dashboards,
           page'[d] = page[d], loaded'[d] = loaded[d], pending'[d] = pending[d],
           ch'[d] = ch[d] \/ (ch[d] # <<>> /\ ch'[d] = Tail(ch[d])),
           \A u \in OwedTo(d)' : u \in OwedTo(d) \/ u.kind = "related",
           log[Watches[d]] \subseteq log'[Watches[d]]
    PROVE  RowsHold(d)'
<1>1. ch[d] \in Seq(Update) /\ RowsOK(page[d], loaded[d], pending[d], ch[d], OwedTo(d), log[Watches[d]])
  BY DEF TypeOK, PageInv, RowsHold
<1> DEFINE due == OwedTo(d)'
<1>2. \A u \in due : u \in OwedTo(d) \/ u.kind = "related"
  OBVIOUS
<1> HIDE DEF due
<1>3. RowsOK(page[d], loaded[d], pending[d], ch'[d], due, log'[Watches[d]])
  BY <1>1, <1>2, RowsKept
<1> QED
  BY <1>3 DEF RowsHold, due

\* Storing an event.
LEMMA RowsThroughStoring ==
    ASSUME TypeOK, WayInv, PageInv, UNCHANGED pageVars, NEW d \in Dashboards,
           NEW h \in Handlers, NEW t \in Tokens, NEW c \in Clients,
           Record(h, t, c) \/ AppendRelated(h, t, c)
    PROVE  RowsHold(d)'
<1> DEFINE u == job'[h].upd
           due == OwedTo(d)'
<1>1. /\ ~Working(h) /\ u.event = nextId /\ job'[h] \in Job
      /\ UpdateOK(log'[t], u)
      /\ \A g \in Handlers : g # h => pc'[g] = pc[g] /\ job'[g] = job[g]
      /\ UNCHANGED <<targets, feedVars>>
      /\ \A v \in Tokens : log[v] \subseteq log'[v]
  BY StoringWay
<1>2. Watches[d] \in Tokens /\ log[Watches[d]] \subseteq log'[Watches[d]]
  BY <1>1, DiagAssumption
<1>3. /\ page'[d] = page[d] /\ loaded'[d] = loaded[d] /\ pending'[d] = pending[d] /\ ch'[d] = ch[d]
  BY <1>1 DEF pageVars, feedVars
<1>4. \A v \in due : v \in OwedTo(d) \/ v = u
  <2>1. \A g \in Handlers : g # h /\ Owes(g, d)' => Owes(g, d) /\ job'[g] = job[g]
    BY <1>1 DEF Owes, Working
  <2> QED
    BY <2>1 DEF OwedTo
<1>5. u \in Update
  BY <1>1 DEF Job
<1>6. CASE u.kind = "related"
  BY <1>2, <1>3, <1>4, <1>6, RowsHoldOn
<1>7. CASE u.kind = "record"
  <2>1. u.rec.id = nextId
    BY <1>1, <1>7 DEF UpdateOK
  <2>2. \A id, ts : Known(log[Watches[d]], id, ts) => id # nextId
    <3>1. \A r \in log[Watches[d]] : r.id < nextId /\ r.id \in Int
      BY <1>2 DEF WayInv, LogNumbered, TypeOK, DiagRecord, Ids
    <3> QED
      BY <3>1 DEF Known, TypeOK
  <2>3. \A i \in DOMAIN page[d] : page[d][i].id # u.rec.id
    BY <2>1, <2>2 DEF PageInv, RowsHold, RowsOK, RowsKnown
  <2>4. \A k \in DOMAIN ch[d] : ch[d][k].rec.id # u.rec.id
    BY <2>1, <2>2 DEF WayInv, QueuesOK, UpdateOK
  <2>5. DOMAIN page[d] = 1..Len(page[d]) /\ Len(page[d]) \in Nat
    BY LenProperties DEF PageInv, PageOK
  <2>6. u.rec.id >= loaded[d] /\ loaded[d] \in Int
    BY <2>1 DEF PageInv, PageOK, TypeOK
  <2>7. RowsOK(page[d], loaded[d], pending[d], ch[d], OwedTo(d), log[Watches[d]])
    BY DEF PageInv, RowsHold
  <2> HIDE DEF due, u
  <2>8. RowsOK(page[d], loaded[d], pending[d], ch[d], due, log'[Watches[d]])
    BY <1>2, <1>4, <2>3, <2>4, <2>5, <2>6, <2>7, RowsAnnounced
  <2> QED
    BY <1>3, <2>8 DEF RowsHold, due
<1> QED
  BY <1>5, <1>6, <1>7 DEF Update

\* A step of a broadcast.
LEMMA RowsThroughBroadcast ==
    ASSUME TypeOK, SubsInv, WayInv, PageInv, UNCHANGED pageVars, NEW d \in Dashboards,
           NEW h \in Handlers, Broadcast(h)
    PROVE  RowsHold(d)'
<1> DEFINE u == job[h].upd
           due == OwedTo(d)'
<1>1. /\ log' = log
      /\ \A g \in Handlers : g # h => pc'[g] = pc[g] /\ job'[g] = job[g] /\ targets'[g] = targets[g]
      /\ Working(h) /\ (pc'[h] # "idle" => job'[h] = job[h])
      /\ Owes(h, d)' => Owes(h, d)
      /\ \/ ch'[d] = ch[d]
         \/ ch'[d] = Append(ch[d], u) /\ Owes(h, d) /\ ~Owes(h, d)'
  BY BroadcastWay
<1>2. /\ page'[d] = page[d] /\ loaded'[d] = loaded[d] /\ pending'[d] = pending[d]
  BY DEF pageVars
<1>3. \A g \in Handlers : Owes(g, d)' => Owes(g, d) /\ job'[g] = job[g]
  <2>1. \A g \in Handlers : g # h /\ Owes(g, d)' => Owes(g, d)
    BY <1>1 DEF Owes, Working
  <2>2. \A g \in Handlers : Owes(g, d)' => pc'[g] # "idle"
    BY DEF Owes, Working
  <2> QED
    BY <1>1, <2>1, <2>2
<1>4. due \in SUBSET OwedTo(d)
  BY <1>3 DEF OwedTo
<1>5. CASE ch'[d] = ch[d]
  BY <1>1, <1>2, <1>4, <1>5, RowsHoldOn
<1>6. CASE ch'[d] = Append(ch[d], u) /\ Owes(h, d) /\ ~Owes(h, d)'
  <2>1. u \in OwedTo(d) /\ u \in Update
    BY <1>1, <1>6 DEF OwedTo, TypeOK, HandlersOK, Working, Job
  <2>2. ASSUME NEW x, Announces(u, x), NEW v \in due, Announces(v, x)
        PROVE  FALSE
    <3>1. PICK g \in Handlers : Owes(g, d)' /\ v = job'[g].upd
      BY <2>2 DEF OwedTo
    <3>2. g # h /\ Working(g) /\ v = job[g].upd
      BY <1>3, <1>6, <3>1 DEF Owes
    <3>3. v.event = x /\ u.event = x
      BY <1>1, <2>2, <3>2 DEF WayInv, JobsOK, UpdateOK, Announces
    <3> QED
      BY <1>1, <3>2, <3>3 DEF WayInv, JobsOK
  <2>3. /\ RowsOK(page[d], loaded[d], pending[d], ch[d], OwedTo(d), log[Watches[d]])
        /\ ch[d] \in Seq(Update)
    BY DEF PageInv, RowsHold, TypeOK
  <2> HIDE DEF due, u
  <2>4. RowsOK(page[d], loaded[d], pending[d], Append(ch[d], u), due, log[Watches[d]])
    BY <1>4, <2>1, <2>2, <2>3, RowsSent
  <2> QED
    BY <1>1, <1>2, <1>6, <2>4 DEF RowsHold, due
<1> QED
  BY <1>1, <1>5, <1>6

\* A step of a connection that leaves the pages alone.
LEMMA RowsThroughConnection ==
    ASSUME TypeOK, PageInv, UNCHANGED pageVars, NEW x \in Dashboards,
           NEW d \in Dashboards, TakeSnapshot(d) \/ Register(d) \/ Stream(d) \/ Leave(d)
    PROVE  RowsHold(x)'
<1>1. /\ UNCHANGED <<log, pc, job, targets>>
      /\ x # d => ch'[x] = ch[x]
      /\ ch'[d] = ch[d] \/ (ch[d] # <<>> /\ ch'[d] = Tail(ch[d]))
  BY ConnectionWay
<1>2. page'[x] = page[x] /\ loaded'[x] = loaded[x] /\ pending'[x] = pending[x]
  BY DEF pageVars
<1>3. OwedTo(x)' = OwedTo(x)
  BY <1>1 DEF OwedTo, Owes, Working
<1>4. ch'[x] = ch[x] \/ (ch[x] # <<>> /\ ch'[x] = Tail(ch[x]))
  BY <1>1
<1> QED
  BY <1>1, <1>2, <1>3, <1>4, RowsHoldOn

\* The server renders a page.
LEMMA RowsThroughLoad ==
    ASSUME TypeOK, StoreInv, WayInv, PageInv, NEW d \in Dashboards, LoadPage(d)
    PROVE  PageInv'
<1> DEFINE S == Pruned(Watches[d])
<1>1. /\ page' = [page EXCEPT ![d] = RowsOf(S)]
      /\ loaded' = [loaded EXCEPT ![d] = nextId]
      /\ pending' = [pending EXCEPT ![d] =
             {job[h].upd.event : h \in {g \in Handlers : pc[g] # "idle"}}]
      /\ conn[d] = "upgraded" /\ UNCHANGED vars
  BY DEF LoadPage
<1>2. Watches[d] \in Tokens /\ nextId \in Nat \ {0}
  BY DiagAssumption DEF TypeOK
<1>3. S \subseteq byToken[Watches[d]] /\ byToken[Watches[d]] \in SUBSET DiagRecord
  BY <1>2 DEF Pruned, TypeOK
<1>4. IsFiniteSet(byToken[Watches[d]])
  BY <1>2 DEF StoreInv, Finite
<1>5. /\ S \in SUBSET DiagRecord /\ IsFiniteSet(S)
      /\ \A r, o \in S : r.id = o.id => r = o
      /\ \A r \in S : Known(log[Watches[d]], r.id, r.ts) /\ r.id < nextId
  <2>1. S \in SUBSET DiagRecord /\ IsFiniteSet(S)
    <3> HIDE DEF S
    <3> QED
      BY <1>3, <1>4, FS_Subset
  <2>2. /\ \A r, o \in S : r.id = o.id => r = o
        /\ \A r \in S : Known(log[Watches[d]], r.id, r.ts) /\ r.id < nextId
    BY <1>2, <1>3 DEF StoreInv, Numbered, WayInv, ListsLogged
  <2> QED
    BY <2>1, <2>2
<1>6. RowsOf(S) \in Seq(Row)
  <2> HIDE DEF S
  <2> QED
    BY <1>5, RowsOfRecords
<1>7. \A h \in Handlers : pc[h] # "idle" => job[h].upd.event \in Ids
  BY DEF TypeOK, HandlersOK, Job, Update
<1>8. PageOK'
  <2> HIDE DEF S
  <2>1. pending' \in [Dashboards -> SUBSET Ids]
    BY <1>1, <1>7 DEF PageInv, PageOK
  <2> QED
    BY <1>1, <1>2, <1>6, <2>1 DEF PageInv, PageOK, vars
<1>9. \A x \in Dashboards : OwedTo(x)' = OwedTo(x)
  BY <1>1 DEF OwedTo, Owes, Working, vars
<1>10. ASSUME NEW x \in Dashboards, x # d
       PROVE  RowsHold(x)'
  BY <1>1, <1>9, <1>10 DEF PageInv, PageOK, RowsHold, vars
<1>11. RowsHold(d)'
  <2>1. ch[d] = <<>>
    BY <1>1 DEF WayInv, QueuesOK, Early
  <2>2. \A u \in OwedTo(d) : \A x : Announces(u, x) => x \in pending'[d]
    <3>1. \A h \in Handlers : Working(h) => job[h].upd.event \in pending'[d]
      BY <1>1 DEF PageInv, PageOK, Working
    <3> QED
      BY <3>1 DEF OwedTo, Owes, Announces, WayInv, JobsOK, UpdateOK
  <2>3. page'[d] = RowsOf(S) /\ loaded'[d] = nextId
    BY <1>1 DEF PageInv, PageOK
  <2> HIDE DEF S
  <2>4. RowsOK(RowsOf(S), nextId, pending'[d], <<>>, OwedTo(d), log[Watches[d]])
    BY <1>5, <2>2, RowsRendered
  <2> QED
    BY <1>1, <1>9, <2>1, <2>3, <2>4 DEF RowsHold, vars
<1> QED
  BY <1>8, <1>10, <1>11 DEF PageInv

\* The script takes an update.
LEMMA RowsThroughDelivery ==
    ASSUME TypeOK, WayInv, PageInv, NEW d \in Dashboards, DeliverUpdate(d)
    PROVE  PageInv'
<1> DEFINE u == Head(ch[d])
<1>1. /\ page' = [page EXCEPT ![d] = Merged(@, u)] /\ loaded' = loaded /\ pending' = pending
      /\ ch[d] # <<>> /\ ch' = [ch EXCEPT ![d] = Tail(@)]
      /\ UNCHANGED <<nextId, log, pc, job, targets, conn>>
      /\ conn[d] = "streaming"
  BY DEF DeliverUpdate, WriteUpdate, storeVars
<1>2. /\ ch[d] \in Seq(Update) /\ page[d] \in Seq(Row) /\ loaded[d] \in Nat /\ loaded[d] # 0
  BY <1>1 DEF TypeOK, PageInv, PageOK
<1>3. u \in Update /\ UpdateOK(log[Watches[d]], u)
  <2>1. u \in Update /\ 1 \in DOMAIN ch[d] /\ u = ch[d][1]
    BY <1>1, <1>2, TailOfQueue
  <2> QED
    BY <2>1 DEF WayInv, QueuesOK
<1>4. Merged(page[d], u) \in Seq(Row)
  <2> HIDE DEF u
  <2>1. u.kind \in {"record", "related"}
    BY <1>3 DEF Update
  <2> QED
    BY <1>2, <1>3, <2>1, MergedRecord, MergedRelated
<1>5. PageOK'
  <2> HIDE DEF u
  <2> QED
    BY <1>1, <1>2, <1>4 DEF PageInv, PageOK
<1>6. \A x \in Dashboards : OwedTo(x)' = OwedTo(x)
  BY <1>1 DEF OwedTo, Owes, Working
<1>7. ASSUME NEW x \in Dashboards, x # d
      PROVE  RowsHold(x)'
  BY <1>1, <1>6, <1>7 DEF PageInv, PageOK, RowsHold, TypeOK
<1>8. RowsHold(d)'
  <2>1. RowsOK(page[d], loaded[d], pending[d], ch[d], OwedTo(d), log[Watches[d]])
    BY DEF PageInv, RowsHold
  <2>2. RowsOK(Merged(page[d], u), loaded[d], pending[d], Tail(ch[d]), OwedTo(d), log[Watches[d]])
    <3>1. UpdateOK(log[Watches[d]], Head(ch[d])) /\ loaded[d] \in Int
      BY <1>2, <1>3
    <3> HIDE DEF u
    <3>2. RowsOK(Merged(page[d], Head(ch[d])), loaded[d], pending[d], Tail(ch[d]), OwedTo(d), log[Watches[d]])
      BY <1>1, <1>2, <2>1, <3>1, RowsDelivered
    <3> QED
      BY <3>2 DEF u
  <2>3. page'[d] = Merged(page[d], u) /\ ch'[d] = Tail(ch[d])
    BY <1>1 DEF PageInv, PageOK, TypeOK
  <2> HIDE DEF u
  <2> QED
    BY <1>1, <1>6, <2>2, <2>3 DEF RowsHold
<1> QED
  BY <1>5, <1>7, <1>8 DEF PageInv

LEMMA StepPageInv ==
    ASSUME TypeOK, StoreInv, SubsInv, WayInv, AdapterOK, PageInv, [ServiceNext]_serviceVars
    PROVE  PageInv'
<1>1. TypeOK'
  BY StepTypeOK, ServiceStepIsStoreStep
<1>2. ASSUME UNCHANGED pageVars, nextId' >= nextId, \A d \in Dashboards : conn'[d] # "upgraded" =>
                conn[d] # "upgraded" \/ loaded[d] # 0
      PROVE  PageOK'
  <2>1. nextId \in Int /\ nextId' \in Int
    BY <1>1 DEF TypeOK
  <2>2. page' = page /\ loaded' = loaded /\ pending' = pending
    BY <1>2 DEF pageVars
  <2>3. \A d \in Dashboards : loaded[d] \in Nat /\ loaded[d] <= nextId'
    BY <1>2, <2>1 DEF PageInv, PageOK
  <2> QED
    BY <1>2, <2>2, <2>3 DEF PageInv, PageOK
<1>3. ASSUME NEW h \in Handlers, NEW t \in Tokens, NEW c \in Clients,
             Record(h, t, c) \/ AppendRelated(h, t, c), UNCHANGED pageVars
      PROVE  PageInv'
  <2>1. nextId' = nextId + 1 /\ conn' = conn
    BY <1>3, StoringWay DEF feedVars
  <2>2. PageOK'
    BY <1>2, <1>3, <2>1 DEF TypeOK
  <2> QED
    BY <1>3, <2>2, RowsThroughStoring DEF PageInv
<1>4. ASSUME NEW h \in Handlers, Broadcast(h), UNCHANGED pageVars
      PROVE  PageInv'
  <2>1. nextId' = nextId /\ conn' = conn
    BY <1>4, BroadcastWay
  <2>2. PageOK'
    BY <1>2, <1>4, <2>1 DEF TypeOK
  <2> QED
    BY <1>4, <2>2, RowsThroughBroadcast DEF PageInv
<1>5. ASSUME NEW d \in Dashboards, UNCHANGED pageVars,
             \/ loaded[d] # 0 /\ TakeSnapshot(d)
             \/ Register(d) \/ WriteFails(d) \/ Leave(d)
      PROVE  PageInv'
  <2>1. TakeSnapshot(d) \/ Register(d) \/ Stream(d) \/ Leave(d)
    BY <1>5 DEF Stream
  <2>2. /\ nextId' = nextId
        /\ \A x \in Dashboards : conn'[x] # "upgraded" => conn[x] # "upgraded" \/ loaded[x] # 0
    BY <1>5 DEF TakeSnapshot, Register, WriteFails, Leave, Unregister, CloseChannel, Goto, TypeOK
  <2>3. PageOK'
    BY <1>2, <1>5, <2>2 DEF TypeOK
  <2> QED
    BY <1>5, <2>1, <2>3, RowsThroughConnection DEF PageInv
<1>6. ASSUME UNCHANGED pageVars, UNCHANGED vars \/ Tick
      PROVE  PageInv'
  <2>1. UNCHANGED <<nextId, conn, ch, log, pc, job, targets>>
    BY <1>6 DEF vars, Tick, storeVars, feedVars
  <2>2. PageOK'
    BY <1>2, <1>6, <2>1 DEF TypeOK
  <2>3. \A d \in Dashboards : OwedTo(d)' = OwedTo(d)
    BY <2>1 DEF OwedTo, Owes, Working
  <2> QED
    BY <1>6, <2>1, <2>2, <2>3 DEF PageInv, RowsHold, pageVars
<1>7. ASSUME NEW h \in Handlers, NEW t \in Tokens, NEW c \in Clients, BeginDiag(h, t, c)
      PROVE  PageInv'
  BY <1>3, <1>7 DEF BeginDiag
<1>8. ASSUME NEW h \in Handlers, NEW c \in Clients, ReadSession(h, c)
      PROVE  PageInv'
  BY <1>6, <1>8 DEF ReadSession
<1>9. ASSUME NEW h \in Handlers, SetSession(h) \/ AppendSaved(h) \/ StepBroadcast(h) \/ PanicBroadcast(h)
      PROVE  PageInv'
  <2>1. CASE SetSession(h)
    BY <1>6, <2>1 DEF SetSession
  <2>2. CASE AppendSaved(h)
    <3>1. task[h].token \in Tokens /\ task[h].client \in Clients
      BY <2>2, TaskKinds DEF AppendSaved
    <3>2. UNCHANGED pageVars /\ (AppendRelated(h, task[h].token, task[h].client) \/ UNCHANGED vars)
      BY <2>2 DEF AppendSaved
    <3> QED
      BY <1>3, <1>6, <3>1, <3>2
  <2>3. CASE StepBroadcast(h) \/ PanicBroadcast(h)
    BY <1>4, <2>3 DEF StepBroadcast, PanicBroadcast, Broadcast
  <2> QED
    BY <1>9, <2>1, <2>2, <2>3
<1>10. ASSUME NEW d \in Dashboards, LoadPage(d) \/ Connect(d) \/ DeliverUpdate(d) \/ Disconnect(d)
       PROVE  PageInv'
  <2>1. CASE LoadPage(d)
    BY <2>1, RowsThroughLoad
  <2>2. CASE DeliverUpdate(d)
    BY <2>2, RowsThroughDelivery
  <2>3. CASE Connect(d) \/ Disconnect(d)
    BY <1>5, <2>3 DEF Connect, Disconnect
  <2> QED
    BY <1>10, <2>1, <2>2, <2>3
<1>11. CASE ServiceTick \/ UNCHANGED serviceVars
  BY <1>6, <1>11 DEF ServiceTick, serviceVars
<1> QED
  BY <1>7, <1>8, <1>9, <1>10, <1>11 DEF ServiceNext

LEMMA WayInvariant == Spec => []WayInv
BY InitWayInv, StepWayInv, TypeCorrect, SubsInvariant, PTL DEF Spec

LEMMA PageInvariant == ServiceSpec => []PageInv
<1>1. TypeOK /\ StoreInv /\ SubsInv /\ WayInv /\ AdapterInv /\ PageInv /\ [ServiceNext]_serviceVars
         => PageInv'
  BY StepPageInv DEF AdapterInv
<1> QED
  BY <1>1, InitPageInv, ServiceRunsTheStore, TypeCorrect, StoreInvariant, SubsInvariant,
     WayInvariant, AdapterInvariant, PTL DEF ServiceSpec

\* The dashboard's table against the store: a query has one row, or two if it was being
\* broadcast when serveDiag rendered the page, and the details in a row are about the
\* query the row names unless another one had its second.
THEOREM RowsShowTheirQueries == ServiceSpec => []RowsMatchRecords
<1>1. TypeOK /\ WayInv /\ PageInv => RowsMatchRecords
  <2> SUFFICES ASSUME TypeOK, WayInv, PageInv, NEW d \in Dashboards
               PROVE  RowsOnce(d) /\ RowsShowThemselves(d)
    BY DEF RowsMatchRecords
  <2>1. /\ page[d] \in Seq(Row) /\ loaded[d] \in Nat /\ Watches[d] \in Tokens
        /\ RowsKnown(page[d], log[Watches[d]])
    BY DiagAssumption DEF PageInv, PageOK, RowsHold, RowsOK
  <2>2. PICK n \in 0..Len(page[d]) : Arrived(page[d], n, loaded[d], pending[d], ch[d], OwedTo(d))
    BY DEF PageInv, RowsHold, RowsOK
  <2>3. /\ DOMAIN page[d] = 1..Len(page[d]) /\ Len(page[d]) \in Nat
        /\ \A i \in DOMAIN page[d] : page[d][i].id \in Int
    <3>1. /\ DOMAIN page[d] = 1..Len(page[d]) /\ Len(page[d]) \in Nat
          /\ \A i \in DOMAIN page[d] : page[d][i] \in Row
      BY <2>1, LenProperties
    <3> QED
      BY <3>1 DEF Row, Ids
  <2>4. \A i \in DOMAIN page[d] : i \in 1..n \/ i \in (n + 1)..Len(page[d])
    BY <2>2, <2>3
  <2>5. RowsOnce(d)
    <3> SUFFICES ASSUME NEW i \in DOMAIN page[d], NEW j \in DOMAIN page[d],
                        i < j, page[d][i].id = page[d][j].id
                 PROVE  /\ page[d][i].id \in pending[d]
                        /\ \A k \in DOMAIN page[d] : page[d][k].id = page[d][i].id => k \in {i, j}
      BY DEF RowsOnce
    <3>1. i \in 1..n /\ j \in (n + 1)..Len(page[d])
      <4>1. ~(i \in 1..n /\ j \in 1..n) /\ ~(i \in (n + 1)..Len(page[d]) /\ j \in (n + 1)..Len(page[d]))
        BY <2>2, <2>3 DEF Arrived, Once
      <4> QED
        BY <2>3, <2>4, <4>1
    <3>2. page[d][i].id < loaded[d] /\ Late(page[d][j].id, loaded[d], pending[d])
      BY <2>2, <3>1 DEF Arrived
    <3>3. page[d][i].id \in pending[d]
      BY <2>1, <2>3, <3>2 DEF Late
    <3>4. \A k \in DOMAIN page[d] : page[d][k].id = page[d][i].id => k \in {i, j}
      BY <2>2, <2>4, <3>1 DEF Arrived, Once
    <3> QED
      BY <3>3, <3>4
  <2>6. RowsShowThemselves(d)
    <3> SUFFICES ASSUME NEW i \in DOMAIN page[d], NEW r \in log[Watches[d]],
                        r.id = page[d][i].id, AloneInSecond(Watches[d], r)
                 PROVE  page[d][i].detail = page[d][i].id
      BY DEF RowsShowThemselves
    <3>1. PICK o \in log[Watches[d]] : o.id = page[d][i].id /\ o.ts = page[d][i].ts
      BY <2>1 DEF RowsKnown, Known
    <3>2. PICK x \in log[Watches[d]] : x.id = page[d][i].detail /\ x.ts = page[d][i].ts
      BY <2>1 DEF RowsKnown, Known
    <3>3. o = r
      BY <2>1, <3>1 DEF WayInv, LogUnique
    <3> QED
      BY <3>1, <3>2, <3>3 DEF AloneInSecond
  <2> QED
    BY <2>5, <2>6
<1> QED
  BY <1>1, TypeCorrect, WayInvariant, PageInvariant, ServiceRunsTheStore, PTL

-----------------------------------------------------------------------------
(***************************************************************************)
(* The order of a query's updates.  Of a query whose broadcasts did not    *)
(* overlap, one handler at most has an update, it is about the query as it *)
(* is stored, and the update that announces it goes first in every queue.  *)
(***************************************************************************)
About(queue, x) == {k \in DOMAIN queue : queue[k].kind = "related" /\ queue[k].rec.id = x}
Ahead(queue, x) == \A j \in DOMAIN queue : \A k \in About(queue, x) : Announces(queue[j], x) => j < k
OrderInv ==
    /\ \A h \in Handlers : Working(h) /\ job[h].upd.rec.id \notin reordered =>
          /\ \A g \in Handlers : Working(g) /\ job[g].upd.rec.id = job[h].upd.rec.id => g = h
          /\ job[h].upd.kind = "record" =>
                \A d \in Dashboards : About(ch[d], job[h].upd.rec.id) = {}
          /\ \A t \in Tokens : \A r \in byToken[t] : r.id = job[h].upd.rec.id => job[h].upd.rec = r
    /\ \A d \in Dashboards : \A x : x \notin reordered => Ahead(ch[d], x)

LEMMA InitOrderInv == ServiceInit => OrderInv
BY DEF ServiceInit, Init, OrderInv, Working, Ahead, About

\* Reading a queue from the front keeps the order, and so does adding to it an update
\* about something else, a related query, or the first update of its query.
LEMMA AheadInTail ==
    ASSUME NEW queue \in Seq(Update), queue # <<>>, NEW x
    PROVE  /\ Ahead(queue, x) => Ahead(Tail(queue), x)
           /\ About(queue, x) = {} => About(Tail(queue), x) = {}
<1>1. /\ \A k \in DOMAIN Tail(queue) : k + 1 \in DOMAIN queue /\ Tail(queue)[k] = queue[k + 1]
      /\ \A k \in DOMAIN Tail(queue) : k \in Int
  BY TailOfQueue
<1>2. \A k : k \in About(Tail(queue), x) => k \in DOMAIN Tail(queue) /\ k + 1 \in About(queue, x)
  BY <1>1 DEF About
<1>3. ASSUME Ahead(queue, x), NEW j \in DOMAIN Tail(queue), NEW k \in About(Tail(queue), x),
             Announces(Tail(queue)[j], x)
      PROVE  j < k
  <2>1. j + 1 < k + 1
    BY <1>1, <1>2, <1>3 DEF Ahead
  <2> QED
    BY <1>1, <1>2, <2>1
<1> QED
  BY <1>2, <1>3 DEF Ahead

LEMMA AheadAppended ==
    ASSUME NEW queue \in Seq(Update), NEW u \in Update, NEW x, Ahead(queue, x),
           u.kind = "record" /\ u.rec.id = x => About(queue, x) = {}
    PROVE  Ahead(Append(queue, u), x)
<1> DEFINE more == Append(queue, u)
<1>1. /\ DOMAIN queue = 1..Len(queue) /\ Len(queue) \in Nat
      /\ DOMAIN more = 1..(Len(queue) + 1) /\ more[Len(queue) + 1] = u
      /\ \A k \in DOMAIN queue : more[k] = queue[k]
  BY AppendToQueue
<1> HIDE DEF more
<1>2. \A k \in DOMAIN more : k \in DOMAIN queue \/ k = Len(queue) + 1
  BY <1>1
<1>3. ASSUME NEW j \in DOMAIN more, NEW k \in About(more, x), Announces(more[j], x)
      PROVE  j < k
  <2>1. k \in DOMAIN more /\ more[k].kind = "related" /\ more[k].rec.id = x
    BY <1>3 DEF About
  <2>2. CASE k \in DOMAIN queue
    <3>1. k \in About(queue, x)
      BY <1>1, <2>1, <2>2 DEF About
    <3>2. j \in DOMAIN queue
      BY <1>1, <1>2, <1>3, <3>1 DEF Announces
    <3> QED
      BY <1>1, <1>3, <3>1, <3>2 DEF Ahead
  <2>3. CASE k = Len(queue) + 1
    <3>1. j # Len(queue) + 1
      BY <1>1, <1>3, <2>1, <2>3 DEF Announces
    <3> QED
      BY <1>1, <1>2, <2>3, <3>1
  <2> QED
    BY <1>2, <2>1, <2>2, <2>3
<1>4. Ahead(more, x)
  BY <1>3 DEF Ahead
<1> QED
  BY <1>4 DEF more

\* A handler stores an event.  A related query's event is about a query that is either
\* nobody else's update at the moment or is counted as reordered from now on.
LEMMA OrderThroughStoring ==
    ASSUME TypeOK, StoreInv, WayInv, OrderInv,
           NEW h \in Handlers, NEW t \in Tokens, NEW c \in Clients,
           \/ Record(h, t, c) /\ reordered' = reordered
           \/ AppendRelated(h, t, c)
              /\ reordered' = reordered \cup {id \in {job'[h].upd.rec.id} : UnderBroadcast(id)}
    PROVE  OrderInv'
<1> DEFINE u == job'[h].upd
<1>1. /\ ~Working(h) /\ pc'[h] = "stored" /\ u.event = nextId /\ job'[h] \in Job
      /\ UpdateOK(log'[t], u)
      /\ \A g \in Handlers : g # h => pc'[g] = pc[g] /\ job'[g] = job[g]
      /\ UNCHANGED <<targets, feedVars>>
  BY StoringWay
<1>2. /\ u.kind \in {"record", "related"} /\ nextId \in Int /\ ch' = ch
      /\ \A d \in Dashboards : Watches[d] \in Tokens
  BY <1>1, DiagAssumption DEF Job, Update, TypeOK, feedVars
<1>3. \A v \in Tokens : \A id, ts : Known(log[v], id, ts) => id # nextId
  <2>1. \A v \in Tokens : \A r \in log[v] : r.id < nextId /\ r.id \in Int
    BY DEF WayInv, LogNumbered, TypeOK, DiagRecord, Ids
  <2> QED
    BY <1>2, <2>1 DEF Known
<1>4. \A g \in Handlers : Working(g) => job[g].token \in Tokens
  BY DEF Working, TypeOK, HandlersOK, Job
<1>5. \A g \in Handlers : Working(g) => job[g].upd.rec.id # nextId
  BY <1>3, <1>4 DEF WayInv, JobsOK, UpdateOK
<1>6. \A d \in Dashboards : About(ch[d], nextId) = {}
  <2>1. \A d \in Dashboards : \A k \in DOMAIN ch[d] : ch[d][k].rec.id # nextId
    BY <1>2, <1>3 DEF WayInv, QueuesOK, UpdateOK
  <2> QED
    BY <2>1 DEF About
<1>7. reordered \subseteq reordered'
  OBVIOUS
<1>8. \A d \in Dashboards : \A x : x \notin reordered' => Ahead(ch'[d], x)
  BY <1>2, <1>7 DEF OrderInv
<1>9. ASSUME NEW f \in Handlers, Working(f)', job'[f].upd.rec.id \notin reordered'
      PROVE  /\ \A g \in Handlers : Working(g)' /\ job'[g].upd.rec.id = job'[f].upd.rec.id => g = f
             /\ job'[f].upd.kind = "record" =>
                   \A d \in Dashboards : About(ch'[d], job'[f].upd.rec.id) = {}
             /\ \A v \in Tokens : \A r \in byToken'[v] :
                   r.id = job'[f].upd.rec.id => job'[f].upd.rec = r
  <2>1. CASE Record(h, t, c) /\ reordered' = reordered
    <3> DEFINE rec == [id |-> nextId, client |-> c, ts |-> Stamp(now), related |-> {}]
    <3>1. rec.id = nextId
      OBVIOUS
    <3>2. /\ byToken' = [byToken EXCEPT ![t] = Evicted(Pruned(t)) \cup {rec}]
          /\ StartBroadcast(h, t, "record", rec)
      BY <2>1 DEF Record
    <3> HIDE DEF rec
    <3>3. u.rec = rec /\ u.kind = "record"
      BY <3>2 DEF StartBroadcast, TypeOK, HandlersOK
    <3>4. \A v \in Tokens : \A r \in byToken'[v] : r \in byToken[v] \/ r = rec
      <4>1. Evicted(Pruned(t)) \subseteq byToken[t]
        BY DEF Evicted, Pruned
      <4> QED
        BY <3>2, <4>1 DEF TypeOK
    <3>5. \A v \in Tokens : \A r \in byToken[v] : r.id # nextId
      BY <1>3 DEF WayInv, ListsLogged
    <3>6. CASE f = h
      BY <1>1, <1>2, <1>5, <1>6, <3>1, <3>3, <3>4, <3>5, <3>6 DEF Working
    <3>7. CASE f # h
      <4>1. /\ Working(f) /\ job'[f] = job[f] /\ job[f].upd.rec.id \notin reordered
            /\ job[f].upd.rec.id # nextId /\ u.rec.id = nextId
        BY <1>1, <1>5, <1>9, <2>1, <3>1, <3>3, <3>7 DEF Working
      <4>2. /\ \A g \in Handlers : Working(g) /\ job[g].upd.rec.id = job[f].upd.rec.id => g = f
            /\ job[f].upd.kind = "record" =>
                  \A d \in Dashboards : About(ch[d], job[f].upd.rec.id) = {}
            /\ \A v \in Tokens : \A r \in byToken[v] :
                  r.id = job[f].upd.rec.id => job[f].upd.rec = r
        BY <4>1 DEF OrderInv
      <4>3. \A g \in Handlers : Working(g)' /\ job'[g].upd.rec.id = job'[f].upd.rec.id => g = f
        BY <1>1, <4>1, <4>2 DEF Working
      <4>4. \A v \in Tokens : \A r \in byToken'[v] : r.id = job'[f].upd.rec.id => job'[f].upd.rec = r
        BY <3>1, <3>4, <4>1, <4>2
      <4> QED
        BY <1>2, <4>1, <4>2, <4>3, <4>4
    <3> QED
      BY <3>6, <3>7
  <2>2. CASE /\ AppendRelated(h, t, c)
             /\ reordered' = reordered \cup {id \in {job'[h].upd.rec.id} : UnderBroadcast(id)}
    <3> DEFINE e == [id |-> nextId, client |-> c, ts |-> Stamp(now)]
    <3>1. PICK best \in Candidates(t, c) :
             LET upd == [best EXCEPT !.related = @ \cup {e}]
             IN  /\ byToken' = [byToken EXCEPT ![t] = (@ \ {best}) \cup {upd}]
                 /\ StartBroadcast(h, t, "related", upd)
      BY <2>2 DEF AppendRelated
    <3> DEFINE upd == [best EXCEPT !.related = @ \cup {e}]
    <3>2. best \in byToken[t] /\ best \in DiagRecord
      BY DEF Candidates, TypeOK
    <3>3. upd.id = best.id
      BY <3>2 DEF DiagRecord
    <3> HIDE DEF e, upd
    <3>4. u.rec = upd /\ u.kind = "related"
      BY <3>1 DEF StartBroadcast, TypeOK, HandlersOK, upd
    <3>5. \A v \in Tokens : \A r \in byToken'[v] : (r \in byToken[v] /\ (v = t => r # best)) \/ r = upd
      BY <3>1 DEF TypeOK, upd
    <3>6. \A v \in Tokens : \A r \in byToken[v] : r.id = best.id => v = t /\ r = best
      <4>1. ASSUME NEW v \in Tokens, NEW r \in byToken[v], r.id = best.id
            PROVE  v = t
        <5>1. Known(log[v], r.id, r.ts) /\ Known(log[t], best.id, best.ts)
          BY <3>2 DEF WayInv, ListsLogged
        <5> QED
          BY <4>1, <5>1 DEF Known, WayInv, LogUnique
      <4> QED
        BY <3>2, <4>1 DEF StoreInv, Numbered
    <3>7. best.id \notin reordered' => \A g \in Handlers : Working(g) => job[g].upd.rec.id # best.id
      BY <2>2, <3>3, <3>4 DEF UnderBroadcast, Working
    <3>8. CASE f = h
      BY <1>1, <1>9, <3>3, <3>4, <3>5, <3>6, <3>7, <3>8 DEF Working
    <3>9. CASE f # h
      <4>1. Working(f) /\ job'[f] = job[f] /\ job[f].upd.rec.id \notin reordered
        BY <1>1, <1>7, <1>9, <3>9 DEF Working
      <4>2. job[f].upd.rec.id # best.id
        BY <1>9, <3>7, <4>1
      <4> QED
        BY <1>1, <1>2, <3>3, <3>4, <3>5, <4>1, <4>2 DEF Working, OrderInv
    <3> QED
      BY <3>8, <3>9
  <2> QED
    BY <2>1, <2>2
<1> QED
  BY <1>8, <1>9 DEF OrderInv

LEMMA OrderThroughBroadcast ==
    ASSUME TypeOK, SubsInv, WayInv, OrderInv, reordered' = reordered,
           NEW h \in Handlers, Broadcast(h)
    PROVE  OrderInv'
<1> DEFINE u == job[h].upd
<1>1. /\ byToken' = byToken
      /\ \A g \in Handlers : g # h => pc'[g] = pc[g] /\ job'[g] = job[g]
      /\ Working(h) /\ (pc'[h] # "idle" => job'[h] = job[h])
      /\ \A d \in Dashboards : ch'[d] = ch[d] \/ ch'[d] = Append(ch[d], u)
  BY BroadcastWay
<1>2. \A g \in Handlers : Working(g)' => Working(g) /\ job'[g] = job[g]
  BY <1>1 DEF Working
<1>3. u \in Update
  BY <1>1 DEF Working, TypeOK, HandlersOK, Job
<1>4. \A d \in Dashboards : ch[d] \in Seq(Update)
  BY DEF TypeOK
<1>5. ASSUME NEW d \in Dashboards, NEW x, x \notin reordered
      PROVE  Ahead(ch'[d], x)
  <2>1. Ahead(ch[d], x)
    BY <1>5 DEF OrderInv
  <2>2. u.kind = "record" /\ u.rec.id = x => About(ch[d], x) = {}
    BY <1>1, <1>5 DEF OrderInv
  <2> QED
    BY <1>1, <1>3, <1>4, <2>1, <2>2, AheadAppended
<1>6. ASSUME NEW f \in Handlers, Working(f)', job[f].upd.kind = "record",
             job[f].upd.rec.id \notin reordered, NEW d \in Dashboards
      PROVE  About(ch'[d], job[f].upd.rec.id) = {}
  <2>1. About(ch[d], job[f].upd.rec.id) = {} /\ Working(f)
    BY <1>2, <1>6 DEF OrderInv
  <2>2. u.kind = "related" => u.rec.id # job[f].upd.rec.id
    BY <1>1, <1>6, <2>1 DEF OrderInv
  <2>3. CASE ch'[d] = Append(ch[d], u)
    <3>1. /\ \A k \in DOMAIN Append(ch[d], u) : k \in DOMAIN ch[d] \/ k = Len(ch[d]) + 1
          /\ Append(ch[d], u)[Len(ch[d]) + 1] = u
          /\ \A k \in DOMAIN ch[d] : Append(ch[d], u)[k] = ch[d][k]
      BY <1>3, <1>4, AppendToQueue
    <3> QED
      BY <2>1, <2>2, <2>3, <3>1 DEF About
  <2> QED
    BY <1>1, <2>1, <2>3
<1> QED
  BY <1>1, <1>2, <1>5, <1>6 DEF OrderInv

LEMMA OrderThroughConnection ==
    ASSUME TypeOK, OrderInv, reordered' = reordered,
           NEW d \in Dashboards, TakeSnapshot(d) \/ Register(d) \/ Stream(d) \/ Leave(d)
    PROVE  OrderInv'
<1>1. /\ UNCHANGED <<byToken, pc, job>>
      /\ \A x \in Dashboards : x # d => ch'[x] = ch[x]
      /\ ch'[d] = ch[d] \/ (ch[d] # <<>> /\ ch'[d] = Tail(ch[d]))
  BY ConnectionWay
<1>2. ASSUME NEW y \in Dashboards, NEW x
      PROVE  /\ Ahead(ch[y], x) => Ahead(ch'[y], x)
             /\ About(ch[y], x) = {} => About(ch'[y], x) = {}
  <2>1. CASE ch'[y] = ch[y]
    BY <2>1
  <2>2. CASE ch[y] # <<>> /\ ch'[y] = Tail(ch[y])
    <3>1. ch[y] \in Seq(Update)
      BY DEF TypeOK
    <3> QED
      BY <2>2, <3>1, AheadInTail
  <2> QED
    BY <1>1, <2>1, <2>2
<1> QED
  BY <1>1, <1>2 DEF OrderInv, Working

LEMMA StepOrderInv ==
    ASSUME TypeOK, StoreInv, SubsInv, WayInv, AdapterOK, OrderInv, [ServiceNext]_serviceVars
    PROVE  OrderInv'
<1>1. ASSUME NEW h \in Handlers, NEW t \in Tokens, NEW c \in Clients, BeginDiag(h, t, c)
      PROVE  OrderInv'
  BY <1>1, OrderThroughStoring DEF BeginDiag
<1>2. ASSUME UNCHANGED <<byToken, pc, job, ch, reordered>>
      PROVE  OrderInv'
  BY <1>2 DEF OrderInv, Working
<1>3. ASSUME NEW h \in Handlers, NEW c \in Clients, ReadSession(h, c)
      PROVE  OrderInv'
  BY <1>2, <1>3 DEF ReadSession, vars
<1>4. ASSUME NEW h \in Handlers, SetSession(h) \/ AppendSaved(h) \/ StepBroadcast(h) \/ PanicBroadcast(h)
      PROVE  OrderInv'
  <2>1. CASE SetSession(h)
    BY <1>2, <2>1 DEF SetSession, vars
  <2>2. CASE AppendSaved(h)
    <3>1. task[h].token \in Tokens /\ task[h].client \in Clients
      BY <2>2, TaskKinds DEF AppendSaved
    <3>2. \/ /\ AppendRelated(h, task[h].token, task[h].client)
             /\ reordered' = reordered \cup {id \in {job'[h].upd.rec.id} : UnderBroadcast(id)}
          \/ UNCHANGED <<vars, reordered>>
      BY <2>2, Zenon DEF AppendSaved
    <3> QED
      BY <1>2, <3>1, <3>2, OrderThroughStoring DEF vars
  <2>3. CASE StepBroadcast(h) \/ PanicBroadcast(h)
    BY <2>3, OrderThroughBroadcast DEF StepBroadcast, PanicBroadcast, Broadcast
  <2> QED
    BY <1>4, <2>1, <2>2, <2>3
<1>5. ASSUME NEW d \in Dashboards, LoadPage(d) \/ Connect(d) \/ DeliverUpdate(d) \/ Disconnect(d)
      PROVE  OrderInv'
  <2>1. CASE LoadPage(d)
    BY <1>2, <2>1 DEF LoadPage, vars
  <2>2. CASE Connect(d) \/ DeliverUpdate(d) \/ Disconnect(d)
    BY <2>2, OrderThroughConnection DEF Connect, DeliverUpdate, Disconnect, Stream
  <2> QED
    BY <1>5, <2>1, <2>2
<1>6. CASE ServiceTick \/ UNCHANGED serviceVars
  BY <1>2, <1>6 DEF ServiceTick, Tick, storeVars, feedVars, serviceVars, vars
<1> QED
  BY <1>1, <1>3, <1>4, <1>5, <1>6 DEF ServiceNext

-----------------------------------------------------------------------------
(***************************************************************************)
(* What a page shows of a query it has a row for, or will have one when    *)
(* its queue is read.  It is settled if the last update of the query in    *)
(* the queue, or without one the first row, has the related queries that   *)
(* are stored.  If it is not, then an update that has them is still to be  *)
(* queued, or one of them is excused: not sent, or filed when the page was *)
(* rendered and the connection not registered.                             *)
(***************************************************************************)
HasRow(rows, x) == \E i \in DOMAIN rows : rows[i].id = x
Coming(queue, x) == \E k \in DOMAIN queue : Announces(queue[k], x)
FirstOf(rows, i, x) ==
    i \in DOMAIN rows /\ rows[i].id = x /\ \A j \in DOMAIN rows : rows[j].id = x => i <= j
RowsSettled(rows, r) ==
    /\ \A i : FirstOf(rows, i, r.id) => rows[i].related = RelIds(r)
    /\ ~HasRow(rows, r.id) => RelIds(r) = {}
Settled(rows, queue, r) ==
    /\ About(queue, r.id) = {} => RowsSettled(rows, r)
    /\ \A k \in About(queue, r.id) :
          (\A j \in About(queue, r.id) : j <= k) => RelIds(queue[k].rec) = RelIds(r)
InTransit(d, r) ==
    \E h \in Handlers : /\ Owes(h, d) /\ job[h].upd.kind = "related"
                        /\ job[h].upd.rec.id = r.id /\ job[h].upd.event >= loaded[d]
Excused(d, r) ==
    \E e \in r.related : \/ e.id \in missed[d]
                         \/ e.id >= loaded[d] /\ (since[d] = 0 \/ e.id < since[d])
Connected(d) == loaded[d] # 0 /\ conn[d] \in {"upgraded", "snapshotted", "streaming"}
Telling(d, r) ==
    r.id \notin reordered /\ AloneInSecond(Watches[d], r)
    /\ (HasRow(page[d], r.id) \/ Coming(ch[d], r.id))
ShowsInv ==
    \A d \in Dashboards : Connected(d) =>
        \A r \in byToken[Watches[d]] : Telling(d, r) =>
            Settled(page[d], ch[d], r) \/ InTransit(d, r) \/ Excused(d, r)

\* The script takes the first update: what was settled stays so.
LEMMA SettledDelivered ==
    ASSUME NEW rows \in Seq(Row), NEW queue \in Seq(Update), queue # <<>>, NEW r,
           \A i \in DOMAIN rows : rows[i].id = r.id <=> rows[i].ts = r.ts,
           \A k \in DOMAIN queue : queue[k].rec.id = r.id <=> queue[k].rec.ts = r.ts,
           \A k \in DOMAIN queue : queue[k].kind = "record" => queue[k].rec.related = {},
           Ahead(queue, r.id), Settled(rows, queue, r),
           HasRow(rows, r.id) \/ Coming(queue, r.id)
    PROVE  Settled(Merged(rows, Head(queue)), Tail(queue), r)
<1> DEFINE u == Head(queue)
           new == Merged(rows, u)
           rest == Tail(queue)
<1>1. /\ u = queue[1] /\ u \in Update /\ 1 \in DOMAIN queue
      /\ \A k \in DOMAIN rest : k + 1 \in DOMAIN queue /\ k + 1 # 1 /\ rest[k] = queue[k + 1]
      /\ \A k \in DOMAIN queue : k # 1 => k - 1 \in DOMAIN rest /\ queue[k] = rest[k - 1]
      /\ \A k \in DOMAIN rest : k \in Int
      /\ \A k \in DOMAIN queue : k \in Int /\ k >= 1
  BY TailOfQueue
<1> HIDE DEF rest
<1>2. \A k : k \in About(rest, r.id) => k \in Int /\ k + 1 \in About(queue, r.id)
  BY <1>1 DEF About
<1>3. \A k : k \in About(queue, r.id) /\ k # 1 => k \in Int /\ k - 1 \in About(rest, r.id)
  BY <1>1 DEF About
<1>4. ASSUME NEW k \in About(rest, r.id), \A j \in About(rest, r.id) : j <= k
      PROVE  RelIds(rest[k].rec) = RelIds(r)
  <2>1. k + 1 \in About(queue, r.id) /\ k \in Int /\ k + 1 >= 1 /\ rest[k] = queue[k + 1]
    BY <1>1, <1>2 DEF About
  <2>2. ASSUME NEW j \in About(queue, r.id)
        PROVE  j <= k + 1
    <3>1. CASE j = 1
      BY <2>1, <3>1
    <3>2. CASE j # 1
      <4>1. j \in Int /\ j - 1 <= k
        BY <1>3, <1>4, <3>2
      <4> QED
        BY <2>1, <4>1
    <3> QED
      BY <3>1, <3>2
  <2> QED
    BY <2>1, <2>2 DEF Settled
<1>5. u.rec.id = r.id <=> u.rec.ts = r.ts
  BY <1>1
<1>6. \A i : FirstOf(rows, i, r.id) <=> FirstAt(rows, i, r.ts)
  BY DEF FirstOf, FirstAt
<1>7. CASE u.kind = "record"
  <2>1. /\ DOMAIN rows = 1..Len(rows) /\ Len(rows) \in Nat
        /\ DOMAIN new = 1..(Len(rows) + 1) /\ new[Len(rows) + 1] = RowOf(u.rec)
        /\ \A i \in DOMAIN rows : new[i] = rows[i]
    BY <1>1, <1>7, MergedRecord
  <2>2. RowOf(u.rec).id = u.rec.id /\ RowOf(u.rec).related = {}
    BY <1>1, <1>7 DEF RowOf
  <2>3. 1 \notin About(queue, r.id)
    BY <1>1, <1>7 DEF About
  <2> HIDE DEF u, new
  <2>4. ASSUME About(rest, r.id) = {}
        PROVE  RowsSettled(new, r)
    <3>1. About(queue, r.id) = {}
      BY <1>3, <2>3, <2>4
    <3>2. RowsSettled(rows, r)
      BY <3>1 DEF Settled
    <3>3. CASE HasRow(rows, r.id)
      <4>1. PICK i \in DOMAIN rows : rows[i].id = r.id
        BY <3>3 DEF HasRow
      <4>2. i \in DOMAIN new /\ new[i].id = r.id /\ i < Len(rows) + 1 /\ DOMAIN rows \subseteq DOMAIN new
        BY <2>1, <4>1
      <4>3. HasRow(new, r.id)
        BY <4>2 DEF HasRow
      <4>4. ASSUME NEW j, FirstOf(new, j, r.id)
            PROVE  FirstOf(rows, j, r.id) /\ new[j] = rows[j]
        <5>1. j \in DOMAIN new /\ j <= i
          BY <4>2, <4>4 DEF FirstOf
        <5>2. j \in DOMAIN rows
          BY <2>1, <4>1, <5>1
        <5> QED
          BY <2>1, <4>2, <4>4, <5>2 DEF FirstOf
      <4> QED
        BY <3>2, <4>3, <4>4 DEF RowsSettled
    <3>4. CASE ~HasRow(rows, r.id)
      <4>1. RelIds(r) = {}
        BY <3>2, <3>4 DEF RowsSettled
      <4>2. \A j : FirstOf(new, j, r.id) => j = Len(rows) + 1
        <5>1. \A j \in DOMAIN new : j \in DOMAIN rows \/ j = Len(rows) + 1
          BY <2>1
        <5> QED
          BY <2>1, <3>4, <5>1 DEF FirstOf, HasRow
      <4> QED
        BY <2>1, <2>2, <4>1, <4>2 DEF RowsSettled
    <3> QED
      BY <3>3, <3>4
  <2>5. Settled(new, rest, r)
    BY <1>4, <2>4 DEF Settled
  <2> QED
    BY <2>5 DEF new, u, rest
<1>8. CASE u.kind = "related"
  <2>1. /\ DOMAIN new = DOMAIN rows
        /\ \A i \in DOMAIN rows :
              /\ new[i].id = rows[i].id
              /\ FirstAt(rows, i, u.rec.ts) => new[i].related = RelIds(u.rec)
              /\ ~FirstAt(rows, i, u.rec.ts) => new[i] = rows[i]
    BY <1>1, <1>8, MergedRelated
  <2> HIDE DEF new
  <2>2. \A i : FirstOf(new, i, r.id) <=> FirstOf(rows, i, r.id)
    BY <2>1 DEF FirstOf
  <2>3. HasRow(new, r.id) <=> HasRow(rows, r.id)
    BY <2>1 DEF HasRow
  <2>4. ASSUME About(rest, r.id) = {}
        PROVE  RowsSettled(new, r)
    <3>1. CASE u.rec.id = r.id
      <4>1. 1 \in About(queue, r.id) /\ \A j \in About(queue, r.id) : j = 1
        BY <1>1, <1>3, <1>8, <2>4, <3>1 DEF About
      <4>2. RelIds(u.rec) = RelIds(r)
        <5>1. \A j \in About(queue, r.id) : j <= 1
          BY <4>1
        <5>2. RelIds(queue[1].rec) = RelIds(r)
          BY <4>1, <5>1 DEF Settled
        <5> QED
          BY <1>1, <5>2
      <4>3. HasRow(rows, r.id)
        <5>1. ~Coming(queue, r.id)
          <6>1. \A j \in DOMAIN queue : ~Announces(queue[j], r.id)
            BY <1>1, <4>1 DEF Ahead
          <6> QED
            BY <6>1 DEF Coming
        <5> QED
          BY <5>1
      <4>4. \A i : FirstOf(rows, i, r.id) => i \in DOMAIN rows /\ FirstAt(rows, i, u.rec.ts)
        BY <1>5, <1>6, <3>1 DEF FirstOf
      <4> QED
        BY <2>1, <2>2, <2>3, <4>2, <4>3, <4>4 DEF RowsSettled
    <3>2. CASE u.rec.id # r.id
      <4>1. About(queue, r.id) = {}
        BY <1>1, <1>3, <2>4, <3>2 DEF About
      <4>2. RowsSettled(rows, r)
        BY <4>1 DEF Settled
      <4>3. \A i : FirstOf(rows, i, r.id) => i \in DOMAIN rows /\ ~FirstAt(rows, i, u.rec.ts)
        BY <1>5, <3>2 DEF FirstOf, FirstAt
      <4> QED
        BY <2>1, <2>2, <2>3, <4>2, <4>3 DEF RowsSettled
    <3> QED
      BY <3>1, <3>2
  <2>5. Settled(new, rest, r)
    BY <1>4, <2>4 DEF Settled
  <2> QED
    BY <2>5 DEF new, rest
<1> QED
  BY <1>1, <1>7, <1>8 DEF Update

\* An update joins the queue: about another query, or with the related queries that
\* are stored, or the first of a query that has none.
LEMMA SettledSent ==
    ASSUME NEW rows, NEW queue \in Seq(Update), NEW u \in Update, NEW r,
           \/ u.rec.id # r.id /\ Settled(rows, queue, r)
           \/ u.rec.id = r.id /\ u.kind = "related" /\ RelIds(u.rec) = RelIds(r)
           \/ /\ u.kind = "record" /\ About(queue, r.id) = {} /\ RelIds(r) = {}
              /\ HasRow(rows, r.id) => Settled(rows, queue, r)
    PROVE  Settled(rows, Append(queue, u), r)
<1> DEFINE more == Append(queue, u)
<1>1. /\ DOMAIN queue = 1..Len(queue) /\ Len(queue) \in Nat
      /\ DOMAIN more = 1..(Len(queue) + 1) /\ more[Len(queue) + 1] = u
      /\ \A k \in DOMAIN queue : more[k] = queue[k]
  BY AppendToQueue
<1> HIDE DEF more
<1>2. \A k \in DOMAIN more : k \in DOMAIN queue \/ k = Len(queue) + 1
  BY <1>1
<1>3. CASE u.rec.id # r.id /\ Settled(rows, queue, r)
  <2>1. About(more, r.id) = About(queue, r.id)
    BY <1>1, <1>2, <1>3 DEF About
  <2>2. \A k \in About(queue, r.id) : more[k] = queue[k]
    BY <1>1 DEF About
  <2>3. Settled(rows, more, r)
    BY <1>3, <2>1, <2>2 DEF Settled
  <2> QED
    BY <2>3 DEF more
<1>4. CASE u.rec.id = r.id /\ u.kind = "related" /\ RelIds(u.rec) = RelIds(r)
  <2>1. Len(queue) + 1 \in About(more, r.id)
    BY <1>1, <1>4 DEF About
  <2>2. \A k \in About(more, r.id) :
           (\A j \in About(more, r.id) : j <= k) => k = Len(queue) + 1
    <3>1. \A k \in About(more, r.id) : k \in Int /\ k <= Len(queue) + 1
      BY <1>1 DEF About
    <3> QED
      BY <1>1, <2>1, <3>1
  <2>3. Settled(rows, more, r)
    BY <1>1, <1>4, <2>1, <2>2 DEF Settled
  <2> QED
    BY <2>3 DEF more
<1>5. CASE /\ u.kind = "record" /\ About(queue, r.id) = {} /\ RelIds(r) = {}
           /\ HasRow(rows, r.id) => Settled(rows, queue, r)
  <2>1. About(more, r.id) = {}
    BY <1>1, <1>2, <1>5 DEF About
  <2>2. RowsSettled(rows, r)
    <3>1. CASE HasRow(rows, r.id)
      BY <1>5, <3>1 DEF Settled
    <3>2. CASE ~HasRow(rows, r.id)
      BY <1>5, <3>2 DEF RowsSettled, HasRow, FirstOf
    <3> QED
      BY <3>1, <3>2
  <2>3. Settled(rows, more, r)
    BY <2>1, <2>2 DEF Settled
  <2> QED
    BY <2>3 DEF more
<1> QED
  BY <1>3, <1>4, <1>5

\* A query has one timestamp, in the log, the lists, the rows and the queues.
LEMMA OneStamp ==
    ASSUME WayInv, NEW t \in Tokens, NEW r \in byToken[t], AloneInSecond(t, r)
    PROVE  \A id, ts : Known(log[t], id, ts) => (id = r.id <=> ts = r.ts)
<1>1. PICK o \in log[t] : o.id = r.id /\ o.ts = r.ts
  BY DEF WayInv, ListsLogged, Known
<1>2. ASSUME NEW x \in log[t]
      PROVE  x.id = r.id <=> x.ts = r.ts
  <2>1. x.id = r.id => x = o
    BY <1>1 DEF WayInv, LogUnique
  <2>2. x.ts = r.ts => x.id = r.id
    BY DEF AloneInSecond
  <2> QED
    BY <1>1, <2>1, <2>2
<1> QED
  BY <1>2 DEF Known

LEMMA ShowsThroughStoring ==
    ASSUME TypeOK, StoreInv, WayInv, PageInv, ShowsInv, UNCHANGED pageVars,
           reordered \subseteq reordered',
           NEW h \in Handlers, NEW t \in Tokens, NEW c \in Clients,
           Record(h, t, c) \/ AppendRelated(h, t, c)
    PROVE  ShowsInv'
<1>1. /\ ~Working(h) /\ pc'[h] = "stored" /\ job'[h].upd.event = nextId
      /\ \A g \in Handlers : g # h => pc'[g] = pc[g] /\ job'[g] = job[g]
      /\ UNCHANGED <<targets, feedVars>>
      /\ \A v \in Tokens : log[v] \subseteq log'[v]
  BY StoringWay
<1>2. \A v \in Tokens : \A r \in byToken'[v] :
         r \in byToken[v] \/ r.id = nextId \/ (job'[h].upd.kind = "related" /\ job'[h].upd.rec = r)
  <2>1. CASE Record(h, t, c)
    <3> DEFINE rec == [id |-> nextId, client |-> c, ts |-> Stamp(now), related |-> {}]
    <3>1. rec.id = nextId
      OBVIOUS
    <3>2. byToken' = [byToken EXCEPT ![t] = Evicted(Pruned(t)) \cup {rec}]
      BY <2>1 DEF Record
    <3> HIDE DEF rec
    <3>3. Evicted(Pruned(t)) \subseteq byToken[t]
      BY DEF Evicted, Pruned
    <3> QED
      BY <3>1, <3>2, <3>3 DEF TypeOK
  <2>2. CASE AppendRelated(h, t, c)
    <3> DEFINE e == [id |-> nextId, client |-> c, ts |-> Stamp(now)]
    <3>1. PICK best \in Candidates(t, c) :
             LET upd == [best EXCEPT !.related = @ \cup {e}]
             IN  /\ byToken' = [byToken EXCEPT ![t] = (@ \ {best}) \cup {upd}]
                 /\ StartBroadcast(h, t, "related", upd)
      BY <2>2 DEF AppendRelated
    <3> DEFINE upd == [best EXCEPT !.related = @ \cup {e}]
    <3> HIDE DEF upd
    <3>2. job'[h].upd.kind = "related" /\ job'[h].upd.rec = upd
      BY <3>1 DEF StartBroadcast, TypeOK, HandlersOK, upd
    <3>3. \A v \in Tokens : \A r \in byToken'[v] : r \in byToken[v] \/ r = upd
      BY <3>1 DEF TypeOK, upd
    <3> QED
      BY <3>2, <3>3
  <2> QED
    BY <2>1, <2>2
<1>3. /\ page' = page /\ loaded' = loaded /\ ch' = ch /\ conn' = conn /\ missed' = missed
      /\ since' = since /\ targets' = targets
  BY <1>1 DEF pageVars, feedVars
<1>4. ASSUME NEW d \in Dashboards, Connected(d)', NEW r \in byToken'[Watches[d]], Telling(d, r)'
      PROVE  Settled(page[d], ch[d], r) \/ InTransit(d, r)' \/ Excused(d, r)'
  <2>1. Connected(d) /\ Watches[d] \in Tokens
    BY <1>3, <1>4, DiagAssumption DEF Connected
  <2>2. HasRow(page[d], r.id) \/ Coming(ch[d], r.id)
    BY <1>3, <1>4 DEF Telling
  <2>3. r.id # nextId
    <3>1. \A id, ts : Known(log[Watches[d]], id, ts) => id # nextId
      <4>1. \A o \in log[Watches[d]] : o.id < nextId /\ o.id \in Int
        BY <2>1 DEF WayInv, LogNumbered, TypeOK, DiagRecord, Ids
      <4> QED
        BY <4>1 DEF Known, TypeOK
    <3>2. HasRow(page[d], r.id) => r.id # nextId
      BY <3>1 DEF HasRow, PageInv, RowsHold, RowsOK, RowsKnown
    <3>3. Coming(ch[d], r.id) => r.id # nextId
      BY <3>1 DEF Coming, Announces, WayInv, QueuesOK, UpdateOK
    <3> QED
      BY <2>2, <3>2, <3>3
  <2>4. CASE r \in byToken[Watches[d]]
    <3>1. Telling(d, r)
      BY <1>1, <1>4, <2>1, <2>2 DEF Telling, AloneInSecond
    <3>2. InTransit(d, r) => InTransit(d, r)'
      <4>1. ASSUME NEW g \in Handlers, Owes(g, d)
            PROVE  Owes(g, d)' /\ job'[g] = job[g]
        BY <1>1, <1>3, <4>1 DEF Owes, Working
      <4> QED
        BY <1>3, <4>1 DEF InTransit
    <3>3. Excused(d, r) => Excused(d, r)'
      BY <1>3 DEF Excused
    <3> QED
      BY <2>1, <2>4, <3>1, <3>2, <3>3 DEF ShowsInv
  <2>5. CASE job'[h].upd.kind = "related" /\ job'[h].upd.rec = r
    <3>1. Owes(h, d)'
      BY <1>1 DEF Owes, Working
    <3>2. nextId >= loaded'[d]
      BY <1>3 DEF PageInv, PageOK, TypeOK
    <3> QED
      BY <1>1, <2>5, <3>1, <3>2 DEF InTransit
  <2> QED
    BY <1>2, <2>1, <2>3, <2>4, <2>5
<1> QED
  BY <1>3, <1>4 DEF ShowsInv

\* A step of a broadcast: the update in transit is queued, or excused.
LEMMA ShowsThroughBroadcast ==
    ASSUME TypeOK, SubsInv, WayInv, PageInv, OrderInv, ShowsInv, UNCHANGED pageVars,
           reordered' = reordered, NEW h \in Handlers, Broadcast(h)
    PROVE  ShowsInv'
<1> DEFINE u == job[h].upd
<1>1. /\ UNCHANGED <<byToken, log, conn, since>>
      /\ \A g \in Handlers : g # h => pc'[g] = pc[g] /\ job'[g] = job[g] /\ targets'[g] = targets[g]
      /\ Working(h) /\ (pc'[h] # "idle" => job'[h] = job[h])
      /\ \A d \in Dashboards :
            /\ Owes(h, d)' => Owes(h, d)
            /\ missed[d] \subseteq missed'[d]
            /\ \/ ch'[d] = ch[d]
               \/ /\ ch'[d] = Append(ch[d], u)
                  /\ Owes(h, d) /\ ~Owes(h, d)'
                  /\ Watches[d] = job[h].token /\ ~Early(d)
            /\ Owes(h, d) /\ ~Owes(h, d)' /\ conn[d] = "streaming" /\ Watches[d] = job[h].token
                  => ch'[d] = Append(ch[d], u) \/ u.event \in missed'[d]
  BY BroadcastWay
<1>2. page' = page /\ loaded' = loaded
  BY DEF pageVars
<1>3. u \in Update /\ UpdateOK(log[job[h].token], u) /\ job[h].token \in Tokens
  BY <1>1 DEF Working, TypeOK, HandlersOK, Job, WayInv, JobsOK
<1>4. ASSUME NEW d \in Dashboards, Connected(d)', NEW r \in byToken[Watches[d]], Telling(d, r)'
      PROVE  Settled(page[d], ch'[d], r) \/ InTransit(d, r)' \/ Excused(d, r)'
  <2>1. /\ Connected(d) /\ Watches[d] \in Tokens /\ ch[d] \in Seq(Update)
        /\ r.id \notin reordered /\ AloneInSecond(Watches[d], r)
        /\ HasRow(page[d], r.id) \/ Coming(ch'[d], r.id)
    BY <1>1, <1>2, <1>4, DiagAssumption DEF Connected, Telling, AloneInSecond, TypeOK
  <2>2. u.rec.id = r.id => Watches[d] = job[h].token /\ u.rec = r
    <3>1. u.rec.id = r.id => u.rec = r
      BY <1>1, <2>1 DEF OrderInv
    <3>2. Known(log[Watches[d]], r.id, r.ts) /\ Known(log[job[h].token], u.rec.id, u.rec.ts)
      BY <1>3, <2>1 DEF WayInv, ListsLogged, UpdateOK
    <3>3. u.rec.id = r.id => Watches[d] = job[h].token
      BY <1>3, <2>1, <3>2 DEF Known, WayInv, LogUnique
    <3> QED
      BY <3>1, <3>3
  <2>3. Excused(d, r) => Excused(d, r)'
    BY <1>1, <1>2 DEF Excused
  <2>4. \A g \in Handlers : g # h /\ Owes(g, d) => Owes(g, d)' /\ job'[g] = job[g]
    BY <1>1 DEF Owes, Working
  <2>5. CASE ch'[d] = ch[d]
    <3>1. Telling(d, r)
      BY <2>1, <2>5 DEF Telling
    <3>2. ASSUME NEW g \in Handlers, Owes(g, d), job[g].upd.kind = "related",
                 job[g].upd.rec.id = r.id, job[g].upd.event >= loaded[d]
          PROVE  Settled(page[d], ch'[d], r) \/ InTransit(d, r)' \/ Excused(d, r)'
      <4>1. CASE Owes(g, d)'
        <5>1. job'[g] = job[g]
          BY <1>1, <4>1 DEF Owes, Working
        <5> QED
          BY <1>2, <3>2, <4>1, <5>1 DEF InTransit
      <4>2. CASE ~Owes(g, d)'
        <5>1. g = h /\ u.rec = r /\ Watches[d] = job[h].token /\ u.kind = "related"
          BY <2>2, <2>4, <3>2, <4>2
        <5>2. PICK e \in r.related : e.id = u.event
          BY <1>3, <5>1 DEF UpdateOK, RelIds
        <5>3. CASE conn[d] = "streaming"
          <6>1. ch'[d] = Append(ch[d], u) \/ u.event \in missed'[d]
            BY <1>1, <3>2, <4>2, <5>1, <5>3
          <6>2. CASE ch'[d] = Append(ch[d], u)
            BY <1>3, <2>1, <5>1, <6>2, SettledSent
          <6>3. CASE u.event \in missed'[d]
            BY <5>2, <6>3 DEF Excused
          <6> QED
            BY <6>1, <6>2, <6>3
        <5>4. CASE conn[d] # "streaming"
          <6>1. since[d] = 0
            BY <2>1, <5>4 DEF Connected, WayInv, QueuesOK, Early
          <6> QED
            BY <1>1, <1>2, <3>2, <5>1, <5>2, <6>1 DEF Excused
        <5> QED
          BY <5>3, <5>4
      <4> QED
        BY <4>1, <4>2
    <3> QED
      BY <2>1, <2>3, <2>5, <3>1, <3>2 DEF ShowsInv, InTransit
  <2>6. CASE /\ ch'[d] = Append(ch[d], u)
             /\ Owes(h, d) /\ ~Owes(h, d)'
    <3>1. Coming(ch'[d], r.id) => Coming(ch[d], r.id) \/ Announces(u, r.id)
      <4>1. /\ \A k \in DOMAIN Append(ch[d], u) : k \in DOMAIN ch[d] \/ k = Len(ch[d]) + 1
            /\ Append(ch[d], u)[Len(ch[d]) + 1] = u
            /\ \A k \in DOMAIN ch[d] : Append(ch[d], u)[k] = ch[d][k]
        BY <1>3, <2>1, AppendToQueue
      <4> QED
        BY <2>6, <4>1 DEF Coming
    <3>2. CASE u.rec.id # r.id
      <4>1. Telling(d, r)
        BY <2>1, <3>1, <3>2 DEF Telling, Announces
      <4>2. InTransit(d, r) => InTransit(d, r)'
        BY <1>2, <2>4, <3>2 DEF InTransit
      <4>3. Settled(page[d], ch[d], r) => Settled(page[d], ch'[d], r)
        BY <1>3, <2>1, <2>6, <3>2, SettledSent
      <4> QED
        BY <2>1, <2>3, <4>1, <4>2, <4>3 DEF ShowsInv
    <3>3. CASE u.rec.id = r.id /\ u.kind = "related"
      BY <1>3, <2>1, <2>2, <2>6, <3>3, SettledSent
    <3>4. CASE u.rec.id = r.id /\ u.kind = "record"
      <4>1. About(ch[d], r.id) = {}
        BY <1>1, <2>1, <3>4 DEF OrderInv
      <4>2. RelIds(r) = {}
        BY <1>3, <2>2, <3>4 DEF UpdateOK, RelIds
      <4>3. ASSUME HasRow(page[d], r.id)
            PROVE  Settled(page[d], ch[d], r) \/ Excused(d, r)
        <5>1. Telling(d, r)
          BY <2>1, <4>3 DEF Telling
        <5>2. ~InTransit(d, r)
          BY <1>1, <2>1, <3>4 DEF InTransit, OrderInv, Owes
        <5> QED
          BY <2>1, <5>1, <5>2 DEF ShowsInv
      <4>4. CASE Excused(d, r)
        BY <2>3, <4>4
      <4>5. CASE ~Excused(d, r)
        <5>1. HasRow(page[d], r.id) => Settled(page[d], ch[d], r)
          BY <4>3, <4>5
        <5> QED
          BY <1>3, <2>1, <2>6, <3>4, <4>1, <4>2, <5>1, SettledSent
      <4> QED
        BY <4>4, <4>5
    <3> QED
      BY <1>3, <3>2, <3>3, <3>4 DEF Update
  <2> QED
    BY <1>1, <2>5, <2>6
<1> QED
  BY <1>1, <1>2, <1>4 DEF ShowsInv

\* A connection moves on without its page: what was filed before it registered stays
\* excused, since every event so far has a smaller number than the next.
LEMMA ShowsThroughConnection ==
    ASSUME TypeOK, WayInv, FeedInv, ShowsInv, UNCHANGED pageVars, reordered' = reordered,
           NEW d \in Dashboards,
           TakeSnapshot(d) \/ Register(d) \/ WriteFails(d) \/ Leave(d)
    PROVE  ShowsInv'
<1>1. /\ UNCHANGED <<byToken, log, pc, job, targets, missed>>
      /\ \A x \in Dashboards : x # d => conn'[x] = conn[x] /\ since'[x] = since[x] /\ ch'[x] = ch[x]
      /\ Register(d) => conn[d] = "snapshotted" /\ since'[d] = nextId
      /\ ~Register(d) => since'[d] = since[d]
  BY ConnectionWay DEF Stream
<1>2. page' = page /\ loaded' = loaded
  BY DEF pageVars
<1>3. /\ WriteFails(d) \/ Leave(d) => conn'[d] \notin {"upgraded", "snapshotted", "streaming"}
      /\ TakeSnapshot(d) => conn[d] = "upgraded" /\ ch'[d] = ch[d]
      /\ Register(d) => ch'[d] = ch[d]
  BY DEF WriteFails, Leave, Unregister, CloseChannel, TakeSnapshot, Register, Goto, TypeOK
<1>4. ASSUME NEW x \in Dashboards, Connected(x)', NEW r \in byToken[Watches[x]], Telling(x, r)'
      PROVE  Settled(page[x], ch'[x], r) \/ InTransit(x, r)' \/ Excused(x, r)'
  <2>1. Connected(x) /\ ch'[x] = ch[x]
    BY <1>1, <1>2, <1>3, <1>4 DEF Connected
  <2>2. Telling(x, r)
    BY <1>1, <1>2, <1>4, <2>1 DEF Telling, AloneInSecond
  <2>3. InTransit(x, r) => InTransit(x, r)'
    BY <1>1, <1>2 DEF InTransit, Owes, Working
  <2>4. Excused(x, r) => Excused(x, r)'
    <3>1. CASE since'[x] = since[x]
      BY <1>1, <1>2, <3>1 DEF Excused
    <3>2. CASE x = d /\ Register(d)
      <4>1. Watches[x] \in Tokens /\ since'[x] = nextId
        BY <1>1, <3>2, DiagAssumption
      <4>2. \A e \in r.related : e.id < nextId
        BY <4>1, InEvents DEF FeedInv, EventsNumbered, EventsOf
      <4> QED
        BY <1>1, <1>2, <4>1, <4>2 DEF Excused
    <3> QED
      BY <1>1, <3>1, <3>2
  <2> QED
    BY <2>1, <2>2, <2>3, <2>4 DEF ShowsInv
<1> QED
  BY <1>1, <1>2, <1>4 DEF ShowsInv

\* The page is rendered with what is stored.
LEMMA ShowsThroughLoad ==
    ASSUME TypeOK, StoreInv, WayInv, PageInv, ShowsInv, NEW d \in Dashboards, LoadPage(d)
    PROVE  ShowsInv'
<1> DEFINE S == Pruned(Watches[d])
<1>1. /\ page' = [page EXCEPT ![d] = RowsOf(S)]
      /\ loaded' = [loaded EXCEPT ![d] = nextId]
      /\ conn[d] = "upgraded" /\ UNCHANGED vars /\ reordered' = reordered
  BY DEF LoadPage
<1>2. UNCHANGED <<byToken, log, pc, job, targets, conn, ch, missed, since>>
  BY <1>1 DEF vars
<1>3. ASSUME NEW x \in Dashboards, x # d
      PROVE  /\ page'[x] = page[x] /\ loaded'[x] = loaded[x]
  BY <1>1, <1>3 DEF PageInv, PageOK
<1>4. ASSUME NEW x \in Dashboards, x # d, Connected(x)', NEW r \in byToken[Watches[x]], Telling(x, r)'
      PROVE  Settled(page'[x], ch[x], r) \/ InTransit(x, r)' \/ Excused(x, r)'
  <2>1. Connected(x) /\ Telling(x, r)
    BY <1>1, <1>2, <1>3, <1>4 DEF Connected, Telling, AloneInSecond
  <2>2. InTransit(x, r) => InTransit(x, r)'
    BY <1>2, <1>3, <1>4 DEF InTransit, Owes, Working
  <2>3. Excused(x, r) => Excused(x, r)'
    BY <1>2, <1>3, <1>4 DEF Excused
  <2> QED
    BY <1>3, <1>4, <2>1, <2>2, <2>3 DEF ShowsInv
<1>5. ASSUME NEW r \in byToken[Watches[d]], Telling(d, r)'
      PROVE  Settled(page'[d], ch[d], r)
  <2>1. Watches[d] \in Tokens /\ page'[d] = RowsOf(S) /\ ch[d] = <<>>
    BY <1>1, DiagAssumption DEF PageInv, PageOK, WayInv, QueuesOK, Early
  <2>2. S \subseteq byToken[Watches[d]] /\ byToken[Watches[d]] \in SUBSET DiagRecord
    BY <2>1 DEF Pruned, TypeOK
  <2>3. \A a, o \in byToken[Watches[d]] : a.id = o.id => a = o
    BY <2>1 DEF StoreInv, Numbered
  <2>4. S \in SUBSET DiagRecord /\ IsFiniteSet(S)
    <3>1. IsFiniteSet(byToken[Watches[d]])
      BY <2>1 DEF StoreInv, Finite
    <3> HIDE DEF S
    <3> QED
      BY <2>2, <3>1, FS_Subset
  <2> HIDE DEF S
  <2>5. \A i \in DOMAIN RowsOf(S) : \E o \in S : RowsOf(S)[i] = RowOf(o)
    BY <2>2, <2>3, <2>4, RowsOfRecords
  <2>6. ~Coming(ch'[d], r.id)
    BY <1>2, <2>1 DEF Coming
  <2>7. HasRow(page'[d], r.id)
    BY <1>5, <2>6 DEF Telling
  <2>8. \A i : FirstOf(page'[d], i, r.id) => page'[d][i].related = RelIds(r)
    <3>1. ASSUME NEW i, FirstOf(page'[d], i, r.id)
          PROVE  page'[d][i].related = RelIds(r)
      <4>1. PICK o \in S : page'[d][i] = RowOf(o)
        BY <2>1, <2>5, <3>1 DEF FirstOf
      <4>2. o.id = r.id
        BY <3>1, <4>1 DEF FirstOf, RowOf
      <4>3. o = r
        BY <2>2, <2>3, <4>2
      <4> QED
        BY <4>1, <4>3 DEF RowOf, RelIds
    <3> QED
      BY <3>1
  <2> QED
    BY <2>1, <2>7, <2>8 DEF Settled, RowsSettled, About
<1> QED
  BY <1>2, <1>4, <1>5 DEF ShowsInv

\* The script takes an update.
LEMMA ShowsThroughDelivery ==
    ASSUME TypeOK, WayInv, PageInv, OrderInv, ShowsInv, NEW d \in Dashboards, DeliverUpdate(d)
    PROVE  ShowsInv'
<1> DEFINE u == Head(ch[d])
<1>1. /\ page' = [page EXCEPT ![d] = Merged(@, u)] /\ loaded' = loaded
      /\ ch[d] # <<>> /\ ch' = [ch EXCEPT ![d] = Tail(@)] /\ conn[d] = "streaming"
      /\ UNCHANGED <<byToken, log, pc, job, targets, conn, missed, since, reordered>>
  BY DEF DeliverUpdate, WriteUpdate, storeVars
<1>2. /\ \A x \in Dashboards : x # d => page'[x] = page[x] /\ ch'[x] = ch[x]
      /\ page'[d] = Merged(page[d], u) /\ ch'[d] = Tail(ch[d])
  BY <1>1 DEF PageInv, PageOK, TypeOK
<1>3. ASSUME NEW x \in Dashboards, NEW r \in byToken[Watches[x]]
      PROVE  /\ InTransit(x, r) => InTransit(x, r)'
             /\ Excused(x, r) => Excused(x, r)'
  BY <1>1 DEF InTransit, Owes, Working, Excused
<1>4. ASSUME NEW x \in Dashboards, x # d, Connected(x)', NEW r \in byToken[Watches[x]], Telling(x, r)'
      PROVE  Settled(page'[x], ch'[x], r) \/ InTransit(x, r)' \/ Excused(x, r)'
  <2>1. Connected(x) /\ Telling(x, r)
    BY <1>1, <1>2, <1>4 DEF Connected, Telling, AloneInSecond
  <2> QED
    BY <1>2, <1>3, <1>4, <2>1 DEF ShowsInv
<1>5. ASSUME Connected(d)', NEW r \in byToken[Watches[d]], Telling(d, r)'
      PROVE  Settled(page'[d], ch'[d], r) \/ InTransit(d, r)' \/ Excused(d, r)'
  <2>1. /\ Watches[d] \in Tokens /\ Connected(d) /\ page[d] \in Seq(Row) /\ ch[d] \in Seq(Update)
        /\ r.id \notin reordered /\ AloneInSecond(Watches[d], r)
    BY <1>1, <1>5, DiagAssumption
       DEF Connected, PageInv, PageOK, TypeOK, Telling, AloneInSecond
  <2>2. /\ u = ch[d][1] /\ u \in Update /\ 1 \in DOMAIN ch[d]
        /\ \A k \in DOMAIN Tail(ch[d]) : k + 1 \in DOMAIN ch[d] /\ Tail(ch[d])[k] = ch[d][k + 1]
    BY <1>1, <2>1, TailOfQueue
  <2>3. HasRow(page[d], r.id) \/ Coming(ch[d], r.id)
    <3>1. Coming(Tail(ch[d]), r.id) => Coming(ch[d], r.id)
      BY <2>2 DEF Coming
    <3>2. CASE u.kind = "record"
      <4>1. /\ DOMAIN Merged(page[d], u) = 1..(Len(page[d]) + 1) /\ Len(page[d]) \in Nat
            /\ DOMAIN page[d] = 1..Len(page[d])
            /\ Merged(page[d], u)[Len(page[d]) + 1] = RowOf(u.rec)
            /\ \A i \in DOMAIN page[d] : Merged(page[d], u)[i] = page[d][i]
        BY <2>1, <2>2, <3>2, MergedRecord
      <4>2. \A i \in DOMAIN Merged(page[d], u) : i \in DOMAIN page[d] \/ i = Len(page[d]) + 1
        BY <4>1
      <4>3. HasRow(Merged(page[d], u), r.id) => HasRow(page[d], r.id) \/ Announces(u, r.id)
        BY <3>2, <4>1, <4>2 DEF HasRow, Announces, RowOf
      <4>4. Announces(u, r.id) => Coming(ch[d], r.id)
        BY <2>2 DEF Coming
      <4> QED
        BY <1>2, <1>5, <3>1, <4>3, <4>4 DEF Telling
    <3>3. CASE u.kind = "related"
      <4>1. /\ DOMAIN Merged(page[d], u) = DOMAIN page[d]
            /\ \A i \in DOMAIN page[d] : Merged(page[d], u)[i].id = page[d][i].id
        BY <2>1, <2>2, <3>3, MergedRelated
      <4>2. HasRow(Merged(page[d], u), r.id) => HasRow(page[d], r.id)
        BY <4>1 DEF HasRow
      <4> QED
        BY <1>2, <1>5, <3>1, <4>2 DEF Telling
    <3> QED
      BY <2>2, <3>2, <3>3 DEF Update
  <2>4. Settled(page[d], ch[d], r) \/ InTransit(d, r) \/ Excused(d, r)
    BY <2>1, <2>3 DEF ShowsInv, Telling
  <2>5. Settled(page[d], ch[d], r) => Settled(Merged(page[d], u), Tail(ch[d]), r)
    <3>1. \A id, ts : Known(log[Watches[d]], id, ts) => (id = r.id <=> ts = r.ts)
      BY <2>1, OneStamp
    <3>2. \A i \in DOMAIN page[d] : page[d][i].id = r.id <=> page[d][i].ts = r.ts
      BY <3>1 DEF PageInv, RowsHold, RowsOK, RowsKnown
    <3>3. /\ \A k \in DOMAIN ch[d] : ch[d][k].rec.id = r.id <=> ch[d][k].rec.ts = r.ts
          /\ \A k \in DOMAIN ch[d] : ch[d][k].kind = "record" => ch[d][k].rec.related = {}
      BY <3>1 DEF WayInv, QueuesOK, UpdateOK
    <3>4. Ahead(ch[d], r.id)
      BY <2>1 DEF OrderInv
    <3> HIDE DEF u
    <3>5. ASSUME Settled(page[d], ch[d], r)
          PROVE  Settled(Merged(page[d], Head(ch[d])), Tail(ch[d]), r)
      BY <1>1, <2>1, <2>3, <3>2, <3>3, <3>4, <3>5, SettledDelivered
    <3> QED
      BY <3>5 DEF u
  <2> QED
    BY <1>2, <1>3, <2>4, <2>5
<1> QED
  BY <1>1, <1>4, <1>5 DEF ShowsInv

LEMMA StepShowsInv ==
    ASSUME TypeOK, StoreInv, SubsInv, FeedInv, WayInv, AdapterOK, PageInv, OrderInv, ShowsInv,
           [ServiceNext]_serviceVars
    PROVE  ShowsInv'
<1>1. ASSUME UNCHANGED <<byToken, log, pc, job, targets, conn, ch, missed, since, reordered, pageVars>>
      PROVE  ShowsInv'
  BY <1>1 DEF pageVars, ShowsInv, Connected, Telling, AloneInSecond, InTransit, Owes, Working, Excused
<1>2. ASSUME NEW h \in Handlers, NEW t \in Tokens, NEW c \in Clients, BeginDiag(h, t, c)
      PROVE  ShowsInv'
  BY <1>2, ShowsThroughStoring DEF BeginDiag
<1>3. ASSUME NEW h \in Handlers, NEW c \in Clients, ReadSession(h, c)
      PROVE  ShowsInv'
  BY <1>1, <1>3 DEF ReadSession, vars
<1>4. ASSUME NEW h \in Handlers, SetSession(h) \/ AppendSaved(h) \/ StepBroadcast(h) \/ PanicBroadcast(h)
      PROVE  ShowsInv'
  <2>1. CASE SetSession(h)
    BY <1>1, <2>1 DEF SetSession, vars
  <2>2. CASE AppendSaved(h)
    <3>1. task[h].token \in Tokens /\ task[h].client \in Clients
      BY <2>2, TaskKinds DEF AppendSaved
    <3>2. \/ /\ AppendRelated(h, task[h].token, task[h].client)
             /\ reordered \subseteq reordered'
          \/ UNCHANGED <<vars, reordered>>
      BY <2>2 DEF AppendSaved
    <3>3. UNCHANGED pageVars
      BY <2>2 DEF AppendSaved
    <3> QED
      BY <1>1, <3>1, <3>2, <3>3, ShowsThroughStoring DEF vars
  <2>3. CASE StepBroadcast(h) \/ PanicBroadcast(h)
    BY <2>3, ShowsThroughBroadcast DEF StepBroadcast, PanicBroadcast, Broadcast
  <2> QED
    BY <1>4, <2>1, <2>2, <2>3
<1>5. ASSUME NEW d \in Dashboards, LoadPage(d) \/ Connect(d) \/ DeliverUpdate(d) \/ Disconnect(d)
      PROVE  ShowsInv'
  <2>1. CASE LoadPage(d)
    BY <2>1, ShowsThroughLoad
  <2>2. CASE DeliverUpdate(d)
    BY <2>2, ShowsThroughDelivery
  <2>3. CASE Connect(d) \/ Disconnect(d)
    BY <2>3, ShowsThroughConnection DEF Connect, Disconnect
  <2> QED
    BY <1>5, <2>1, <2>2, <2>3
<1>6. CASE ServiceTick \/ UNCHANGED serviceVars
  BY <1>1, <1>6 DEF ServiceTick, Tick, storeVars, feedVars, serviceVars, vars
<1> QED
  BY <1>2, <1>3, <1>4, <1>5, <1>6 DEF ServiceNext

LEMMA InitShowsInv == ServiceInit => ShowsInv
BY DEF ServiceInit, ShowsInv, Connected

LEMMA OrderInvariant == ServiceSpec => []OrderInv
<1>1. TypeOK /\ StoreInv /\ SubsInv /\ WayInv /\ AdapterInv /\ OrderInv /\ [ServiceNext]_serviceVars
         => OrderInv'
  BY StepOrderInv DEF AdapterInv
<1> QED
  BY <1>1, InitOrderInv, ServiceRunsTheStore, TypeCorrect, StoreInvariant, SubsInvariant,
     WayInvariant, AdapterInvariant, PTL DEF ServiceSpec

LEMMA ShowsInvariant == ServiceSpec => []ShowsInv
<1>1. TypeOK /\ StoreInv /\ SubsInv /\ FeedInv /\ WayInv /\ AdapterOK /\ PageInv /\ OrderInv
         /\ ShowsInv /\ [ServiceNext]_serviceVars
         => ShowsInv'
  BY StepShowsInv
<1>2. AdapterInv => AdapterOK
  BY DEF AdapterInv
<1> QED
  BY <1>1, <1>2, InitShowsInv, ServiceRunsTheStore, TypeCorrect, StoreInvariant, SubsInvariant,
     FeedInvariant, WayInvariant, AdapterInvariant, PageInvariant, OrderInvariant,
     PTL DEF ServiceSpec

\* When nothing is on its way to a connected page, the script of writeDiagLiveScript has
\* left it with the related queries the store has, for every query it has a row for,
\* short of the exceptions QuietPageComplete names.
THEOREM QuietPagesAreComplete == ServiceSpec => []QuietPageComplete
<1>1. TypeOK /\ WayInv /\ PageInv /\ OrderInv /\ ShowsInv => QuietPageComplete
  <2> SUFFICES ASSUME TypeOK, WayInv, PageInv, OrderInv, ShowsInv,
                      NEW d \in Dashboards, Quiet(d), NEW r \in byToken[Watches[d]],
                      r.id \in {page[d][i].id : i \in DOMAIN page[d]},
                      r.id \notin reordered, AloneInSecond(Watches[d], r),
                      \A e \in r.related : e.id \notin missed[d] /\ e.id \notin loaded[d]..(since[d] - 1)
               PROVE  \E i \in DOMAIN page[d] :
                         page[d][i].id = r.id /\ page[d][i].related = {e.id : e \in r.related}
    BY DEF QuietPageComplete
  <2>1. /\ conn[d] = "streaming" /\ ch[d] = <<>> /\ Watches[d] \in Tokens
        /\ loaded[d] \in Int /\ loaded[d] # 0 /\ page[d] \in Seq(Row)
        /\ since[d] \in Int /\ since[d] # 0
        /\ HasRow(page[d], r.id)
    <3>1. conn[d] = "streaming" /\ ch[d] = <<>>
      BY DEF Quiet
    <3>2. Watches[d] \in Tokens
      BY DiagAssumption
    <3>3. loaded[d] \in Nat /\ loaded[d] # 0 /\ page[d] \in Seq(Row)
      BY <3>1 DEF PageInv, PageOK
    <3>4. since[d] \in Int
      BY DEF TypeOK
    <3>5. since[d] # 0
      BY <3>1 DEF WayInv, QueuesOK, Early
    <3>6. HasRow(page[d], r.id)
      BY DEF HasRow
    <3> QED
      BY <3>1, <3>2, <3>3, <3>4, <3>5, <3>6
  <2>2. ~Excused(d, r)
    <3>1. \A e \in r.related : e.id \in Int
      BY <2>1 DEF TypeOK, DiagRecord, Event, Ids
    <3> QED
      BY <2>1, <3>1 DEF Excused
  <2>3. ~InTransit(d, r)
    <3> SUFFICES ASSUME NEW h \in Handlers, Working(h), job[h].upd.rec.id = r.id
                 PROVE  FALSE
      BY DEF InTransit, Owes
    <3>1. job[h].token \in Tokens /\ job[h].token # Watches[d]
      BY DEF Working, Quiet, TypeOK, HandlersOK, Job
    <3>2. Known(log[job[h].token], job[h].upd.rec.id, job[h].upd.rec.ts) /\ Known(log[Watches[d]], r.id, r.ts)
      BY <2>1 DEF WayInv, JobsOK, UpdateOK, ListsLogged
    <3> QED
      BY <2>1, <3>1, <3>2 DEF Known, WayInv, LogUnique
  <2>4. RowsSettled(page[d], r)
    <3>1. Settled(page[d], ch[d], r)
      BY <2>1, <2>2, <2>3 DEF ShowsInv, Connected, Telling
    <3>2. About(ch[d], r.id) = {}
      BY <2>1 DEF About
    <3> QED
      BY <3>1, <3>2 DEF Settled
  <2>5. PICK i \in DOMAIN page[d] : FirstOf(page[d], i, r.id)
    <3> DEFINE its == {i \in DOMAIN page[d] : page[d][i].id = r.id}
    <3>1. its \in SUBSET Nat /\ its # {}
      BY <2>1, LenProperties DEF HasRow
    <3>2. \E i \in its : \A j \in its : i <= j
      <4> HIDE DEF its
      <4> QED
        BY <3>1, Order!LeastNumber
    <3> QED
      BY <3>2 DEF FirstOf
  <2> QED
    BY <2>4, <2>5 DEF RowsSettled, FirstOf, RelIds
<1> QED
  BY <1>1, TypeCorrect, WayInvariant, PageInvariant, OrderInvariant, ShowsInvariant,
     ServiceRunsTheStore, PTL
=============================================================================
