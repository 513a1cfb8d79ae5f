----------------------------- MODULE DiagStore -----------------------------
(***************************************************************************)
(* The diagnostic store of internal/httpapi/routes.go: a bounded, ageing   *)
(* list of DNS queries per token, and the live feed of updates it sends to *)
(* the WebSocket connections that watch a token.                           *)
(*                                                                         *)
(* Two groups of goroutines meet here.  DNS handlers call Record and       *)
(* AppendRelated: the list changes under d.mu, the lock is released, the   *)
(* subscribers are copied under d.subMu, that lock is released too, and    *)
(* only then are the updates sent, one subscriber at a time.  WebSocket    *)
(* handlers call Subscribe, stream updates until a write fails, and        *)
(* unsubscribe.  Each critical section and each send is one action, so     *)
(* every interleaving the two locks permit is a behaviour.                 *)
(*                                                                         *)
(* The list byToken[t] is kept as a set of records numbered by insertion:  *)
(* the number is the position the slice gives them.  A message's content   *)
(* is its number.                                                          *)
(***************************************************************************)
EXTENDS Integers, Sequences, FiniteSets

CONSTANTS
    Tokens,         \* dashboard tokens
    Clients,        \* client addresses (ip:port)
    Handlers,       \* goroutines answering DNS queries
    DoHHandlers,    \* those that run under net/http, which recovers a panic
    Dashboards,     \* WebSocket connections, one goroutine and one channel each
    Watches,        \* the token in each connection's URL
    MaxPerToken,    \* NewDiagStore's cap (100)
    BufferSize,     \* diagSubBuffer (64)
    Retention,      \* NewDiagStore's retention, in ticks
    RelatedWindow,  \* DiagRelatedWindow, in ticks
    Second,         \* ticks in a second, the resolution of RFC 3339 timestamps
    MaxTime,        \* bound: last tick of a run
    MaxEvents       \* bound: events recorded in a run

ASSUME DiagAssumption ==
    /\ DoHHandlers \subseteq Handlers
    /\ Watches \in [Dashboards -> Tokens]
    /\ MaxPerToken \in Nat \ {0}
    /\ BufferSize \in Nat \ {0}
    /\ Retention \in Nat \ {0}
    /\ RelatedWindow \in Nat
    /\ Second \in Nat \ {0}
    /\ MaxTime \in Nat
    /\ MaxEvents \in Nat

VARIABLES
    now,        \* the wall clock
    nextId,     \* the number of the next event
    byToken,    \* d.byToken: the records of each token
    subs,       \* d.subs: the subscribers of each token, in order
    pc,         \* where each DNS handler is
    job,        \* the token and update a handler is broadcasting
    targets,    \* broadcast's private copy of the subscribers, still to be sent to
    conn,       \* where each WebSocket goroutine is
    ch,         \* the subscriber's channel
    crashed,    \* a panic took the process down
    snapshot,   \* events in the snapshot Subscribe returned
    shown,      \* history: events written to the WebSocket
    missed,     \* history: events not sent, channel full or broadcast cut short
    since,      \* history: the value of nextId when the channel was registered
    log         \* history: every primary event of a token, never pruned

storeVars == <<byToken, log>>
feedVars  == <<subs, ch, conn, snapshot, shown, missed, since>>
vars == <<now, nextId, byToken, subs, pc, job, targets, conn, ch, crashed,
          snapshot, shown, missed, since, log>>

Ids == 1..MaxEvents
Event == [id : Ids, client : Clients, ts : 0..MaxTime]
DiagRecord == [id : Ids, client : Clients, ts : 0..MaxTime, related : SUBSET Event]
Update == [kind : {"record", "related"}, event : Ids, rec : DiagRecord]
Job == [token : Tokens, upd : Update]
NoJob == [kind |-> "none"]

(***************************************************************************)
(* Time.  A timestamp is formatted with RFC 3339, which drops the fraction *)
(* of the second; cutoffs are computed from the unrounded clock.           *)
(***************************************************************************)
Stamp(t) == t - (t % Second)
\* (Variant: t.After(cutoff) instead of !t.Before(cutoff).)
WithinStrictly(r, age) == r.ts > now - age
Within(r, age) == r.ts >= now - age

\* pruneLocked, and the filter of Records: what is within the retention.
Pruned(t) == {r \in byToken[t] : Within(r, Retention)}

\* list = list[1:] when the list has reached the cap.
\* (Variant, to test the properties: the cap compared with > instead of >=.)
Oldest(S) == CHOOSE r \in S : \A o \in S : r.id <= o.id
EvictedLate(S) == IF Cardinality(S) > MaxPerToken THEN S \ {Oldest(S)} ELSE S
Evicted(S) == IF Cardinality(S) >= MaxPerToken THEN S \ {Oldest(S)} ELSE S

\* The record AppendRelated picks: the scan keeps a later record only if its
\* timestamp is strictly later (t.After(bestT)).
\* (Variant: the test of the client's address forgotten.)
CandidatesOfAnyone(t, c) == {r \in byToken[t] : Within(r, RelatedWindow)}
Candidates(t, c) == {r \in byToken[t] : r.client = c /\ Within(r, RelatedWindow)}
IsBest(r, S) == \A o \in S : o.ts < r.ts \/ (o.ts = r.ts /\ r.id <= o.id)

Seen(d) == snapshot[d] \cup shown[d] \cup missed[d] \cup {ch[d][i].event : i \in DOMAIN ch[d]}

Init ==
    /\ now = 0 /\ nextId = 1 /\ crashed = FALSE
    /\ byToken  = [t \in Tokens |-> {}]
    /\ log      = [t \in Tokens |-> {}]
    /\ subs     = [t \in Tokens |-> <<>>]
    /\ pc       = [h \in Handlers |-> "idle"]
    /\ job      = [h \in Handlers |-> NoJob]
    /\ targets  = [h \in Handlers |-> <<>>]
    /\ conn     = [d \in Dashboards |-> "upgraded"]
    /\ ch       = [d \in Dashboards |-> <<>>]
    /\ snapshot = [d \in Dashboards |-> {}]
    /\ shown    = [d \in Dashboards |-> {}]
    /\ missed   = [d \in Dashboards |-> {}]
    /\ since    = [d \in Dashboards |-> 0]

-----------------------------------------------------------------------------
(***************************************************************************)
(* DNS handlers.                                                           *)
(***************************************************************************)
StartBroadcast(h, t, kind, r) ==
    /\ pc' = [pc EXCEPT ![h] = "stored"]
    /\ job' = [job EXCEPT ![h] = [token |-> t,
                                  upd |-> [kind |-> kind, event |-> nextId, rec |-> r]]]
    /\ nextId' = nextId + 1

\* (Variant: the update outlives the broadcast.)
EndKeepingJob(h) ==
    /\ pc' = [pc EXCEPT ![h] = "idle"]
    /\ targets' = [targets EXCEPT ![h] = <<>>]
    /\ UNCHANGED job
EndBroadcast(h) ==
    /\ pc' = [pc EXCEPT ![h] = "idle"]
    /\ job' = [job EXCEPT ![h] = NoJob]
    /\ targets' = [targets EXCEPT ![h] = <<>>]

\* (Variant: the clock is read before the lock is taken.)
RecordWithEarlyClock(h, t, c) ==
    /\ ~crashed /\ pc[h] = "idle" /\ nextId \in Ids
    /\ \E at \in {now, now - 1} \cap Nat :
          LET rec == [id |-> nextId, client |-> c, ts |-> Stamp(at), related |-> {}]
          IN  /\ byToken' = [byToken EXCEPT ![t] = Evicted(Pruned(t)) \cup {rec}]
              /\ log' = [log EXCEPT ![t] = @ \cup {rec}]
              /\ StartBroadcast(h, t, "record", rec)
    /\ UNCHANGED <<now, targets, crashed, feedVars>>

Record(h, t, c) ==
    /\ ~crashed /\ pc[h] = "idle" /\ nextId \in Ids
    /\ LET rec == [id |-> nextId, client |-> c, ts |-> Stamp(now), related |-> {}]
       IN  /\ byToken' = [byToken EXCEPT ![t] = Evicted(Pruned(t)) \cup {rec}]
           /\ log' = [log EXCEPT ![t] = @ \cup {rec}]
           /\ StartBroadcast(h, t, "record", rec)
    /\ UNCHANGED <<now, targets, crashed, feedVars>>

\* Without a candidate AppendRelated drops the event and nothing changes.
\* The DoH handler never records related queries.
AppendRelated(h, t, c) ==
    /\ ~crashed /\ pc[h] = "idle" /\ nextId \in Ids /\ h \notin DoHHandlers
    /\ \E best \in Candidates(t, c) :
          LET e   == [id |-> nextId, client |-> c, ts |-> Stamp(now)]
              upd == [best EXCEPT !.related = @ \cup {e}]
          IN  /\ IsBest(best, Candidates(t, c))
              /\ byToken' = [byToken EXCEPT ![t] = (@ \ {best}) \cup {upd}]
              /\ StartBroadcast(h, t, "related", upd)
    /\ UNCHANGED <<now, log, targets, crashed, feedVars>>

\* broadcast copies the subscriber list under subMu, or returns if it is empty.
CopySubs(h) ==
    /\ ~crashed /\ pc[h] = "stored"
    /\ LET list == subs[job[h].token]
       IN  IF list = <<>>
           THEN EndBroadcast(h)
           ELSE /\ pc' = [pc EXCEPT ![h] = "sending"]
                /\ targets' = [targets EXCEPT ![h] = list]
                /\ UNCHANGED job
    /\ UNCHANGED <<now, nextId, crashed, storeVars, feedVars>>

\* (Variant: the loop over the subscribers returns after the first.)
SentToFirst(h) == EndBroadcast(h)
Sent(h) ==
    IF Len(targets[h]) = 1
    THEN EndBroadcast(h)
    ELSE /\ targets' = [targets EXCEPT ![h] = Tail(@)]
         /\ UNCHANGED <<pc, job>>

\* select { case sub.ch <- u: default: } on an open channel never blocks.
\* (Variant: a plain send, which waits for room.)
SendWaits(h) ==
    /\ ~crashed /\ pc[h] = "sending"
    /\ LET d == Head(targets[h])
       IN  /\ conn[d] # "closed" /\ Len(ch[d]) < BufferSize
           /\ ch' = [ch EXCEPT ![d] = Append(@, job[h].upd)]
    /\ Sent(h)
    /\ UNCHANGED <<now, nextId, crashed, storeVars, subs, conn, snapshot, shown,
                   missed, since>>
Send(h) ==
    /\ ~crashed /\ pc[h] = "sending"
    /\ LET d == Head(targets[h])
       IN  /\ conn[d] # "closed"
           /\ IF Len(ch[d]) < BufferSize
              THEN ch' = [ch EXCEPT ![d] = Append(@, job[h].upd)] /\ UNCHANGED missed
              ELSE missed' = [missed EXCEPT ![d] = @ \cup {job[h].upd.event}] /\ UNCHANGED ch
    /\ Sent(h)
    /\ UNCHANGED <<now, nextId, crashed, storeVars, subs, conn, snapshot, shown, since>>

\* A send on a closed channel panics, default case or not.  The DNS library
\* does not recover it; net/http does, and the request's goroutine just ends.
SendPanics(h) ==
    /\ ~crashed /\ pc[h] = "sending"
    /\ conn[Head(targets[h])] = "closed"
    /\ IF h \in DoHHandlers
       THEN /\ EndBroadcast(h)
            /\ missed' = [d \in Dashboards |->
                 IF \E i \in DOMAIN targets[h] : targets[h][i] = d
                 THEN missed[d] \cup {job[h].upd.event} ELSE missed[d]]
            /\ UNCHANGED crashed
       ELSE crashed' = TRUE /\ UNCHANGED <<pc, job, targets, missed>>
    /\ UNCHANGED <<now, nextId, storeVars, subs, ch, conn, snapshot, shown, since>>

-----------------------------------------------------------------------------
(***************************************************************************)
(* WebSocket goroutines (Subscribe, serveDiagWS, unsubscribe).             *)
(***************************************************************************)
Goto(d, from, to) == conn[d] = from /\ conn' = [conn EXCEPT ![d] = to]

\* snapshot = d.Records(token), under d.mu.
TakeSnapshot(d) ==
    /\ ~crashed
    /\ Goto(d, "upgraded", "snapshotted")
    /\ snapshot' = [snapshot EXCEPT ![d] =
           UNION {{r.id} \cup {e.id : e \in r.related} : r \in Pruned(Watches[d])}]
    /\ UNCHANGED <<now, nextId, storeVars, pc, job, targets, crashed, subs, ch,
                   shown, missed, since>>

\* d.subs[token] = append(d.subs[token], sub), under d.subMu.  The snapshot is
\* then written to the connection; an error of that write is ignored.
Register(d) ==
    /\ ~crashed
    /\ Goto(d, "snapshotted", "streaming")
    /\ subs' = [subs EXCEPT ![Watches[d]] = Append(@, d)]
    /\ since' = [since EXCEPT ![d] = nextId]
    /\ UNCHANGED <<now, nextId, storeVars, pc, job, targets, crashed, ch,
                   snapshot, shown, missed>>

\* One turn of "for u := range updates", with a write that succeeds...
WriteUpdate(d) ==
    /\ ~crashed /\ conn[d] = "streaming" /\ ch[d] # <<>>
    /\ ch' = [ch EXCEPT ![d] = Tail(@)]
    /\ shown' = [shown EXCEPT ![d] = @ \cup {Head(ch[d]).event}]
    /\ UNCHANGED <<now, nextId, storeVars, pc, job, targets, crashed, subs, conn,
                   snapshot, missed, since>>

\* ... or fails or times out: the update is lost and the handler returns.
WriteFails(d) ==
    /\ ~crashed /\ ch[d] # <<>>
    /\ Goto(d, "streaming", "leaving")
    /\ ch' = [ch EXCEPT ![d] = Tail(@)]
    /\ UNCHANGED <<now, nextId, storeVars, pc, job, targets, crashed, subs,
                   snapshot, shown, missed, since>>

\* unsubscribe, under d.subMu: the first entry that is this subscriber goes.
\* (Variant: the entries after it go with it, append(list[:i], ...) forgotten.)
WithoutRest(list, d) ==
    IF \E i \in DOMAIN list : list[i] = d
    THEN SubSeq(list, 1, (CHOOSE i \in DOMAIN list : list[i] = d) - 1)
    ELSE list
Without(list, d) ==
    IF \E i \in DOMAIN list : list[i] = d
    THEN LET first == CHOOSE i \in DOMAIN list :
                         list[i] = d /\ \A j \in DOMAIN list : list[j] = d => i <= j
         IN  SubSeq(list, 1, first - 1) \o SubSeq(list, first + 1, Len(list))
    ELSE list

Unregister(d) ==
    /\ ~crashed
    /\ Goto(d, "leaving", "unregistered")
    /\ subs' = [subs EXCEPT ![Watches[d]] = Without(@, d)]
    /\ UNCHANGED <<now, nextId, storeVars, pc, job, targets, crashed, ch,
                   snapshot, shown, missed, since>>

\* close(ch), after the lock is released.
CloseChannel(d) ==
    /\ ~crashed
    /\ Goto(d, "unregistered", "closed")
    /\ UNCHANGED <<now, nextId, storeVars, pc, job, targets, crashed, subs, ch,
                   snapshot, shown, missed, since>>

Tick ==
    /\ ~crashed /\ now < MaxTime
    /\ now' = now + 1
    /\ UNCHANGED <<nextId, storeVars, pc, job, targets, crashed, feedVars>>

Broadcast(h) == CopySubs(h) \/ Send(h) \/ SendPanics(h)
Stream(d) == WriteUpdate(d) \/ WriteFails(d)
Leave(d) == Unregister(d) \/ CloseChannel(d)

Next ==
    \/ \E h \in Handlers, t \in Tokens, c \in Clients : Record(h, t, c)
    \/ \E h \in Handlers, t \in Tokens, c \in Clients : AppendRelated(h, t, c)
    \/ \E h \in Handlers : Broadcast(h)
    \/ \E d \in Dashboards : TakeSnapshot(d) \/ Register(d) \/ Stream(d) \/ Leave(d)
    \/ Tick

Spec == Init /\ [][Next]_vars

(***************************************************************************)
(* The Go scheduler runs every goroutine that can run: a broadcast in      *)
(* progress goes on, and a WebSocket goroutine with a queued update        *)
(* returns from its write within diagWSWriteTimeout, one way or the other. *)
(* Queries, connections and failures of writes are not owed to anyone.     *)
(***************************************************************************)
HandlerFairness == \A h \in Handlers : WF_vars(Broadcast(h))
StreamFairness == \A d \in Dashboards : WF_vars(Stream(d)) /\ WF_vars(Leave(d))

\* Only the handlers are fair: a dashboard may stop reading for ever.
LiveSpec == Spec /\ HandlerFairness
-----------------------------------------------------------------------------
(***************************************************************************)
(* Properties of the store.                                                *)
(***************************************************************************)
\* A handler has an update exactly while it broadcasts, and subscribers to send
\* it to exactly while it sends.
HandlersOK ==
    /\ pc \in [Handlers -> {"idle", "stored", "sending"}]
    /\ job \in [Handlers -> Job \cup {NoJob}]
    /\ targets \in [Handlers -> Seq(Dashboards)]
    /\ \A h \in Handlers :
          /\ pc[h] = "idle" => job[h] = NoJob
          /\ pc[h] # "idle" => job[h] \in Job
          /\ pc[h] = "sending" <=> targets[h] # <<>>

\* Every variable holds a value of the kind the Go type allows.
TypeOK ==
    /\ now \in 0..MaxTime
    /\ nextId \in 1..(MaxEvents + 1)
    /\ byToken \in [Tokens -> SUBSET DiagRecord]
    /\ log \in [Tokens -> SUBSET DiagRecord]
    /\ subs \in [Tokens -> Seq(Dashboards)]
    /\ HandlersOK
    /\ conn \in [Dashboards -> {"upgraded", "snapshotted", "streaming", "leaving",
                                "unregistered", "closed"}]
    /\ ch \in [Dashboards -> Seq(Update)]
    /\ crashed \in BOOLEAN
    /\ snapshot \in [Dashboards -> SUBSET Ids]
    /\ shown \in [Dashboards -> SUBSET Ids]
    /\ missed \in [Dashboards -> SUBSET Ids]
    /\ since \in [Dashboards -> 0..(MaxEvents + 1)]

\* The list of a token never outgrows the cap of NewDiagStore, and no
\* subscriber's queue outgrows diagSubBuffer, however the calls interleave.
ListsBounded == \A t \in Tokens : Cardinality(byToken[t]) <= MaxPerToken
QueuesBounded == \A d \in Dashboards : Len(ch[d]) <= BufferSize
Bounded == ListsBounded /\ QueuesBounded

\* AppendRelated's comment "list is oldest-first" and Records' "newest last":
\* insertion order agrees with the timestamps, which is so only because the
\* timestamp is read inside the critical section that inserts.
OldestFirst ==
    \A t \in Tokens : \A a, b \in byToken[t] : a.id < b.id => a.ts <= b.ts

\* A related query hangs under a query of the same client, sent no later than
\* it and at most DiagRelatedWindow before it.
RelatedMatchesPrimary ==
    \A t \in Tokens : \A r \in byToken[t] : \A e \in r.related :
        e.client = r.client /\ r.id < e.id /\ r.ts <= e.ts /\ e.ts <= r.ts + RelatedWindow

\* NewDiagStore's contract as an abstract log: what a reader sees of the lazily
\* pruned lists, from which records are evicted one by one, is at every moment what
\* RetainedLog shows: the newest MaxPerToken within the retention.  Every step of
\* the code is a step of RetainedLog or invisible to readers.  AppendRelated's
\* comment has the event attached "to the most recent diag record for the token
\* from that client"; the log's Attach takes what the scan finds, the first record
\* of the latest second.
Retained == INSTANCE RetainedLog WITH view <- [t \in Tokens |-> Pruned(t)]
ImplementsLog == Retained!Spec

(***************************************************************************)
(* Properties of the live feed.                                            *)
(***************************************************************************)
\* A connection is in the subscriber list, once, exactly from its Register to
\* its Unregister, and only in the list of the token it watches.
SubscribersAreLive ==
    \A t \in Tokens, d \in Dashboards :
        Cardinality({i \in DOMAIN subs[t] : subs[t][i] = d})
            = IF Watches[d] = t /\ conn[d] \in {"streaming", "leaving"} THEN 1 ELSE 0

\* A handler has stored the event and is still to reach the subscriber.
InFlight(id, d) ==
    \E h \in Handlers :
        /\ pc[h] # "idle" /\ job[h].upd.event = id
        /\ pc[h] = "sending" => \E i \in DOMAIN targets[h] : targets[h][i] = d

EventsOf(t) == UNION {{r.id} \cup {e.id : e \in r.related} : r \in byToken[t]}

\* Once registered, a connection misses no later event without a reason: what
\* is stored after it registered is shown, queued, on its way, or was dropped
\* on a full channel or cut short by a recovered panic.
RegisteredSeesAll ==
    \A d \in Dashboards : conn[d] = "streaming" =>
        \A id \in EventsOf(Watches[d]) :
            id >= since[d] => id \in Seen(d) \/ InFlight(id, d)

\* The dashboard's feed and the DNS service share a process: broadcast, which
\* is documented as "Non-blocking; drops if channel full", must not end it.
NoSendOnClosedChannel == ~crashed

\* broadcast is non-blocking: a query that reached the store is answered even
\* if no dashboard ever reads its channel again.
HandlersNeverBlock == \A h \in Handlers : pc[h] # "idle" ~> (pc[h] = "idle" \/ crashed)

\* An event stored while a connection is registered ends up on its page, unless
\* it was dropped, or the connection or the process is gone.  This takes a
\* dashboard that reads, or whose writes fail in the end.
EventuallyShown ==
    StreamFairness => \A d \in Dashboards, id \in Ids :
        (conn[d] = "streaming" /\ since[d] > 0 /\ id >= since[d] /\ id \in EventsOf(Watches[d]))
            ~> (id \in shown[d] \cup missed[d] \/ conn[d] # "streaming" \/ crashed)
=============================================================================
