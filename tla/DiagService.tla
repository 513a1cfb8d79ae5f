---------------------------- MODULE DiagService ----------------------------
(***************************************************************************)
(* The diagnostic service around DiagStore: diagRecorderAdapter of         *)
(* cmd/gadget-dns-server/main.go, which remembers for a while which token  *)
(* a client used last and files its other queries under that token, and    *)
(* the dashboard page of internal/httpapi/routes.go, whose script merges   *)
(* the updates of the WebSocket into the rows the server rendered.         *)
(*                                                                         *)
(* A handler of DiagStore gets a task: a query for a token's name is       *)
(* stored, broadcast, and then sets the client's session; another query    *)
(* reads the session, and files itself after the adapter's lock is         *)
(* released.  A page is loaded once, before its connection; the script     *)
(* ignores the snapshot and takes updates in the order they were written.  *)
(***************************************************************************)
EXTENDS DiagStore, SequencesExt

CONSTANT SessionTTL     \* diagSessionTTL, in ticks

ASSUME ServiceAssumption == SessionTTL \in Nat

VARIABLES
    session,    \* a.session: the token of each client, and until when it holds
    task,       \* the recorder call a handler is in
    page,       \* the rows of each dashboard's table
    loaded,     \* history: the value of nextId when the page was rendered, 0 before
    pending,    \* history: the broadcasts that were under way at that moment
    overlapped, \* history: clients with two queries for tokens at once, or a lost one
    reordered   \* history: records with two broadcasts at once

adapterVars == <<session, task, overlapped>>
pageVars    == <<page, loaded, pending>>
serviceVars == <<vars, adapterVars, pageVars, reordered>>

NoSession == [kind |-> "none"]
NoTask == [kind |-> "none"]

ServiceInit ==
    /\ Init
    /\ session    = [c \in Clients |-> NoSession]
    /\ task       = [h \in Handlers |-> NoTask]
    /\ page       = [d \in Dashboards |-> <<>>]
    /\ loaded     = [d \in Dashboards |-> 0]
    /\ pending    = [d \in Dashboards |-> {}]
    /\ overlapped = {}
    /\ reordered  = {}

-----------------------------------------------------------------------------
(***************************************************************************)
(* The adapter.                                                            *)
(***************************************************************************)
Busy(c) == {h \in Handlers : task[h].kind = "diag" /\ task[h].client = c}
Assign(h, kind, t, c) ==
    task' = [task EXCEPT ![h] = [kind |-> kind, token |-> t, client |-> c]]

\* RecordDiag: the store first.
BeginDiag(h, t, c) ==
    /\ task[h] = NoTask
    /\ Record(h, t, c)
    /\ Assign(h, "diag", t, c)
    /\ overlapped' = IF Busy(c) # {} THEN overlapped \cup {c} ELSE overlapped
    /\ UNCHANGED <<session, pageVars, reordered>>

\* ... then the session, once the broadcast is over.
\* (Variant: a session that is still running keeps its token.)
SetSessionOnce(h) ==
    /\ ~crashed /\ pc[h] = "idle" /\ task[h].kind = "diag"
    /\ session' = [session EXCEPT ![task[h].client] =
           IF @ # NoSession /\ now <= @.until THEN @
           ELSE [token |-> task[h].token, until |-> now + SessionTTL]]
    /\ task' = [task EXCEPT ![h] = NoTask]
    /\ UNCHANGED <<vars, pageVars, overlapped, reordered>>
SetSession(h) ==
    /\ ~crashed /\ pc[h] = "idle" /\ task[h].kind = "diag"
    /\ session' = [session EXCEPT ![task[h].client] =
           [token |-> task[h].token, until |-> now + SessionTTL]]
    /\ task' = [task EXCEPT ![h] = NoTask]
    /\ UNCHANGED <<vars, pageVars, overlapped, reordered>>

\* RecordRelatedIfInSession, under the adapter's lock: an expired session is
\* deleted, and the token of a live one is taken along.
ReadSession(h, c) ==
    /\ ~crashed /\ pc[h] = "idle" /\ task[h] = NoTask /\ h \notin DoHHandlers
    /\ session[c] # NoSession /\ nextId \in Ids
    /\ IF now > session[c].until
       THEN session' = [session EXCEPT ![c] = NoSession] /\ UNCHANGED task
       ELSE Assign(h, "related", session[c].token, c) /\ UNCHANGED session
    /\ UNCHANGED <<vars, pageVars, overlapped, reordered>>

\* AppendRelated, without the lock: the query is filed under the token read
\* before, or dropped if that token has no record for it.
UnderBroadcast(id) == \E g \in Handlers : pc[g] # "idle" /\ job[g].upd.rec.id = id

AppendSaved(h) ==
    /\ ~crashed /\ pc[h] = "idle" /\ task[h].kind = "related"
    /\ LET t == task[h].token  c == task[h].client
       IN  \/ /\ AppendRelated(h, t, c)
              /\ reordered' = reordered \cup
                     {id \in {job'[h].upd.rec.id} : UnderBroadcast(id)}
           \/ Candidates(t, c) = {} /\ UNCHANGED <<vars, reordered>>
    /\ task' = [task EXCEPT ![h] = NoTask]
    /\ UNCHANGED <<session, overlapped, pageVars>>

StepBroadcast(h) ==
    /\ CopySubs(h) \/ Send(h)
    /\ UNCHANGED <<adapterVars, pageVars, reordered>>

\* A recovered panic unwinds RecordDiag too: the session is never set.
PanicBroadcast(h) ==
    /\ SendPanics(h)
    /\ task' = IF h \in DoHHandlers THEN [task EXCEPT ![h] = NoTask] ELSE task
    /\ overlapped' = overlapped \cup {c \in Clients : h \in Busy(c)}
    /\ UNCHANGED <<session, pageVars, reordered>>

-----------------------------------------------------------------------------
(***************************************************************************)
(* The page: serveDiag renders the records, the script of                  *)
(* writeDiagLiveScript opens the connection and merges what arrives.       *)
(***************************************************************************)
RowOf(r) == [id |-> r.id, ts |-> r.ts, detail |-> r.id, related |-> {e.id : e \in r.related}]
\* The i-th record of a list has i - 1 records before it.
InOrder(S) ==
    [i \in 1..Cardinality(S) |->
        CHOOSE r \in S : Cardinality({o \in S : o.id < r.id}) = i - 1]
RowsOf(S) == [i \in 1..Cardinality(S) |-> RowOf(InOrder(S)[i])]

LoadPage(d) ==
    /\ ~crashed /\ conn[d] = "upgraded" /\ loaded[d] = 0
    /\ page' = [page EXCEPT ![d] = RowsOf(Pruned(Watches[d]))]
    /\ loaded' = [loaded EXCEPT ![d] = nextId]
    /\ pending' = [pending EXCEPT ![d] =
           {job[h].upd.event : h \in {g \in Handlers : pc[g] # "idle"}}]
    /\ UNCHANGED <<vars, adapterVars, reordered>>

\* A "record" message adds a row; a "related" message replaces the detail cell
\* of the first row with the record's timestamp, and is lost without one.
\* (Variant: a cell is filled only once.)
MergedOnce(rows, u) ==
    LET same == {i \in DOMAIN rows : rows[i].ts = u.rec.ts}
        empty == {i \in same : rows[i].related = {}}
    IN  CASE u.kind = "record" -> Append(rows, RowOf(u.rec))
          [] u.kind = "related" /\ empty = {} -> rows
          [] u.kind = "related" /\ empty # {} ->
                LET i == CHOOSE i \in empty : \A j \in empty : i <= j
                IN  [rows EXCEPT ![i].detail = u.rec.id, ![i].related = RowOf(u.rec).related]
Merged(rows, u) ==
    LET same == {i \in DOMAIN rows : rows[i].ts = u.rec.ts}
    IN  CASE u.kind = "record" -> Append(rows, RowOf(u.rec))
          [] u.kind = "related" /\ same = {} -> rows
          [] u.kind = "related" /\ same # {} ->
                LET i == CHOOSE i \in same : \A j \in same : i <= j
                IN  [rows EXCEPT ![i].detail = u.rec.id, ![i].related = RowOf(u.rec).related]

\* The connection's first message is the snapshot, which the script ignores.
\* (Variant: the script adds a row for each of its records.)
ConnectAddingSnapshot(d) ==
    /\ loaded[d] # 0 /\ TakeSnapshot(d)
    /\ page' = [page EXCEPT ![d] = @ \o RowsOf(Pruned(Watches[d]))]
    /\ UNCHANGED <<adapterVars, loaded, pending, reordered>>
Connect(d) ==
    /\ loaded[d] # 0 /\ TakeSnapshot(d)
    /\ UNCHANGED <<adapterVars, pageVars, reordered>>

\* What is written to the connection reaches the script, in order.
DeliverUpdate(d) ==
    /\ WriteUpdate(d)
    /\ page' = [page EXCEPT ![d] = Merged(@, Head(ch[d]))]
    /\ UNCHANGED <<adapterVars, loaded, pending, reordered>>

Disconnect(d) ==
    /\ Register(d) \/ WriteFails(d) \/ Leave(d)
    /\ UNCHANGED <<adapterVars, pageVars, reordered>>

ServiceTick == Tick /\ UNCHANGED <<adapterVars, pageVars, reordered>>

ServiceNext ==
    \/ \E h \in Handlers, t \in Tokens, c \in Clients : BeginDiag(h, t, c)
    \/ \E h \in Handlers, c \in Clients : ReadSession(h, c)
    \/ \E h \in Handlers :
          SetSession(h) \/ AppendSaved(h) \/ StepBroadcast(h) \/ PanicBroadcast(h)
    \/ \E d \in Dashboards :
          LoadPage(d) \/ Connect(d) \/ DeliverUpdate(d) \/ Disconnect(d)
    \/ ServiceTick

ServiceSpec == ServiceInit /\ [][ServiceNext]_serviceVars

-----------------------------------------------------------------------------
\* diagSessionTTL's comment: "how long a client is considered 'in diag session'
\* after a token.diag query (for attaching related queries)".  Between queries, a
\* client's session is that of its last query for a token, and lasts that long,
\* whatever other handlers deleted or read in the meantime.  Not if two of its
\* queries overlapped, or one ended in a panic.
RecordsOf(c) == UNION {{<<t, r>> : r \in {r \in log[t] : r.client = c}} : t \in Tokens}
SessionIsLatest ==
    \A c \in Clients : Busy(c) = {} /\ c \notin overlapped =>
        \A last \in RecordsOf(c) :
            (\A o \in RecordsOf(c) : o[2].id <= last[2].id) =>
                IF session[c] = NoSession THEN now > last[2].ts + SessionTTL
                ELSE session[c].token = last[1]

\* The page's table against the store: a record has one row, and the row's detail
\* cell is about the query the row names.  Two rows, if its broadcast was under way
\* when the page was rendered: the server rendered it, and then sent it.  Another
\* query's details, if the two have the same timestamp: the script tells rows apart
\* by the second.
AloneInSecond(t, r) == \A o \in log[t] : o.ts = r.ts => o.id = r.id
RowsOnce(d) ==
    \A i, j \in DOMAIN page[d] : i < j /\ page[d][i].id = page[d][j].id =>
        /\ page[d][i].id \in pending[d]
        /\ \A k \in DOMAIN page[d] : page[d][k].id = page[d][i].id => k \in {i, j}
RowsShowThemselves(d) ==
    \A i \in DOMAIN page[d] :
        (\E r \in log[Watches[d]] : r.id = page[d][i].id /\ AloneInSecond(Watches[d], r))
            => page[d][i].detail = page[d][i].id
RowsMatchRecords == \A d \in Dashboards : RowsOnce(d) /\ RowsShowThemselves(d)

\* When nothing is on its way to a connected page, it shows the related queries
\* of the records it has a row for.  The exceptions are what a fix has to mind:
\* two broadcasts of one record may arrive in the wrong order, an event may fall
\* between rendering and subscribing or be dropped, and records of one second
\* share a row.
Quiet(d) ==
    /\ conn[d] = "streaming" /\ ch[d] = <<>>
    /\ \A h \in Handlers : pc[h] # "idle" => job[h].token # Watches[d]
QuietPageComplete ==
    \A d \in Dashboards : Quiet(d) /\ ~crashed =>
        \A r \in byToken[Watches[d]] :
            /\ r.id \in {page[d][i].id : i \in DOMAIN page[d]}
            /\ r.id \notin reordered /\ AloneInSecond(Watches[d], r)
            /\ \A e \in r.related : e.id \notin missed[d] /\ e.id \notin loaded[d]..(since[d] - 1)
            => \E i \in DOMAIN page[d] :
                  page[d][i].id = r.id /\ page[d][i].related = {e.id : e \in r.related}
=============================================================================
