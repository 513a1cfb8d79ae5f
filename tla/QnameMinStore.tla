--------------------------- MODULE QnameMinStore ---------------------------
(***************************************************************************)
(* The QNAME-minimisation store of internal/handler/qnamemin.go and the    *)
(* branch of Handle that uses it.  A query for *.qname-min.<zone> records  *)
(* its name under the client's address; a TXT query then answers with the  *)
(* sequence of names seen from that client.                                *)
(*                                                                         *)
(* Record reads the clock before it takes the lock, GetRecentSequence      *)
(* after; between the two calls other handlers run.  A client's list is    *)
(* kept as a set of entries numbered by insertion.                         *)
(***************************************************************************)
EXTENDS Integers, FiniteSets

CONSTANTS
    Clients,        \* client IP addresses
    Handlers,       \* goroutines answering queries
    MaxPerClient,   \* NewQnameMinStore's cap (50)
    Retention,      \* NewQnameMinStore's retention, in ticks
    MaxTime,        \* bound: last tick of a run
    MaxQueries      \* bound: queries in a run

ASSUME QnameMinAssumption ==
    /\ Clients # {}
    /\ MaxPerClient \in Nat \ {0}
    /\ Retention \in Nat \ {0}
    /\ MaxTime \in Nat /\ MaxQueries \in Nat

VARIABLES
    now,        \* the clock
    nextPos,    \* the number of the next entry
    byClient,   \* s.byClient
    pc, client, at, mine,   \* a handler's progress, client, clock reading and entry
    answer      \* the sequence a handler answers with, when it was read, and (history)
                \* the number of the next entry then

vars == <<now, nextPos, byClient, pc, client, at, mine, answer>>

Entry == [pos : 1..MaxQueries, at : 0..MaxTime]
NoAnswer == [seq |-> {}, asOf |-> 0, upTo |-> 1]

Init ==
    /\ now = 0 /\ nextPos = 1
    /\ byClient = [c \in Clients |-> {}]
    /\ pc = [h \in Handlers |-> "idle"]
    /\ client = [h \in Handlers |-> CHOOSE c \in Clients : TRUE]
    /\ at = [h \in Handlers |-> 0]
    /\ mine = [h \in Handlers |-> 0]
    /\ answer = [h \in Handlers |-> NoAnswer]

-----------------------------------------------------------------------------
\* "for len(list) > 0 && list[0].at.Before(cutoff)": only a prefix is dropped,
\* up to the first entry that is not old.
\* (Variant: an if where the loop was, so at most one entry goes.)
HeadPrunedOnce(S, cutoff) == {e \in S : e.at >= cutoff \/ \E o \in S : o.pos < e.pos}
HeadPruned(S, cutoff) == {e \in S : \E o \in S : o.pos <= e.pos /\ o.at >= cutoff}

\* "list = list[len(list)-maxPerClient:]": the last maxPerClient entries.
\* (Variants: one entry too many, and the wrong end of the slice.)
LastPlusOne(S) == {e \in S : Cardinality({o \in S : o.pos > e.pos}) <= MaxPerClient}
FirstInstead(S) == {e \in S : Cardinality({o \in S : o.pos < e.pos}) < MaxPerClient}
Last(S) == {e \in S : Cardinality({o \in S : o.pos > e.pos}) < MaxPerClient}

\* now := time.Now(), before s.mu.Lock().
ReadClock(h, c) ==
    /\ pc[h] = "idle" /\ nextPos <= MaxQueries
    /\ pc' = [pc EXCEPT ![h] = "locking"]
    /\ client' = [client EXCEPT ![h] = c]
    /\ at' = [at EXCEPT ![h] = now]
    /\ answer' = [answer EXCEPT ![h] = NoAnswer]
    /\ UNCHANGED <<now, nextPos, byClient, mine>>

\* The critical section of Record.  The handler goes on to GetRecentSequence
\* only if the query type is TXT.
Insert(h) ==
    /\ pc[h] = "locking" /\ nextPos <= MaxQueries
    /\ LET c == client[h]
       IN  byClient' = [byClient EXCEPT ![c] =
               Last(HeadPruned(@, at[h] - Retention) \cup {[pos |-> nextPos, at |-> at[h]]})]
    /\ mine' = [mine EXCEPT ![h] = nextPos]
    /\ nextPos' = nextPos + 1
    /\ \E isTXT \in BOOLEAN :
          pc' = [pc EXCEPT ![h] = IF isTXT THEN "recorded" ELSE "idle"]
    /\ UNCHANGED <<now, client, at, answer>>

GetRecentSequence(h) ==
    /\ pc[h] = "recorded"
    /\ LET kept == HeadPruned(byClient[client[h]], now - Retention)
       IN  /\ byClient' = [byClient EXCEPT ![client[h]] = kept]
           /\ answer' = [answer EXCEPT ![h] = [seq |-> kept, asOf |-> now, upTo |-> nextPos]]
    /\ pc' = [pc EXCEPT ![h] = "idle"]
    /\ UNCHANGED <<now, nextPos, client, at, mine>>

Tick ==
    /\ now < MaxTime
    /\ now' = now + 1
    /\ UNCHANGED <<nextPos, byClient, pc, client, at, mine, answer>>

Next ==
    \/ \E h \in Handlers, c \in Clients : ReadClock(h, c)
    \/ \E h \in Handlers : Insert(h) \/ GetRecentSequence(h)
    \/ Tick

Spec == Init /\ [][Next]_vars

-----------------------------------------------------------------------------
\* Every variable holds a value of the kind the Go type allows, and a client's list
\* never outgrows the cap, however the handlers interleave.
TypeOK ==
    /\ now \in 0..MaxTime
    /\ nextPos \in 1..(MaxQueries + 1)
    /\ byClient \in [Clients -> SUBSET Entry]
    /\ pc \in [Handlers -> {"idle", "locking", "recorded"}]
    /\ client \in [Handlers -> Clients]
    /\ at \in [Handlers -> 0..MaxTime]
    /\ mine \in [Handlers -> 0..MaxQueries]
    /\ answer \in [Handlers -> [seq : SUBSET Entry, asOf : 0..MaxTime,
                              upTo : 1..(MaxQueries + 1)]]
    /\ \A c \in Clients : Cardinality(byClient[c]) <= MaxPerClient

\* A TXT answer lists the query it answers, although the lock was released
\* between recording and reading, unless the query aged out or at least
\* MaxPerClient later ones were recorded.
OwnQueryReported ==
    \A h \in Handlers : LET a == answer[h] IN
        a.seq # {} =>
            \/ \E e \in a.seq : e.pos = mine[h] /\ e.at = at[h]
            \/ at[h] < a.asOf - Retention
            \/ a.upTo - mine[h] > MaxPerClient

\* GetRecentSequence prunes old entries.  It stops at the first that is not old,
\* so an expired entry is answered only if the race above put it behind one that
\* is fresh.
ExpiredOnlyBehindFresh ==
    \A h \in Handlers : LET cutoff == answer[h].asOf - Retention IN
        \A e \in answer[h].seq : e.at < cutoff =>
            \E o \in answer[h].seq : o.pos < e.pos /\ o.at >= cutoff
=============================================================================
