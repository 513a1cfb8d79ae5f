---------------------------- MODULE RetainedLog ----------------------------
(***************************************************************************)
(* What the diagnostic store promises its readers, whatever it keeps and   *)
(* whenever it prunes: per token a log that shows the newest MaxPerToken   *)
(* queries that are within the retention, each with the related queries    *)
(* that hang under it.  Here ageing is eager: the clock removes records.   *)
(* DiagStore prunes lazily, evicts one record at a time, and implements    *)
(* this log.                                                               *)
(***************************************************************************)
EXTENDS Integers, FiniteSets

CONSTANTS
    Tokens,         \* dashboard tokens
    Clients,        \* client addresses
    Ids,            \* numbers of events
    MaxPerToken,    \* records a token shows at most
    Retention,      \* age up to which a record is shown
    RelatedWindow,  \* age up to which a record takes related queries
    Second          \* resolution of timestamps

VARIABLES
    now,            \* the wall clock
    view            \* the records each token shows

Stamp(t) == t - (t % Second)
Fresh(S, t, age) == {r \in S : r.ts >= t - age}
Newest(S) == {r \in S : Cardinality({o \in S : o.id > r.id}) < MaxPerToken}

Init == now = 0 /\ view = [t \in Tokens |-> {}]

\* A query for the token's name is shown at once, in place of the oldest if
\* there are too many; not at all if rounding its time made it too old.
Append(t, c, id) ==
    /\ \A r \in view[t] : r.id < id
    /\ LET rec == [id |-> id, client |-> c, ts |-> Stamp(now), related |-> {}]
       IN  view' = [view EXCEPT ![t] = Fresh(Newest(@ \cup {rec}), now, Retention)]
    /\ UNCHANGED now

\* A related query joins a record of its client: the first of the latest second.
Attach(t, c, id) ==
    LET candidates == {r \in Fresh(view[t], now, RelatedWindow) : r.client = c}
    IN  /\ \E r \in candidates :
              /\ \A o \in candidates : o.ts < r.ts \/ (o.ts = r.ts /\ r.id <= o.id)
              /\ r.id < id
              /\ view' = [view EXCEPT ![t] = (@ \ {r}) \cup
                    {[r EXCEPT !.related = @ \cup {[id |-> id, client |-> c, ts |-> Stamp(now)]}]}]
        /\ UNCHANGED now

Tick ==
    /\ now' = now + 1
    /\ view' = [t \in Tokens |-> Fresh(view[t], now', Retention)]

Next ==
    \/ \E t \in Tokens, c \in Clients, id \in Ids : Append(t, c, id) \/ Attach(t, c, id)
    \/ Tick

Spec == Init /\ [][Next]_<<now, view>>
=============================================================================
