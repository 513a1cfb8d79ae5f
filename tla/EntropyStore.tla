---------------------------- MODULE EntropyStore ---------------------------
(***************************************************************************)
(* The entropy store of internal/httpapi/entropy.go.  DNS handlers Record  *)
(* one sample per query of a run; browsers poll RunStatus until the run    *)
(* has enough samples for a result.  At most MaxRuns runs are kept, each   *)
(* for Retention.                                                          *)
(*                                                                         *)
(* A run is a heap object: byRun maps a run id to a reference, and a       *)
(* poller goes on using the reference it read after it released the lock.  *)
(* References are numbered in order of allocation.  runOrder grows exactly *)
(* when a run is allocated, so the slice is kept as a set of entries and   *)
(* the reference of an entry is its place in the slice.                    *)
(*                                                                         *)
(* The statistics of a result are a function of the samples it is computed *)
(* from, so the result is represented by those samples.                    *)
(***************************************************************************)
EXTENDS Integers, Sequences, FiniteSets

CONSTANTS
    RunIds,         \* run ids in query names
    Pollers,        \* goroutines serving GET /entropy/result/<runId>
    Samples,        \* what a sample can be
    MaxRuns,        \* NewEntropyStore's cap on runs
    Retention,      \* NewEntropyStore's retention, in ticks
    MinN, MaxN,     \* EntropyMinSamples, EntropyMaxSamples
    DefaultN,       \* n when the request has none that is valid
    MaxTime,        \* bound: last tick of a run of the model
    MaxRefs,        \* bound: runs ever allocated
    MaxLen          \* bound: samples in one run

ASSUME EntropyAssumption ==
    /\ RunIds # {}
    /\ MaxRuns \in Nat \ {0}
    /\ Retention \in Nat \ {0}
    /\ MinN \in Nat \ {0} /\ MaxN \in Nat /\ DefaultN \in MinN..MaxN
    /\ MaxTime \in Nat /\ MaxRefs \in Nat /\ MaxLen \in Nat

VARIABLES
    now,        \* the clock
    nextRef,    \* the next reference to be allocated
    heap,       \* the EntropyRun objects
    byRun,      \* s.byRun, Nil where the map has no entry
    runOrder,   \* s.runOrder
    pc, ask, run, count, reply  \* the pollers' progress and local variables

storeVars == <<nextRef, heap, byRun, runOrder>>
pollVars == <<pc, ask, run, count, reply>>
vars == <<now, nextRef, heap, byRun, runOrder, pc, ask, run, count, reply>>

Refs == 1..MaxRefs
Nil == 0
NoResult == [n |-> 0, of |-> <<>>]
Result == [n : 0..MaxN, of : Seq(Samples)]
EntropyRun == [createdAt : 0..MaxTime, samples : Seq(Samples), result : Result]
Entry == [ref : Refs, id : RunIds]
NewRun == [createdAt |-> now, samples |-> <<>>, result |-> NoResult]

Init ==
    /\ now = 0 /\ nextRef = 1
    /\ heap = [r \in Refs |-> NewRun]
    /\ byRun = [id \in RunIds |-> Nil]
    /\ runOrder = {}
    /\ pc = [p \in Pollers |-> "idle"]
    /\ ask = [p \in Pollers |-> [id |-> CHOOSE id \in RunIds : TRUE, n |-> MinN]]
    /\ run = [p \in Pollers |-> Nil]
    /\ count = [p \in Pollers |-> 0]
    /\ reply = [p \in Pollers |-> [count |-> 0, n |-> MinN, result |-> NoResult]]

-----------------------------------------------------------------------------
(***************************************************************************)
(* pruneLocked: drop the listed runs that are missing or expired, then     *)
(* rebuild the order from what the map still has.                          *)
(***************************************************************************)
Listed(id) == \E e \in runOrder : e.id = id
Expired(ref) == ref = Nil \/ heap[ref].createdAt < now - Retention
PrunedMap == [id \in RunIds |-> IF Listed(id) /\ Expired(byRun[id]) THEN Nil ELSE byRun[id]]
\* (Variant: the order is not rebuilt.)
OrderNotRebuilt == runOrder
PrunedOrder == {e \in runOrder : PrunedMap[e.id] # Nil}

Live(map) == {id \in RunIds : map[id] # Nil}
\* (Variant: the wrong end of the order evicted.)
OverCap(map) == Cardinality(Live(map)) > MaxRuns
LastInstead(order) == CHOOSE e \in order : \A o \in order : e.ref >= o.ref
First(order) == CHOOSE e \in order : \A o \in order : e.ref <= o.ref

AppendSample(ref, s) == [heap EXCEPT ![ref].samples = Append(@, s)]

\* A sample of a run the pruned map still has.
RecordKnown(id, s) ==
    /\ PrunedMap[id] # Nil
    /\ Len(heap[PrunedMap[id]].samples) < MaxLen
    /\ heap' = AppendSample(PrunedMap[id], s)
    /\ byRun' = PrunedMap
    /\ runOrder' = PrunedOrder
    /\ UNCHANGED nextRef

\* The first sample of a run: it is allocated and the oldest makes room.
RecordNew(id, s) ==
    /\ PrunedMap[id] = Nil
    /\ nextRef \in Refs /\ MaxLen > 0
    /\ heap' = [heap EXCEPT ![nextRef] = [NewRun EXCEPT !.samples = <<s>>]]
    /\ nextRef' = nextRef + 1
    /\ LET map   == [PrunedMap EXCEPT ![id] = nextRef]
           order == PrunedOrder \cup {[ref |-> nextRef, id |-> id]}
           old   == First(order)
       IN  IF OverCap(map)
           THEN /\ byRun' = [map EXCEPT ![old.id] = Nil]
                /\ runOrder' = order \ {old}
           ELSE byRun' = map /\ runOrder' = order

Record(id, s) ==
    /\ RecordKnown(id, s) \/ RecordNew(id, s)
    /\ UNCHANGED <<now, pollVars>>

-----------------------------------------------------------------------------
(***************************************************************************)
(* RunStatus, called by ServeEntropyResult.                                *)
(***************************************************************************)
Requested(q) == IF q \in MinN..MaxN THEN q ELSE DefaultN
Clamped(n) == IF n < MinN THEN MinN ELSE IF n > MaxN THEN MaxN ELSE n

Answer(p, n, result) ==
    /\ pc' = [pc EXCEPT ![p] = "idle"]
    /\ reply' = [reply EXCEPT ![p] = [count |-> n, n |-> ask[p].n, result |-> result]]

\* run := s.byRun[runId], under the read lock.
LookUp(p, id, q) ==
    /\ pc[p] = "idle"
    /\ ask' = [ask EXCEPT ![p] = [id |-> id, n |-> Clamped(Requested(q))]]
    /\ run' = [run EXCEPT ![p] = byRun[id]]
    /\ IF byRun[id] = Nil
       THEN /\ reply' = [reply EXCEPT ![p] = [count |-> 0, n |-> Clamped(Requested(q)),
                                              result |-> NoResult]]
            /\ UNCHANGED pc
       ELSE pc' = [pc EXCEPT ![p] = "count"] /\ UNCHANGED reply
    /\ UNCHANGED <<now, storeVars, count>>

\* n := len(run.Samples), with no lock held.
CountSamples(p) ==
    /\ pc[p] = "count"
    /\ LET n == Len(heap[run[p]].samples)
       IN  /\ count' = [count EXCEPT ![p] = n]
           /\ IF n < ask[p].n
              THEN Answer(p, n, NoResult)
              ELSE pc' = [pc EXCEPT ![p] = "result"] /\ UNCHANGED reply
    /\ UNCHANGED <<now, storeVars, ask, run>>

\* Result: look the id up again under the lock; use the cache or fill it.
\* (Variant: a cache that ignores the n it was filled for.)
Compute(ref, n) == [n |-> n, of |-> SubSeq(heap[ref].samples, 1, n)]
CachedForAnyN(ref, n) == heap[ref].result # NoResult
Cached(ref, n) == heap[ref].result # NoResult /\ heap[ref].result.n = n

\* (Variant: one sample more is waited for.)
ReadyLate(ref, n) == ref # Nil /\ Len(heap[ref].samples) > n
Ready(ref, n) == ref # Nil /\ Len(heap[ref].samples) >= n

GetResult(p) ==
    /\ pc[p] = "result"
    /\ LET ref == byRun[ask[p].id]
           n   == ask[p].n
       IN  \/ /\ ~Ready(ref, n)
              /\ Answer(p, count[p], NoResult)
              /\ UNCHANGED heap
           \/ /\ Ready(ref, n) /\ Cached(ref, n)
              /\ Answer(p, count[p], heap[ref].result)
              /\ UNCHANGED heap
           \/ /\ Ready(ref, n) /\ ~Cached(ref, n)
              /\ heap' = [heap EXCEPT ![ref].result = Compute(ref, n)]
              /\ Answer(p, count[p], Compute(ref, n))
    /\ UNCHANGED <<now, nextRef, byRun, runOrder, ask, run, count>>

Tick ==
    /\ now < MaxTime
    /\ now' = now + 1
    /\ UNCHANGED <<storeVars, pollVars>>

Next ==
    \/ \E id \in RunIds, s \in Samples : Record(id, s)
    \/ \E p \in Pollers, id \in RunIds, q \in (MinN - 1)..(MaxN + 1) : LookUp(p, id, q)
    \/ \E p \in Pollers : CountSamples(p) \/ GetResult(p)
    \/ Tick

Spec == Init /\ [][Next]_vars

-----------------------------------------------------------------------------
\* Every variable holds a value of the kind the Go type allows, and a poller that
\* goes on has a run to go on with.
TypeOK ==
    /\ now \in 0..MaxTime
    /\ nextRef \in 1..(MaxRefs + 1)
    /\ heap \in [Refs -> EntropyRun]
    /\ byRun \in [RunIds -> Refs \cup {Nil}]
    /\ runOrder \subseteq Entry
    /\ pc \in [Pollers -> {"idle", "count", "result"}]
    /\ ask \in [Pollers -> [id : RunIds, n : MinN..MaxN]]
    /\ run \in [Pollers -> Refs \cup {Nil}]
    /\ \A p \in Pollers : pc[p] # "idle" => run[p] # Nil
    /\ count \in [Pollers -> Nat]
    /\ reply \in [Pollers -> [count : Nat, n : MinN..MaxN, result : Result]]

\* The two structures of the store never drift apart: the order lists each run of
\* the map once, under the reference the map has, and nothing else, and there are no
\* more than maxRuns, expired ones included.  Eviction takes the head of the order
\* and pruning walks it, so a drift would leak a run or evict one twice.
OrderMatchesMap ==
    /\ runOrder = {[ref |-> byRun[id], id |-> id] : id \in Live(byRun)}
    /\ Cardinality(Live(byRun)) <= MaxRuns
StoreOK == TypeOK /\ OrderMatchesMap

\* Whatever pruning and eviction did, the runs that are within the retention
\* and in the map are the last MaxRuns ever started, less the expired ones: no
\* run disappears early and none stays too long.
LiveRunsAreNewest ==
    {byRun[id] : id \in Live(byRun)} \cap {r \in Refs : ~Expired(r)}
        = {r \in 1..(nextRef - 1) : ~Expired(r) /\ nextRef - r <= MaxRuns}

\* A result is computed from exactly the first n samples of a run, with the n
\* of the request, also when the cache was filled by a request with another n.
RepliesAnswerTheirQuestion ==
    \A p \in Pollers : reply[p].result # NoResult =>
        /\ reply[p].result.n = reply[p].n
        /\ \E r \in Refs : /\ Len(heap[r].samples) >= reply[p].n
                           /\ reply[p].result.of = SubSeq(heap[r].samples, 1, reply[p].n)

\* RunStatus's comment: "result is computed when samples >= minSamples".  The
\* only other outcome is a run that was evicted or replaced between the count
\* and the second look-up: it is reported with enough samples and no result.
ResultUnlessEvicted ==
    \A p \in Pollers :
        pc[p] = "idle" /\ reply[p].count >= reply[p].n /\ reply[p].result = NoResult
            => byRun[ask[p].id] # run[p]
=============================================================================
