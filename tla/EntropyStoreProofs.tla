------------------------- MODULE EntropyStoreProofs ------------------------
(***************************************************************************)
(* Proofs about EntropyStore, for every number of run ids and pollers and  *)
(* every cap, retention and range of n.                                    *)
(***************************************************************************)
EXTENDS EntropyStore, FiniteSetTheorems, SequenceTheorems, TLAPS

-----------------------------------------------------------------------------
(***************************************************************************)
(* Type correctness.                                                       *)
(***************************************************************************)
LEMMA Sizes ==
    /\ MinN \in Nat \ {0} /\ MaxN \in Nat /\ MinN <= MaxN /\ MinN..MaxN \subseteq Nat \ {0}
    /\ DefaultN \in MinN..MaxN
    /\ MaxRuns \in Nat \ {0} /\ Retention \in Nat /\ MaxTime \in Nat /\ MaxRefs \in Nat
    /\ Nil \notin Refs /\ Refs \subseteq Nat
BY EntropyAssumption DEF Refs, Nil

LEMMA NoResultType == NoResult \in Result
BY Sizes DEF NoResult, Result

\* A run with other samples, or another result, is a run.
LEMMA WithSamples ==
    ASSUME NEW r \in EntropyRun, NEW list \in Seq(Samples)
    PROVE  /\ [r EXCEPT !.samples = list] \in EntropyRun
           /\ [r EXCEPT !.samples = list].samples = list
           /\ [r EXCEPT !.samples = list].createdAt = r.createdAt
           /\ [r EXCEPT !.samples = list].result = r.result
<1> DEFINE T == 0..MaxTime
           L == Seq(Samples)
           R == Result
<1>1. EntropyRun = [createdAt : T, samples : L, result : R] /\ list \in L
  BY DEF EntropyRun
<1> HIDE DEF T, L, R
<1> QED
  BY <1>1

LEMMA WithResult ==
    ASSUME NEW r \in EntropyRun, NEW res \in Result
    PROVE  /\ [r EXCEPT !.result = res] \in EntropyRun
           /\ [r EXCEPT !.result = res].samples = r.samples
           /\ [r EXCEPT !.result = res].createdAt = r.createdAt
           /\ [r EXCEPT !.result = res].result = res
<1> DEFINE T == 0..MaxTime
           L == Seq(Samples)
           R == Result
<1>1. EntropyRun = [createdAt : T, samples : L, result : R] /\ res \in R
  BY DEF EntropyRun
<1> HIDE DEF T, L, R
<1> QED
  BY <1>1

LEMMA NewRunType == TypeOK => NewRun \in EntropyRun
BY NoResultType DEF NewRun, EntropyRun, TypeOK

LEMMA InitTypeOK == Init => TypeOK
<1> SUFFICES ASSUME Init PROVE TypeOK
  OBVIOUS
<1>1. now \in 0..MaxTime /\ nextRef \in 1..(MaxRefs + 1)
  BY Sizes DEF Init
<1>2. heap \in [Refs -> EntropyRun]
  BY Sizes, NoResultType DEF Init, NewRun, EntropyRun
<1>3. byRun \in [RunIds -> Refs \cup {Nil}] /\ runOrder \subseteq Entry
  BY DEF Init
<1>4. /\ pc \in [Pollers -> {"idle", "count", "result"}]
      /\ run \in [Pollers -> Refs \cup {Nil}]
      /\ count \in [Pollers -> Nat]
      /\ \A p \in Pollers : pc[p] # "idle" => run[p] # Nil
  BY DEF Init
<1>5. ask \in [Pollers -> [id : RunIds, n : MinN..MaxN]]
  <2>1. (CHOOSE id \in RunIds : TRUE) \in RunIds
    BY EntropyAssumption
  <2> QED
    BY <2>1, Sizes DEF Init
<1>6. reply \in [Pollers -> [count : Nat, n : MinN..MaxN, result : Result]]
  BY Sizes, NoResultType DEF Init
<1> QED
  BY <1>1, <1>2, <1>3, <1>4, <1>5, <1>6 DEF TypeOK

\* What pruning leaves: a map and an order of the same kind.
LEMMA PrunedType ==
    ASSUME TypeOK
    PROVE  PrunedMap \in [RunIds -> Refs \cup {Nil}] /\ PrunedOrder \subseteq runOrder
BY DEF TypeOK, PrunedMap, PrunedOrder

LEMMA RecordType ==
    ASSUME TypeOK, NEW id \in RunIds, NEW s \in Samples, Record(id, s)
    PROVE  TypeOK'
<1>1. CASE RecordKnown(id, s)
  <2> DEFINE ref == PrunedMap[id]
  <2>1. ref \in Refs
    BY <1>1, PrunedType DEF RecordKnown
  <2>2. Append(heap[ref].samples, s) \in Seq(Samples)
    BY <2>1 DEF TypeOK, EntropyRun
  <2>3. heap' = [heap EXCEPT ![ref].samples = Append(@, s)]
    BY <1>1 DEF RecordKnown, AppendSample
  <2> HIDE DEF ref
  <2>4. heap' \in [Refs -> EntropyRun]
    <3>1. [heap[ref] EXCEPT !.samples = Append(@, s)] \in EntropyRun
      BY <2>1, <2>2, WithSamples DEF TypeOK
    <3> QED
      BY <2>1, <2>3, <3>1 DEF TypeOK
  <2>5. byRun' \in [RunIds -> Refs \cup {Nil}] /\ runOrder' \subseteq Entry /\ nextRef' = nextRef
    BY <1>1, PrunedType DEF RecordKnown, TypeOK
  <2> QED
    BY <2>4, <2>5 DEF Record, pollVars, TypeOK
<1>2. CASE RecordNew(id, s)
  <2>1. nextRef \in Refs /\ nextRef' = nextRef + 1
    BY <1>2 DEF RecordNew
  <2>2. nextRef' \in 1..(MaxRefs + 1)
    BY <2>1, Sizes DEF Refs
  <2>3. heap' \in [Refs -> EntropyRun]
    <3>1. [NewRun EXCEPT !.samples = <<s>>] \in EntropyRun
      <4>1. <<s>> \in Seq(Samples)
        OBVIOUS
      <4> QED
        BY <4>1, NewRunType, WithSamples
    <3> QED
      BY <1>2, <2>1, <3>1 DEF RecordNew, TypeOK
  <2> DEFINE map == [PrunedMap EXCEPT ![id] = nextRef]
             order == PrunedOrder \cup {[ref |-> nextRef, id |-> id]}
             old == First(order)
  <2>4. map \in [RunIds -> Refs \cup {Nil}] /\ order \subseteq Entry
    BY <2>1, PrunedType DEF TypeOK, Entry
  <2>5. \/ byRun' = [map EXCEPT ![old.id] = Nil] /\ runOrder' = order \ {old}
        \/ byRun' = map /\ runOrder' = order
    BY <1>2 DEF RecordNew
  <2> HIDE DEF map, order, old
  <2>6. byRun' \in [RunIds -> Refs \cup {Nil}] /\ runOrder' \subseteq Entry
    BY <2>4, <2>5
  <2> QED
    BY <2>2, <2>3, <2>6 DEF Record, pollVars, TypeOK
<1> QED
  BY <1>1, <1>2 DEF Record

LEMMA ClampedType ==
    ASSUME NEW q \in Int
    PROVE  Clamped(Requested(q)) \in MinN..MaxN
BY Sizes DEF Clamped, Requested

LEMMA LookUpType ==
    ASSUME TypeOK, NEW p \in Pollers, NEW id \in RunIds, NEW q \in (MinN - 1)..(MaxN + 1),
           LookUp(p, id, q)
    PROVE  TypeOK'
<1> DEFINE n == Clamped(Requested(q))
<1>1. n \in MinN..MaxN
  BY Sizes, ClampedType
<1> HIDE DEF n
<1>2. /\ ask' = [ask EXCEPT ![p] = [id |-> id, n |-> n]]
      /\ run' = [run EXCEPT ![p] = byRun[id]]
      /\ \/ /\ byRun[id] = Nil
            /\ reply' = [reply EXCEPT ![p] = [count |-> 0, n |-> n, result |-> NoResult]]
            /\ pc' = pc /\ pc[p] = "idle"
         \/ byRun[id] # Nil /\ pc' = [pc EXCEPT ![p] = "count"] /\ reply' = reply
  BY DEF LookUp, n
<1>3. /\ ask' \in [Pollers -> [id : RunIds, n : MinN..MaxN]]
      /\ run' \in [Pollers -> Refs \cup {Nil}]
      /\ pc' \in [Pollers -> {"idle", "count", "result"}]
      /\ \A x \in Pollers : pc'[x] # "idle" => run'[x] # Nil
  BY <1>1, <1>2 DEF TypeOK
<1>4. reply' \in [Pollers -> [count : Nat, n : MinN..MaxN, result : Result]]
  BY <1>1, <1>2, NoResultType DEF TypeOK
<1> QED
  BY <1>3, <1>4 DEF LookUp, storeVars, TypeOK

LEMMA AnswerType ==
    ASSUME TypeOK, NEW p \in Pollers, NEW n \in Nat, NEW res \in Result, Answer(p, n, res)
    PROVE  /\ pc' \in [Pollers -> {"idle", "count", "result"}]
           /\ reply' \in [Pollers -> [count : Nat, n : MinN..MaxN, result : Result]]
           /\ \A x \in Pollers : pc'[x] # "idle" => pc[x] # "idle"
BY DEF Answer, TypeOK

LEMMA CountType ==
    ASSUME TypeOK, NEW p \in Pollers, CountSamples(p)
    PROVE  TypeOK'
<1> DEFINE n == Len(heap[run[p]].samples)
<1>1. n \in Nat
  <2>1. run[p] \in Refs
    BY DEF CountSamples, TypeOK
  <2> QED
    BY <2>1, LenProperties DEF TypeOK, EntropyRun
<1>2. /\ count' = [count EXCEPT ![p] = n]
      /\ \/ Answer(p, n, NoResult)
         \/ pc' = [pc EXCEPT ![p] = "result"] /\ reply' = reply
  BY DEF CountSamples
<1> HIDE DEF n
<1>3. /\ pc' \in [Pollers -> {"idle", "count", "result"}]
      /\ reply' \in [Pollers -> [count : Nat, n : MinN..MaxN, result : Result]]
      /\ \A x \in Pollers : pc'[x] # "idle" => pc[x] # "idle"
  <2>1. CASE Answer(p, n, NoResult)
    BY <1>1, <2>1, NoResultType, AnswerType
  <2>2. CASE pc' = [pc EXCEPT ![p] = "result"] /\ reply' = reply
    BY <2>2 DEF CountSamples, TypeOK
  <2> QED
    BY <1>2, <2>1, <2>2
<1>4. count' \in [Pollers -> Nat]
  BY <1>1, <1>2 DEF TypeOK
<1> QED
  BY <1>3, <1>4 DEF CountSamples, storeVars, TypeOK

\* The first n samples of a run that has as many are a result for n.
LEMMA ComputeType ==
    ASSUME TypeOK, NEW ref \in Refs, NEW n \in MinN..MaxN, Len(heap[ref].samples) >= n
    PROVE  Compute(ref, n) \in Result
<1>1. heap[ref].samples \in Seq(Samples)
  BY DEF TypeOK, EntropyRun
<1>2. SubSeq(heap[ref].samples, 1, n) \in Seq(Samples)
  <2> DEFINE list == heap[ref].samples
  <2>1. n \in Int /\ \A i \in 1..n : list[i] \in Samples
    BY <1>1, Sizes, ElementOfSeq, LenProperties
  <2> HIDE DEF list
  <2>2. SubSeq(list, 1, n) \in Seq(Samples)
    BY <2>1, SubSeqProperties
  <2> QED
    BY <2>2 DEF list
<1> QED
  BY <1>2, Sizes DEF Compute, Result

LEMMA ResultType ==
    ASSUME TypeOK, NEW p \in Pollers, GetResult(p)
    PROVE  TypeOK'
<1> DEFINE ref == byRun[ask[p].id]
           n == ask[p].n
<1>1. n \in MinN..MaxN /\ ref \in Refs \cup {Nil} /\ count[p] \in Nat
  BY DEF TypeOK
<1>2. \/ Answer(p, count[p], NoResult) /\ heap' = heap
      \/ Ready(ref, n) /\ Answer(p, count[p], heap[ref].result) /\ heap' = heap
      \/ /\ Ready(ref, n) /\ Answer(p, count[p], Compute(ref, n))
         /\ heap' = [heap EXCEPT ![ref].result = Compute(ref, n)]
  BY DEF GetResult
<1> HIDE DEF ref, n
<1>3. \E res \in Result : Answer(p, count[p], res)
  <2>1. Ready(ref, n) => heap[ref].result \in Result /\ Compute(ref, n) \in Result
    BY <1>1, ComputeType DEF Ready, TypeOK, EntropyRun
  <2> QED
    BY <1>2, <2>1, NoResultType
<1>4. heap' \in [Refs -> EntropyRun]
  <2>1. CASE /\ Ready(ref, n)
             /\ heap' = [heap EXCEPT ![ref].result = Compute(ref, n)]
    <3>1. ref \in Refs /\ Compute(ref, n) \in Result
      BY <1>1, <2>1, ComputeType DEF Ready
    <3>2. [heap[ref] EXCEPT !.result = Compute(ref, n)] \in EntropyRun
      BY <3>1, WithResult DEF TypeOK
    <3> QED
      BY <2>1, <3>1, <3>2 DEF TypeOK
  <2> QED
    BY <1>2, <2>1 DEF TypeOK
<1>5. /\ pc' \in [Pollers -> {"idle", "count", "result"}]
      /\ reply' \in [Pollers -> [count : Nat, n : MinN..MaxN, result : Result]]
      /\ \A x \in Pollers : pc'[x] # "idle" => pc[x] # "idle"
  BY <1>1, <1>3, AnswerType
<1> QED
  BY <1>4, <1>5 DEF GetResult, TypeOK

LEMMA StepTypeOK == TypeOK /\ [Next]_vars => TypeOK'
<1> SUFFICES ASSUME TypeOK, [Next]_vars
             PROVE  TypeOK'
  OBVIOUS
<1>1. CASE Tick
  BY <1>1, Sizes DEF Tick, storeVars, pollVars, TypeOK
<1>2. CASE UNCHANGED vars
  BY <1>2 DEF vars, TypeOK
<1> QED
  BY <1>1, <1>2, RecordType, LookUpType, CountType, ResultType DEF Next

LEMMA TypeInvariant == Spec => []TypeOK
BY InitTypeOK, StepTypeOK, PTL DEF Spec

-----------------------------------------------------------------------------
(***************************************************************************)
(* The map and the order.  None of the properties is inductive alone.  The *)
(* cap is exceeded by a new run exactly if the run MaxRuns before it is    *)
(* still there, and then that run is the head of the order: this takes     *)
(* that runs age in the order of their references (Ages), that no two ids  *)
(* share a run (OneIdPerRun), and which runs are there.                    *)
(***************************************************************************)
Finite == IsFiniteSet(Live(byRun))
Allocated == \A id \in RunIds : byRun[id] < nextRef
OneIdPerRun == \A a, b \in RunIds : byRun[a] = byRun[b] /\ byRun[a] # Nil => a = b
Ages == \A r \in 1..(nextRef - 1) :
           /\ heap[r].createdAt <= now
           /\ \A o \in 1..(nextRef - 1) : r <= o => heap[r].createdAt <= heap[o].createdAt
MapInv == Finite /\ OrderMatchesMap /\ Allocated /\ OneIdPerRun /\ Ages /\ LiveRunsAreNewest

InStep(map, order) == order = {[ref |-> map[id], id |-> id] : id \in Live(map)}
RunsOf(map) == {map[id] : id \in Live(map)}
\* The runs that should be there: within the retention, and among the last MaxRuns.
Wanted == {r \in 1..(nextRef - 1) : ~Expired(r) /\ nextRef - r <= MaxRuns}

LEMMA InitMapInv == Init => MapInv
<1> SUFFICES ASSUME Init PROVE MapInv
  OBVIOUS
<1>1. Live(byRun) = {} /\ runOrder = {} /\ nextRef = 1
  BY DEF Init, Live
<1>2. Finite /\ OrderMatchesMap
  BY <1>1, FS_EmptySet, Sizes DEF Finite, OrderMatchesMap
<1>3. Allocated /\ OneIdPerRun
  BY DEF Init, Allocated, OneIdPerRun, Nil
<1>4. 1..(nextRef - 1) = {}
  BY <1>1
<1>5. Ages /\ LiveRunsAreNewest
  BY <1>1, <1>4 DEF Ages, LiveRunsAreNewest
<1> QED
  BY <1>2, <1>3, <1>5 DEF MapInv

\* pruneLocked takes out exactly the expired runs, and what remains is what is wanted.
LEMMA PruneKeepsTheWanted ==
    ASSUME TypeOK, MapInv
    PROVE  /\ \A id \in RunIds : PrunedMap[id] = IF Expired(byRun[id]) THEN Nil ELSE byRun[id]
           /\ InStep(PrunedMap, PrunedOrder)
           /\ Live(PrunedMap) \in SUBSET Live(byRun)
           /\ RunsOf(PrunedMap) = Wanted
<1>1. runOrder = {[ref |-> byRun[id], id |-> id] : id \in Live(byRun)}
  BY DEF MapInv, OrderMatchesMap
<1>2. \A id \in RunIds : Listed(id) <=> byRun[id] # Nil
  <2>1. ASSUME NEW id \in RunIds, byRun[id] # Nil
        PROVE  Listed(id)
    <3>1. id \in Live(byRun)
      BY <2>1 DEF Live
    <3>2. [ref |-> byRun[id], id |-> id] \in runOrder
      BY <1>1, <3>1
    <3> QED
      BY <3>2 DEF Listed
  <2>2. ASSUME NEW id \in RunIds, NEW e \in runOrder, e.id = id
        PROVE  byRun[id] # Nil
    <3>1. PICK x \in Live(byRun) : e = [ref |-> byRun[x], id |-> x]
      BY <1>1
    <3>2. x = id
      BY <2>2, <3>1
    <3> QED
      BY <3>1, <3>2 DEF Live
  <2> QED
    BY <2>1, <2>2 DEF Listed
<1>3. \A id \in RunIds : PrunedMap[id] = IF Expired(byRun[id]) THEN Nil ELSE byRun[id]
  BY <1>2 DEF PrunedMap, Expired
<1>4. Live(PrunedMap) = {id \in Live(byRun) : ~Expired(byRun[id])}
  BY <1>3 DEF Live, Expired
<1>5. InStep(PrunedMap, PrunedOrder)
  BY <1>1, <1>3, <1>4 DEF InStep, PrunedOrder, Live
<1>6. RunsOf(PrunedMap) = {byRun[id] : id \in Live(byRun)} \cap {r \in Refs : ~Expired(r)}
  BY <1>3, <1>4 DEF RunsOf, Live, TypeOK, Expired
<1>7. RunsOf(PrunedMap) = Wanted
  BY <1>6 DEF Wanted, MapInv, LiveRunsAreNewest
<1> QED
  BY <1>3, <1>4, <1>5, <1>7

\* What stays in the map within the retention is what the map shows.
LEMMA RunsWithin ==
    ASSUME NEW map \in [RunIds -> Refs \cup {Nil}],
           \A id \in Live(map) : ~Expired(map[id])
    PROVE  {map[id] : id \in Live(map)} \cap {r \in Refs : ~Expired(r)} = RunsOf(map)
BY Sizes DEF RunsOf, Live

LEMMA KnownMapInv ==
    ASSUME TypeOK, MapInv, NEW id \in RunIds, NEW s \in Samples, RecordKnown(id, s), now' = now
    PROVE  MapInv'
<1>1. /\ byRun' = PrunedMap /\ runOrder' = PrunedOrder /\ nextRef' = nextRef
      /\ PrunedMap \in [RunIds -> Refs \cup {Nil}]
  BY PrunedType DEF RecordKnown
<1>2. \A r \in Refs : heap'[r].createdAt = heap[r].createdAt
  <2> DEFINE ref == PrunedMap[id]
             list == Append(heap[ref].samples, s)
  <2>1. ref \in Refs /\ heap' = [heap EXCEPT ![ref].samples = list]
    BY <1>1 DEF RecordKnown, AppendSample
  <2>2. list \in Seq(Samples) /\ heap[ref] \in EntropyRun
    BY <2>1 DEF TypeOK, EntropyRun
  <2> HIDE DEF list, ref
  <2>3. heap' = [heap EXCEPT ![ref] = [heap[ref] EXCEPT !.samples = list]]
    BY <2>1
  <2> QED
    BY <2>1, <2>2, <2>3, WithSamples DEF TypeOK
<1>3. \A r \in Refs \cup {Nil} : Expired(r)' <=> Expired(r)
  BY <1>2 DEF Expired
<1>4. /\ \A x \in RunIds : PrunedMap[x] = IF Expired(byRun[x]) THEN Nil ELSE byRun[x]
      /\ InStep(PrunedMap, PrunedOrder)
      /\ Live(PrunedMap) \in SUBSET Live(byRun)
      /\ RunsOf(PrunedMap) = Wanted
  BY PruneKeepsTheWanted
<1>5. Finite' /\ OrderMatchesMap'
  <2>1. IsFiniteSet(Live(byRun)) /\ Cardinality(Live(byRun)) <= MaxRuns
    BY DEF MapInv, Finite, OrderMatchesMap
  <2>2. /\ IsFiniteSet(Live(PrunedMap))
        /\ Cardinality(Live(PrunedMap)) <= Cardinality(Live(byRun))
        /\ Cardinality(Live(PrunedMap)) \in Nat /\ Cardinality(Live(byRun)) \in Nat
    BY <1>4, <2>1, FS_Subset, FS_CardinalityType
  <2>3. Cardinality(Live(PrunedMap)) <= MaxRuns
    BY <2>1, <2>2, Sizes
  <2> QED
    BY <1>1, <1>4, <2>2, <2>3 DEF Finite, OrderMatchesMap, InStep, Live
<1>6. Allocated' /\ OneIdPerRun'
  BY <1>1, <1>4 DEF MapInv, Allocated, OneIdPerRun, TypeOK, Nil
<1>7. 1..(nextRef - 1) \subseteq Refs
  BY Sizes DEF TypeOK, Refs
<1>8. Ages'
  BY <1>1, <1>2, <1>7 DEF MapInv, Ages
<1>9. LiveRunsAreNewest'
  <2>1. \A x \in Live(PrunedMap) : ~Expired(PrunedMap[x])
    BY <1>4 DEF Live
  <2>2. {r \in Refs : ~Expired(r)'} = {r \in Refs : ~Expired(r)}
    BY <1>3
  <2>3. {r \in 1..(nextRef - 1) : ~Expired(r)' /\ nextRef - r <= MaxRuns} = Wanted
    BY <1>3, <1>7 DEF Wanted
  <2>4. {PrunedMap[x] : x \in Live(PrunedMap)} \cap {r \in Refs : ~Expired(r)} = Wanted
    BY <1>1, <1>4, <2>1, RunsWithin
  <2> QED
    BY <1>1, <2>2, <2>3, <2>4 DEF LiveRunsAreNewest, Live
<1> QED
  BY <1>5, <1>6, <1>8, <1>9 DEF MapInv

\* How many runs a map without sharing has, against a window of references.
LEMMA AtMostTheWindow ==
    ASSUME NEW map \in [RunIds -> Refs \cup {Nil}], NEW lo \in Int, NEW hi \in Int, lo <= hi + 1,
           \A a, b \in Live(map) : map[a] = map[b] => a = b,
           RunsOf(map) \subseteq lo..hi
    PROVE  IsFiniteSet(Live(map)) /\ Cardinality(Live(map)) <= hi - lo + 1
<1> DEFINE f == [id \in Live(map) |-> map[id]]
<1>1. IsFiniteSet(lo..hi) /\ Cardinality(lo..hi) = hi - lo + 1
  BY FS_Interval
<1>2. f \in Injection(Live(map), lo..hi)
  <2>1. f \in [Live(map) -> lo..hi]
    BY DEF RunsOf
  <2>2. \A a, b \in Live(map) : f[a] = f[b] => a = b
    OBVIOUS
  <2> HIDE DEF f
  <2> QED
    BY <2>1, <2>2 DEF Injection, IsInjective
<1> HIDE DEF f
<1>3. IsFiniteSet(Live(map)) /\ Cardinality(Live(map)) <= Cardinality(lo..hi)
  BY <1>1, <1>2, FS_Injection
<1> QED
  BY <1>1, <1>3

LEMMA AtLeastTheWindow ==
    ASSUME NEW map, NEW lo \in Int, NEW hi \in Int, lo <= hi + 1,
           IsFiniteSet(Live(map)), lo..hi \subseteq RunsOf(map)
    PROVE  hi - lo + 1 <= Cardinality(Live(map))
<1> DEFINE f == [id \in Live(map) |-> map[id]]
           T == RunsOf(map)
<1>1. f \in Surjection(Live(map), T)
  BY DEF RunsOf, Surjection
<1> HIDE DEF f, T
<1>2. IsFiniteSet(T) /\ Cardinality(T) <= Cardinality(Live(map))
  BY <1>1, FS_Surjection
<1>3. lo..hi \in SUBSET T
  BY DEF T
<1>4. Cardinality(lo..hi) <= Cardinality(T) /\ Cardinality(lo..hi) = hi - lo + 1
  <2>1. Cardinality(lo..hi) = hi - lo + 1
    BY FS_Interval
  <2>2. Cardinality(lo..hi) <= Cardinality(T)
    BY <1>2, <1>3, FS_Subset
  <2> QED
    BY <2>1, <2>2
<1>5. Cardinality(T) \in Nat /\ Cardinality(Live(map)) \in Nat
  BY <1>2, FS_CardinalityType
<1> QED
  BY <1>2, <1>4, <1>5

\* The first sample of a run.  It goes over the cap exactly if the run MaxRuns before
\* it is still wanted, and then that run is evicted.
LEMMA NewMapInv ==
    ASSUME TypeOK, MapInv, NEW id \in RunIds, NEW s \in Samples, RecordNew(id, s), now' = now
    PROVE  MapInv'
<1> DEFINE n == nextRef
           map == [PrunedMap EXCEPT ![id] = n]
           entry == [ref |-> n, id |-> id]
           order == PrunedOrder \cup {entry}
           out == n - MaxRuns
<1>1. /\ PrunedMap[id] = Nil /\ n \in Refs /\ n \in Nat \ {0} /\ nextRef' = n + 1
      /\ 1..(n - 1) \subseteq Refs /\ out \in Int /\ out < n
  BY Sizes DEF RecordNew, TypeOK, Refs
<1>2. /\ \A x \in RunIds : PrunedMap[x] = IF Expired(byRun[x]) THEN Nil ELSE byRun[x]
      /\ InStep(PrunedMap, PrunedOrder)
      /\ Live(PrunedMap) \in SUBSET Live(byRun)
      /\ RunsOf(PrunedMap) = Wanted
      /\ PrunedMap \in [RunIds -> Refs \cup {Nil}]
  BY PruneKeepsTheWanted, PrunedType
<1>3. /\ \A r \in Refs : r # n => heap'[r].createdAt = heap[r].createdAt
      /\ heap'[n].createdAt = now
  BY <1>1 DEF RecordNew, NewRun, TypeOK
<1>4. \/ OverCap(map) /\ byRun' = [map EXCEPT ![First(order).id] = Nil] /\ runOrder' = order \ {First(order)}
      \/ ~OverCap(map) /\ byRun' = map /\ runOrder' = order
  BY DEF RecordNew
<1>5. /\ map \in [RunIds -> Refs \cup {Nil}]
      /\ \A x \in RunIds : map[x] = IF x = id THEN n ELSE PrunedMap[x]
  BY <1>1, <1>2
<1> HIDE DEF map
<1>6. Live(map) = Live(PrunedMap) \cup {id} /\ id \notin Live(PrunedMap)
  BY <1>1, <1>5, Sizes DEF Live
<1>7. InStep(map, order)
  BY <1>2, <1>5, <1>6 DEF InStep, Live
<1>8. RunsOf(map) = Wanted \cup {n}
  BY <1>2, <1>5, <1>6 DEF RunsOf, Live
<1>9. \A a, b \in Live(map) : map[a] = map[b] => a = b
  <2>1. \A x \in RunIds : PrunedMap[x] # n
    BY <1>1, <1>2, Sizes DEF MapInv, Allocated, TypeOK
  <2> QED
    BY <1>2, <1>5, <2>1 DEF MapInv, OneIdPerRun, Live
<1>10. /\ IsFiniteSet(Live(map)) /\ Cardinality(Live(map)) \in Nat
       /\ Cardinality(Live(map)) <= MaxRuns + 1
  <2>1. /\ IsFiniteSet(Live(PrunedMap))
        /\ Cardinality(Live(PrunedMap)) <= Cardinality(Live(byRun))
        /\ Cardinality(Live(PrunedMap)) \in Nat /\ Cardinality(Live(byRun)) \in Nat
        /\ Cardinality(Live(byRun)) <= MaxRuns
    BY <1>2, FS_Subset, FS_CardinalityType DEF MapInv, Finite, OrderMatchesMap
  <2>2. /\ IsFiniteSet(Live(map))
        /\ Cardinality(Live(map)) = Cardinality(Live(PrunedMap)) + 1
    BY <1>6, <2>1, FS_AddElement
  <2> QED
    BY <2>1, <2>2, Sizes
<1>11. OverCap(map) <=> out \in Wanted
  <2>1. ASSUME out \in Wanted
        PROVE  OverCap(map)
    <3>1. out..n \subseteq Wanted \cup {n}
      <4>1. ASSUME NEW r \in out..(n - 1)
            PROVE  r \in Wanted
        <5>1. r \in 1..(n - 1) /\ out \in 1..(n - 1) /\ out <= r /\ n - r <= MaxRuns
          BY <1>1, <2>1, <4>1, Sizes DEF Wanted
        <5>2. heap[out].createdAt <= heap[r].createdAt
          BY <5>1 DEF MapInv, Ages
        <5>3. ~(heap[out].createdAt < now - Retention)
          BY <2>1 DEF Wanted, Expired
        <5>4. heap[out].createdAt \in Int /\ heap[r].createdAt \in Int /\ now \in Int
          BY <1>1, <5>1 DEF TypeOK, EntropyRun
        <5>5. ~Expired(r)
          BY <1>1, <5>1, <5>2, <5>3, <5>4, Sizes DEF Expired
        <5> QED
          BY <5>1, <5>5 DEF Wanted
      <4>2. \A r \in out..n : r \in out..(n - 1) \/ r = n
        BY <1>1
      <4> QED
        BY <4>1, <4>2
    <3>2. out..n \subseteq RunsOf(map)
      BY <1>8, <3>1
    <3> HIDE DEF out, n
    <3>3. n - out + 1 <= Cardinality(Live(map))
      BY <1>1, <1>10, <3>2, AtLeastTheWindow
    <3>4. n - out = MaxRuns
      BY <1>1, Sizes DEF out
    <3> QED
      BY <1>10, <3>3, <3>4, Sizes DEF OverCap
  <2>2. ASSUME out \notin Wanted
        PROVE  ~OverCap(map)
    <3>1. RunsOf(map) \subseteq (out + 1)..n
      <4>1. ASSUME NEW r \in Wanted
            PROVE  r \in (out + 1)..n
        <5>1. r \in 1..(n - 1) /\ n - r <= MaxRuns /\ r # out
          BY <2>2 DEF Wanted
        <5> QED
          BY <1>1, <5>1, Sizes
      <4>2. n \in (out + 1)..n
        BY <1>1, Sizes
      <4> QED
        BY <1>8, <4>1, <4>2
    <3> HIDE DEF out, n
    <3>2. out + 1 <= n + 1 /\ out + 1 \in Int /\ n \in Int
      BY <1>1, Sizes
    <3>3. Cardinality(Live(map)) <= n - (out + 1) + 1
      BY <1>5, <1>9, <3>1, <3>2, AtMostTheWindow
    <3>4. n - (out + 1) + 1 = MaxRuns
      BY <1>1, Sizes DEF out
    <3> QED
      BY <1>10, <3>3, <3>4, Sizes DEF OverCap
  <2> QED
    BY <2>1, <2>2
<1> HIDE DEF order
<1>12. /\ InStep(byRun', runOrder')
       /\ byRun' \in [RunIds -> Refs \cup {Nil}]
       /\ \A x \in RunIds : byRun'[x] = map[x] \/ byRun'[x] = Nil
       /\ Live(byRun') \in SUBSET Live(map)
       /\ IsFiniteSet(Live(byRun')) /\ Cardinality(Live(byRun')) <= MaxRuns
       /\ RunsOf(byRun') = (Wanted \cup {n}) \ {out}
  <2>1. CASE OverCap(map)
    <3> DEFINE old == First(order)
    <3>1. out \in Wanted
      BY <1>11, <2>1
    <3>2. PICK x \in Live(map) : map[x] = out
      BY <1>8, <3>1 DEF RunsOf
    <3>3. \A e \in order : e.id \in Live(map) /\ e.ref = map[e.id]
      BY <1>7 DEF InStep
    <3>4. [ref |-> out, id |-> x] \in order
      BY <1>7, <3>2 DEF InStep
    <3>5. \A r \in RunsOf(map) : r \in Int /\ out <= r
      BY <1>1, <1>8, Sizes DEF Wanted
    <3>6. \A e \in order : e.ref \in Int /\ out <= e.ref
      BY <3>3, <3>5 DEF RunsOf
    <3>7. old \in order /\ \A e \in order : old.ref <= e.ref
      BY <3>4, <3>6 DEF First
    <3>8. old.ref = out
      <4>1. old.ref <= out /\ old.ref \in Int /\ out <= old.ref
        BY <3>4, <3>6, <3>7
      <4> QED
        BY <1>1, <4>1
    <3>9. old.id = x
      BY <1>9, <3>2, <3>3, <3>7, <3>8
    <3>10. old = [ref |-> out, id |-> x]
      <4>1. PICK y \in Live(map) : old = [ref |-> map[y], id |-> y]
        BY <1>7, <3>7 DEF InStep
      <4>2. y = x
        BY <3>9, <4>1
      <4> QED
        BY <3>2, <4>1, <4>2
    <3>11. byRun' = [map EXCEPT ![x] = Nil] /\ runOrder' = order \ {old}
      BY <1>4, <2>1, <3>9
    <3> HIDE DEF old
    <3>12. /\ byRun' \in [RunIds -> Refs \cup {Nil}]
           /\ \A y \in RunIds : byRun'[y] = IF y = x THEN Nil ELSE map[y]
      BY <1>5, <3>11
    <3>13. Live(byRun') = Live(map) \ {x}
      BY <3>12 DEF Live
    <3>14. InStep(byRun', runOrder')
      <4>1. order \ {old} = {[ref |-> map[y], id |-> y] : y \in Live(map) \ {x}}
        BY <1>7, <3>2, <3>10 DEF InStep
      <4>2. \A y \in Live(map) \ {x} : byRun'[y] = map[y]
        BY <3>12 DEF Live
      <4> QED
        BY <3>11, <3>13, <4>1, <4>2 DEF InStep
    <3>15. RunsOf(byRun') = RunsOf(map) \ {out}
      <4>1. \A y \in Live(map) : map[y] = out <=> y = x
        BY <1>9, <3>2
      <4>2. \A y \in Live(map) \ {x} : byRun'[y] = map[y]
        BY <3>12 DEF Live
      <4> QED
        BY <3>13, <4>1, <4>2 DEF RunsOf
    <3>16. IsFiniteSet(Live(byRun')) /\ Cardinality(Live(byRun')) = Cardinality(Live(map)) - 1
      BY <1>10, <3>2, <3>13, FS_RemoveElement
    <3> QED
      BY <1>8, <1>10, <3>12, <3>13, <3>14, <3>15, <3>16, Sizes
  <2>2. CASE ~OverCap(map)
    <3>1. Cardinality(Live(map)) <= MaxRuns
      BY <1>10, <2>2, Sizes DEF OverCap
    <3>2. out \notin Wanted \cup {n}
      BY <1>1, <1>11, <2>2
    <3>3. byRun' = map /\ runOrder' = order
      BY <1>4, <2>2
    <3>4. (Wanted \cup {n}) \ {out} = Wanted \cup {n}
      BY <3>2
    <3> HIDE DEF out, n
    <3> QED
      BY <1>5, <1>7, <1>8, <1>10, <3>1, <3>3, <3>4
  <2> QED
    BY <2>1, <2>2
<1>13. Finite' /\ OrderMatchesMap'
  BY <1>12 DEF Finite, OrderMatchesMap, InStep, Live
<1>14. Allocated'
  <2>1. \A x \in RunIds : byRun'[x] = n \/ byRun'[x] = byRun[x] \/ byRun'[x] = 0
    BY <1>2, <1>5, <1>12 DEF Nil
  <2>2. \A x \in RunIds : byRun[x] \in Int /\ byRun[x] < n
    <3>1. \A x \in RunIds : byRun[x] < nextRef
      BY DEF MapInv, Allocated
    <3>2. \A x \in RunIds : byRun[x] \in Int
      <4>1. Refs \cup {Nil} \subseteq Int
        BY Sizes DEF Nil
      <4> QED
        BY <4>1 DEF TypeOK
    <3> HIDE DEF n
    <3> QED
      BY <3>1, <3>2 DEF n
  <2> QED
    BY <1>1, <2>1, <2>2 DEF Allocated
<1>15. OneIdPerRun'
  BY <1>5, <1>9, <1>12 DEF OneIdPerRun, Live
<1>16. Ages'
  <2>1. \A r \in 1..n : r \in 1..(n - 1) \/ r = n
    BY <1>1
  <2>2. \A r \in 1..(n - 1) : r # n /\ r \in Refs /\ heap[r].createdAt <= now
    BY <1>1 DEF MapInv, Ages
  <2>3. now \in Int
    BY DEF TypeOK
  <2>4. \A r, o \in 1..n : r <= o => heap'[r].createdAt <= heap'[o].createdAt
    BY <1>1, <1>3, <2>1, <2>2, <2>3 DEF MapInv, Ages
  <2>5. \A r \in 1..n : heap'[r].createdAt <= now
    BY <1>3, <2>1, <2>2, <2>3
  <2>6. nextRef' - 1 = n
    BY <1>1
  <2> HIDE DEF n
  <2> QED
    BY <2>4, <2>5, <2>6 DEF Ages
<1>17. LiveRunsAreNewest'
  <2> DEFINE gone(r) == r = Nil \/ heap'[r].createdAt < now - Retention
  <2>1. \A r : Expired(r)' <=> gone(r)
    BY DEF Expired
  <2>2. \A r \in Refs : r # n => (gone(r) <=> Expired(r))
    BY <1>3 DEF Expired
  <2>3. ~gone(n)
    <3>1. now \in Int /\ Retention \in Int /\ Retention >= 0 /\ n # Nil
      BY <1>1, Sizes DEF TypeOK
    <3>2. ~(now < now - Retention)
      BY <3>1
    <3> HIDE DEF n
    <3> QED
      BY <1>3, <3>1, <3>2
  <2> HIDE DEF gone
  <2>4. \A r : r \in (Wanted \cup {n}) \ {out}
              <=> r \in 1..n /\ ~gone(r) /\ n + 1 - r <= MaxRuns
    <3>1. ASSUME NEW r \in 1..(n - 1)
          PROVE  r \in Wanted /\ r # out <=> ~gone(r) /\ n + 1 - r <= MaxRuns
      <4>1. r \in Refs /\ r # n
        BY <1>1, <3>1
      <4>2. n - r <= MaxRuns /\ r # out <=> n + 1 - r <= MaxRuns
        BY <1>1, <3>1, Sizes
      <4> QED
        BY <2>2, <3>1, <4>1, <4>2 DEF Wanted
    <3>2. n \in 1..n /\ n + 1 - n <= MaxRuns /\ n # out
      BY <1>1, Sizes
    <3>3. \A r : r \in 1..n <=> r \in 1..(n - 1) \/ r = n
      BY <1>1
    <3>4. \A r \in Wanted : r \in 1..(n - 1)
      BY DEF Wanted
    <3>5. ASSUME NEW r
          PROVE  r \in (Wanted \cup {n}) \ {out}
                    <=> r \in 1..n /\ ~gone(r) /\ n + 1 - r <= MaxRuns
      <4> HIDE DEF out, n
      <4>1. CASE r \in 1..(n - 1)
        <5>1. r # n
          BY <1>1, <4>1
        <5> QED
          BY <3>1, <3>3, <4>1, <5>1
      <4>2. CASE r = n
        BY <2>3, <3>2, <4>2
      <4>3. CASE r \notin 1..n
        BY <3>2, <3>3, <3>4, <4>3
      <4> QED
        BY <3>3, <4>1, <4>2, <4>3
    <3> QED
      BY <3>5
  <2>5. \A r \in RunsOf(byRun') : r \in Refs /\ ~gone(r)
    <3>1. \A r \in 1..n : r \in Refs
      BY <1>1, Sizes DEF Refs
    <3> QED
      BY <1>12, <2>4, <3>1
  <2>6. {byRun'[x] : x \in Live(byRun')} \cap {r \in Refs : ~gone(r)} = RunsOf(byRun')
    BY <2>5 DEF RunsOf
  <2>7. RunsOf(byRun') = {r \in 1..n : ~gone(r) /\ n + 1 - r <= MaxRuns}
    <3> HIDE DEF n, out
    <3> QED
      BY <1>12, <2>4
  <2>8. nextRef' - 1 = n /\ nextRef' = n + 1
    BY <1>1
  <2>9. {r \in 1..n : ~gone(r) /\ n + 1 - r <= MaxRuns}
          = {r \in 1..(nextRef' - 1) : ~Expired(r)' /\ nextRef' - r <= MaxRuns}
    <3> HIDE DEF n
    <3> QED
      BY <2>1, <2>8
  <2>10. {r \in Refs : ~gone(r)} = {r \in Refs : ~Expired(r)'}
    BY <2>1
  <2>11. Live(byRun') = Live(byRun)'
    BY DEF Live
  <2>12. {byRun'[x] : x \in Live(byRun)'} \cap {r \in Refs : ~Expired(r)'}
          = {r \in 1..(nextRef' - 1) : ~Expired(r)' /\ nextRef' - r <= MaxRuns}
    BY <2>6, <2>7, <2>9, <2>10, <2>11
  <2> QED
    BY <2>12 DEF LiveRunsAreNewest
<1> QED
  BY <1>13, <1>14, <1>15, <1>16, <1>17 DEF MapInv

\* A step that leaves the store's structures and the runs' ages alone.
LEMMA SameMapInv ==
    ASSUME TypeOK, MapInv, UNCHANGED <<now, nextRef, byRun, runOrder>>,
           \A r \in Refs : heap'[r].createdAt = heap[r].createdAt
    PROVE  MapInv'
<1>1. Live(byRun') = Live(byRun)
  BY DEF Live
<1>2. \A r \in Refs \cup {Nil} : Expired(r)' <=> Expired(r)
  BY DEF Expired
<1>3. 1..(nextRef - 1) \subseteq Refs
  BY Sizes DEF TypeOK, Refs
<1>4. Finite' /\ OrderMatchesMap' /\ Allocated' /\ OneIdPerRun'
  BY <1>1 DEF MapInv, Finite, OrderMatchesMap, Allocated, OneIdPerRun, Live
<1>5. Ages'
  BY <1>3 DEF MapInv, Ages
<1>6. LiveRunsAreNewest'
  <2>1. {r \in Refs : ~Expired(r)'} = {r \in Refs : ~Expired(r)}
    BY <1>2
  <2>2. {r \in 1..(nextRef - 1) : ~Expired(r)' /\ nextRef - r <= MaxRuns}
          = {r \in 1..(nextRef - 1) : ~Expired(r) /\ nextRef - r <= MaxRuns}
    BY <1>2, <1>3
  <2> QED
    BY <1>1, <2>1, <2>2 DEF MapInv, LiveRunsAreNewest, Live
<1> QED
  BY <1>4, <1>5, <1>6 DEF MapInv

LEMMA TickMapInv ==
    ASSUME TypeOK, MapInv, Tick
    PROVE  MapInv'
<1>1. /\ now' = now + 1 /\ now \in Nat
      /\ UNCHANGED <<nextRef, heap, byRun, runOrder>>
  BY Sizes DEF Tick, storeVars, TypeOK
<1>2. 1..(nextRef - 1) \subseteq Refs
  BY Sizes DEF TypeOK, Refs
<1>3. \A r \in Refs : heap[r].createdAt \in Nat
  BY Sizes DEF TypeOK, EntropyRun
<1>4. \A r \in Refs : Expired(r) => Expired(r)'
  <2>1. \A r \in Refs : heap[r].createdAt < now - Retention => heap[r].createdAt < now + 1 - Retention
    BY <1>1, <1>3, Sizes
  <2>2. \A r \in Refs : r # Nil
    BY Sizes
  <2>3. \A r \in Refs : Expired(r)' <=> heap[r].createdAt < now + 1 - Retention
    <3>1. heap' = heap /\ now' = now + 1
      BY <1>1
    <3>2. \A r : Expired(r)' <=> r = Nil \/ heap'[r].createdAt < now' - Retention
      BY DEF Expired
    <3>3. \A r \in Refs : heap'[r].createdAt < now' - Retention
                             <=> heap[r].createdAt < now + 1 - Retention
      BY <1>1, <1>3, <3>1, Sizes
    <3> QED
      BY <2>2, <3>2, <3>3
  <2>4. \A r \in Refs : Expired(r) => heap[r].createdAt < now - Retention
    BY <2>2 DEF Expired
  <2> QED
    BY <2>1, <2>3, <2>4
<1>5. Finite' /\ OrderMatchesMap' /\ Allocated' /\ OneIdPerRun'
  BY <1>1 DEF MapInv, Finite, OrderMatchesMap, Allocated, OneIdPerRun, Live
<1>6. Ages'
  <2>1. \A r \in 1..(nextRef - 1) : heap[r].createdAt <= now + 1
    BY <1>1, <1>2, <1>3 DEF MapInv, Ages
  <2> QED
    BY <1>1, <2>1 DEF MapInv, Ages
<1>7. LiveRunsAreNewest'
  <2> DEFINE L == {byRun[id] : id \in Live(byRun)}
             E == {r \in Refs : ~Expired(r)}
             F == {r \in Refs : ~Expired(r)'}
             W == {r \in 1..(nextRef - 1) : ~Expired(r) /\ nextRef - r <= MaxRuns}
             X == {r \in 1..(nextRef - 1) : ~Expired(r)' /\ nextRef - r <= MaxRuns}
  <2>1. L \cap E = W
    BY DEF MapInv, LiveRunsAreNewest
  <2>2. F = E \cap F /\ X = W \cap F
    BY <1>2, <1>4
  <2>3. L \cap F = X
    <3> HIDE DEF L, E, F, W, X
    <3> QED
      BY <2>1, <2>2
  <2>4. LiveRunsAreNewest' <=> L \cap F = X
    BY <1>1 DEF LiveRunsAreNewest, Live
  <2> QED
    BY <2>3, <2>4
<1> QED
  BY <1>5, <1>6, <1>7 DEF MapInv

\* Filling a run's cache changes nothing else.
LEMMA ResultFills ==
    ASSUME TypeOK, NEW p \in Pollers, GetResult(p), NEW r \in Refs
    PROVE  /\ heap'[r].createdAt = heap[r].createdAt /\ heap'[r].samples = heap[r].samples
           /\ \/ heap'[r].result = heap[r].result
              \/ /\ r = byRun[ask[p].id] /\ Ready(r, ask[p].n)
                 /\ heap'[r].result = Compute(r, ask[p].n)
<1> DEFINE ref == byRun[ask[p].id]
           n == ask[p].n
           res == Compute(ref, n)
<1>1. n \in MinN..MaxN /\ ref \in Refs \cup {Nil}
  BY DEF TypeOK
<1>2. \/ heap' = heap
      \/ Ready(ref, n) /\ heap' = [heap EXCEPT ![ref].result = res]
  BY DEF GetResult
<1> HIDE DEF ref, n
<1>3. CASE Ready(ref, n) /\ heap' = [heap EXCEPT ![ref].result = res]
  <2>1. ref \in Refs /\ res \in Result /\ heap[ref] \in EntropyRun
    BY <1>1, <1>3, ComputeType DEF Ready, TypeOK
  <2>2. res = Compute(ref, n)
    OBVIOUS
  <2> HIDE DEF res
  <2>3. heap' = [heap EXCEPT ![ref] = [heap[ref] EXCEPT !.result = res]]
    BY <1>3
  <2>4. heap'[r] = IF r = ref THEN [heap[ref] EXCEPT !.result = res] ELSE heap[r]
    BY <2>1, <2>3 DEF TypeOK
  <2>5. CASE r = ref
    BY <1>3, <2>1, <2>2, <2>4, <2>5, WithResult DEF ref, n
  <2>6. CASE r # ref
    BY <2>4, <2>6
  <2> QED
    BY <2>5, <2>6
<1> QED
  BY <1>2, <1>3

LEMMA StepMapInv == TypeOK /\ MapInv /\ [Next]_vars => MapInv'
<1> SUFFICES ASSUME TypeOK, MapInv, [Next]_vars
             PROVE  MapInv'
  OBVIOUS
<1>1. ASSUME NEW id \in RunIds, NEW s \in Samples, Record(id, s)
      PROVE  MapInv'
  BY <1>1, KnownMapInv, NewMapInv DEF Record
<1>2. ASSUME NEW p \in Pollers, NEW id \in RunIds, NEW q \in (MinN - 1)..(MaxN + 1), LookUp(p, id, q)
      PROVE  MapInv'
  BY <1>2, SameMapInv DEF LookUp, storeVars
<1>3. ASSUME NEW p \in Pollers, CountSamples(p)
      PROVE  MapInv'
  BY <1>3, SameMapInv DEF CountSamples, storeVars
<1>4. ASSUME NEW p \in Pollers, GetResult(p)
      PROVE  MapInv'
  <2>1. UNCHANGED <<now, nextRef, byRun, runOrder>>
    BY <1>4 DEF GetResult
  <2> QED
    BY <1>4, <2>1, ResultFills, SameMapInv
<1>5. CASE UNCHANGED vars
  BY <1>5, SameMapInv DEF vars
<1> QED
  BY <1>1, <1>2, <1>3, <1>4, <1>5, TickMapInv DEF Next

LEMMA MapInvariant == Spec => [](TypeOK /\ MapInv)
BY InitTypeOK, InitMapInv, StepTypeOK, StepMapInv, PTL DEF Spec

\* The map and the order never drift apart (Record with pruneLocked and the eviction of
\* the head of runOrder).
THEOREM StoreConsistent == Spec => []StoreOK
BY MapInvariant, PTL DEF StoreOK, MapInv

\* Pruning and eviction leave exactly the unexpired among the last maxRuns runs.
THEOREM KeepsTheNewest == Spec => []LiveRunsAreNewest
BY MapInvariant, PTL DEF MapInv

-----------------------------------------------------------------------------
(***************************************************************************)
(* Results.  Samples are only ever added, so the first n of a run are the  *)
(* same whenever they are looked at; a cached result is that of the n it   *)
(* was filled for.  A poller keeps the reference it read: from then on no  *)
(* other id, and no new run, gets that reference.                          *)
(***************************************************************************)
GrowsTo(list, longer) ==
    /\ Len(list) <= Len(longer)
    /\ \A i \in 1..Len(list) : longer[i] = list[i]
Fills(res, list) == Len(list) >= res.n /\ res.of = SubSeq(list, 1, res.n)
Unallocated == \A r \in Refs : r >= nextRef => heap[r].samples = <<>> /\ heap[r].result = NoResult
CachesHonest == \A r \in Refs : heap[r].result # NoResult => Fills(heap[r].result, heap[r].samples)
ResultInv == Unallocated /\ CachesHonest /\ RepliesAnswerTheirQuestion

\* A result stays the result of a run that goes on growing.
LEMMA FillsGrown ==
    ASSUME NEW list \in Seq(Samples), NEW longer \in Seq(Samples), GrowsTo(list, longer),
           NEW res, res.n \in Nat, Fills(res, list)
    PROVE  Fills(res, longer)
<1> DEFINE n == res.n
           a == SubSeq(list, 1, n)
           b == SubSeq(longer, 1, n)
<1>1. Len(list) \in Nat /\ Len(longer) \in Nat /\ n \in Nat /\ n <= Len(list) /\ Len(list) <= Len(longer)
  BY LenProperties DEF Fills, GrowsTo
<1>2. /\ \A i \in 1..n : list[i] \in Samples
      /\ \A i \in 1..n : longer[i] \in Samples
      /\ \A i \in 1..n : longer[i] = list[i]
  BY <1>1, ElementOfSeq DEF GrowsTo
<1> HIDE DEF n
<1>3. /\ a \in Seq(Samples) /\ Len(a) = (IF 1 <= n THEN n - 1 + 1 ELSE 0)
      /\ \A i \in 1..(n - 1 + 1) : a[i] = list[1 + i - 1]
  BY <1>1, <1>2, SubSeqProperties
<1>4. /\ b \in Seq(Samples) /\ Len(b) = (IF 1 <= n THEN n - 1 + 1 ELSE 0)
      /\ \A i \in 1..(n - 1 + 1) : b[i] = longer[1 + i - 1]
  BY <1>1, <1>2, SubSeqProperties
<1> HIDE DEF a, b
<1>5. Len(a) = n /\ Len(b) = n
  BY <1>1, <1>3, <1>4
<1>6. \A i \in 1..n : a[i] = b[i]
  <2>1. \A i \in 1..n : i \in 1..(n - 1 + 1) /\ 1 + i - 1 = i
    BY <1>1
  <2>2. ASSUME NEW i \in 1..n
        PROVE  a[i] = b[i]
    <3>1. a[i] = list[i] /\ b[i] = longer[i]
      BY <1>3, <1>4, <2>1
    <3> QED
      BY <1>2, <3>1
  <2> QED
    BY <2>2
<1>7. a = b
  BY <1>3, <1>4, <1>5, <1>6, SeqEqual
<1> QED
  BY <1>1, <1>7 DEF Fills, a, b, n

\* What one Record does to the runs: one sample is added to one of them, and the result
\* of no run changes but that of a new one, which has none.
LEMMA RecordAdds ==
    ASSUME TypeOK, MapInv, Unallocated, NEW id \in RunIds, NEW s \in Samples, Record(id, s), NEW r \in Refs
    PROVE  /\ GrowsTo(heap[r].samples, heap'[r].samples)
           /\ heap'[r].result = heap[r].result
           /\ r >= nextRef' => heap'[r].samples = <<>>
<1>1. heap[r].samples \in Seq(Samples) /\ Len(heap[r].samples) \in Nat
  BY LenProperties DEF TypeOK, EntropyRun
<1>2. GrowsTo(heap[r].samples, heap[r].samples)
  BY <1>1 DEF GrowsTo
<1>3. nextRef \in Nat
  BY Sizes DEF TypeOK
<1>4. CASE RecordKnown(id, s)
  <2> DEFINE ref == PrunedMap[id]
             list == Append(heap[ref].samples, s)
  <2>1. ref \in Refs /\ heap' = [heap EXCEPT ![ref].samples = list] /\ nextRef' = nextRef
    BY <1>4, PrunedType DEF RecordKnown, AppendSample
  <2>2. heap[ref].samples \in Seq(Samples) /\ heap[ref] \in EntropyRun
    BY <2>1 DEF TypeOK, EntropyRun
  <2>3. list \in Seq(Samples) /\ GrowsTo(heap[ref].samples, list)
    <3>1. /\ list \in Seq(Samples) /\ Len(list) = Len(heap[ref].samples) + 1
          /\ \A i \in 1..Len(heap[ref].samples) : list[i] = heap[ref].samples[i]
      BY <2>2, AppendProperties
    <3>2. Len(heap[ref].samples) \in Nat
      BY <2>2, LenProperties
    <3> QED
      BY <3>1, <3>2 DEF GrowsTo
  <2> HIDE DEF list
  <2>4. heap'[r] = IF r = ref THEN [heap[ref] EXCEPT !.samples = list] ELSE heap[r]
    BY <2>1 DEF TypeOK
  <2>5. CASE r = ref
    <3>1. heap'[r].samples = list /\ heap'[r].result = heap[r].result
      BY <2>2, <2>3, <2>4, <2>5, WithSamples
    <3>2. ref < nextRef
      <4>1. ref = byRun[id]
        BY <2>1, Sizes DEF PrunedMap
      <4> QED
        BY <4>1 DEF MapInv, Allocated
    <3> QED
      BY <1>3, <2>1, <2>3, <2>5, <3>1, <3>2, Sizes
  <2>6. CASE r # ref
    BY <1>2, <2>1, <2>4, <2>6 DEF Unallocated
  <2> QED
    BY <2>5, <2>6
<1>5. CASE RecordNew(id, s)
  <2>1. nextRef \in Refs /\ nextRef' = nextRef + 1
    BY <1>5 DEF RecordNew
  <2>2. heap'[r] = IF r = nextRef THEN [NewRun EXCEPT !.samples = <<s>>] ELSE heap[r]
    BY <1>5, <2>1 DEF RecordNew, TypeOK
  <2>3. CASE r = nextRef
    <3>1. <<s>> \in Seq(Samples)
      OBVIOUS
    <3>2. heap'[r].samples = <<s>> /\ heap'[r].result = NoResult
      <4>1. [NewRun EXCEPT !.samples = <<s>>].result = NewRun.result /\ NewRun.result = NoResult
        BY <3>1, NewRunType, WithSamples DEF NewRun
      <4>2. [NewRun EXCEPT !.samples = <<s>>].samples = <<s>>
        BY <3>1, NewRunType, WithSamples
      <4> QED
        BY <2>2, <2>3, <4>1, <4>2
    <3>3. heap[r].samples = <<>> /\ heap[r].result = NoResult
      BY <1>3, <2>3 DEF Unallocated
    <3>4. GrowsTo(<<>>, <<s>>)
      BY DEF GrowsTo
    <3> QED
      BY <1>3, <2>1, <2>3, <3>2, <3>3, <3>4
  <2>4. CASE r # nextRef
    BY <1>2, <1>3, <2>1, <2>2, <2>4, Sizes DEF Unallocated
  <2> QED
    BY <2>3, <2>4
<1> QED
  BY <1>4, <1>5 DEF Record

LEMMA InitResultInv == Init => ResultInv
BY DEF Init, NewRun, ResultInv, Unallocated, CachesHonest, RepliesAnswerTheirQuestion

\* The replies' part, where the runs only grow.
LEMMA RepliesStayHonest ==
    ASSUME TypeOK, RepliesAnswerTheirQuestion, heap' \in [Refs -> EntropyRun],
           \A r \in Refs : GrowsTo(heap[r].samples, heap'[r].samples),
           NEW p \in Pollers, reply'[p] = reply[p], reply[p].result # NoResult
    PROVE  /\ reply'[p].result.n = reply'[p].n
           /\ \E r \in Refs : /\ Len(heap'[r].samples) >= reply'[p].n
                              /\ reply'[p].result.of = SubSeq(heap'[r].samples, 1, reply'[p].n)
<1> DEFINE res == reply[p].result
<1>1. res.n = reply[p].n /\ res.n \in Nat
  BY Sizes DEF RepliesAnswerTheirQuestion, TypeOK
<1>2. PICK r \in Refs : Fills(res, heap[r].samples)
  BY <1>1 DEF RepliesAnswerTheirQuestion, Fills
<1> HIDE DEF res
<1>3. heap[r].samples \in Seq(Samples) /\ heap'[r].samples \in Seq(Samples)
  BY DEF TypeOK, EntropyRun
<1>4. Fills(res, heap'[r].samples)
  BY <1>1, <1>2, <1>3, FillsGrown
<1> QED
  BY <1>1, <1>4 DEF Fills, res

LEMMA RecordResultInv ==
    ASSUME TypeOK, MapInv, ResultInv, NEW id \in RunIds, NEW s \in Samples, Record(id, s)
    PROVE  ResultInv'
<1>1. \A r \in Refs : /\ GrowsTo(heap[r].samples, heap'[r].samples)
                      /\ heap'[r].result = heap[r].result
                      /\ r >= nextRef' => heap'[r].samples = <<>>
  BY RecordAdds DEF ResultInv
<1>2. heap' \in [Refs -> EntropyRun] /\ reply' = reply
  BY RecordType DEF Record, pollVars, TypeOK
<1>3. Unallocated'
  <2>1. nextRef' \in Nat /\ nextRef \in Nat /\ nextRef' >= nextRef
    BY Sizes DEF Record, RecordKnown, RecordNew, TypeOK
  <2>2. \A r \in Refs : r >= nextRef' => r >= nextRef
    BY <2>1, Sizes
  <2> QED
    BY <1>1, <2>2 DEF ResultInv, Unallocated
<1>4. CachesHonest'
  <2>1. ASSUME NEW r \in Refs, heap'[r].result # NoResult
        PROVE  Fills(heap'[r].result, heap'[r].samples)
    <3> DEFINE res == heap[r].result
    <3>1. /\ res = heap'[r].result /\ Fills(res, heap[r].samples)
      BY <1>1, <2>1 DEF ResultInv, CachesHonest
    <3>2. res.n \in Nat
      BY Sizes DEF TypeOK, EntropyRun, Result
    <3>3. heap[r].samples \in Seq(Samples) /\ heap'[r].samples \in Seq(Samples)
      BY <1>2 DEF TypeOK, EntropyRun
    <3> HIDE DEF res
    <3> QED
      BY <1>1, <3>1, <3>2, <3>3, FillsGrown
  <2> QED
    BY <2>1 DEF CachesHonest
<1>5. RepliesAnswerTheirQuestion'
  BY <1>1, <1>2, RepliesStayHonest DEF ResultInv, RepliesAnswerTheirQuestion
<1> QED
  BY <1>3, <1>4, <1>5 DEF ResultInv

\* A result just computed is that of the run it is stored in.
LEMMA ComputeFills ==
    ASSUME TypeOK, NEW r \in Refs, NEW n \in MinN..MaxN, Ready(r, n)
    PROVE  /\ Fills(Compute(r, n), heap[r].samples) /\ Compute(r, n).n = n
           /\ Compute(r, n) # NoResult
<1>1. Compute(r, n).n = n /\ Compute(r, n).of = SubSeq(heap[r].samples, 1, n)
  BY DEF Compute
<1>2. NoResult.n = 0 /\ n # 0
  BY Sizes DEF NoResult
<1> QED
  BY <1>1, <1>2 DEF Fills, Ready

LEMMA GetResultInv ==
    ASSUME TypeOK, ResultInv, NEW p \in Pollers, GetResult(p)
    PROVE  ResultInv'
<1> DEFINE ref == byRun[ask[p].id]
           n == ask[p].n
<1>1. n \in MinN..MaxN /\ ref \in Refs \cup {Nil} /\ nextRef' = nextRef
  BY DEF TypeOK, GetResult
<1>2. \A r \in Refs : /\ heap'[r].samples = heap[r].samples
                      /\ \/ heap'[r].result = heap[r].result
                         \/ r = ref /\ Ready(r, n) /\ heap'[r].result = Compute(r, n)
  BY ResultFills
<1>3. heap' \in [Refs -> EntropyRun]
  BY ResultType DEF TypeOK
<1>4. Unallocated'
  <2>1. ASSUME NEW r \in Refs, r >= nextRef
        PROVE  ~Ready(r, n)
    <3>1. heap[r].samples = <<>>
      BY <2>1 DEF ResultInv, Unallocated
    <3>2. Len(heap[r].samples) = 0
      BY <3>1
    <3>3. n \in Nat \ {0}
      BY <1>1, Sizes
    <3> HIDE DEF n
    <3> QED
      BY <3>2, <3>3 DEF Ready
  <2> HIDE DEF n, ref
  <2> QED
    BY <1>1, <1>2, <2>1 DEF ResultInv, Unallocated
<1>5. CachesHonest'
  <2> HIDE DEF n, ref
  <2>1. ASSUME NEW r \in Refs, heap'[r].result # NoResult
        PROVE  Fills(heap'[r].result, heap'[r].samples)
    BY <1>1, <1>2, <2>1, ComputeFills DEF ResultInv, CachesHonest
  <2> QED
    BY <2>1 DEF CachesHonest
<1>6. ASSUME NEW x \in Pollers, reply'[x].result # NoResult
      PROVE  /\ reply'[x].result.n = reply'[x].n
             /\ \E r \in Refs : /\ Len(heap'[r].samples) >= reply'[x].n
                                /\ reply'[x].result.of = SubSeq(heap'[r].samples, 1, reply'[x].n)
  <2>1. CASE x = p
    <3>1. \/ reply'[p] = [count |-> count[p], n |-> n, result |-> NoResult]
          \/ /\ Ready(ref, n) /\ Cached(ref, n)
             /\ reply'[p] = [count |-> count[p], n |-> n, result |-> heap[ref].result]
          \/ /\ Ready(ref, n)
             /\ reply'[p] = [count |-> count[p], n |-> n, result |-> Compute(ref, n)]
      BY DEF GetResult, Answer, TypeOK
    <3> HIDE DEF n, ref
    <3>2. /\ Ready(ref, n) /\ reply'[p].n = n
          /\ reply'[p].result.n = n
          /\ Fills(reply'[p].result, heap[ref].samples)
      <4>1. CASE /\ Ready(ref, n) /\ Cached(ref, n)
                 /\ reply'[p] = [count |-> count[p], n |-> n, result |-> heap[ref].result]
        <5>1. reply'[p].n = n /\ reply'[p].result = heap[ref].result
          BY <4>1
        <5>2. ref \in Refs /\ heap[ref].result # NoResult /\ heap[ref].result.n = n
          BY <1>1, <4>1 DEF Ready, Cached
        <5> QED
          BY <4>1, <5>1, <5>2 DEF ResultInv, CachesHonest
      <4>2. CASE /\ Ready(ref, n)
                 /\ reply'[p] = [count |-> count[p], n |-> n, result |-> Compute(ref, n)]
        <5>1. reply'[p].n = n /\ reply'[p].result = Compute(ref, n)
          BY <4>2
        <5>2. ref \in Refs
          BY <1>1, <4>2 DEF Ready
        <5> QED
          BY <1>1, <4>2, <5>1, <5>2, ComputeFills
      <4> QED
        BY <1>6, <2>1, <3>1, <4>1, <4>2
    <3>3. ref \in Refs
      BY <1>1, <3>2 DEF Ready
    <3> QED
      BY <1>2, <2>1, <3>2, <3>3 DEF Fills
  <2>2. CASE x # p
    <3>1. reply'[x] = reply[x]
      BY <2>2 DEF GetResult, Answer, TypeOK
    <3>2. \A r \in Refs : GrowsTo(heap[r].samples, heap'[r].samples)
      <4>1. \A r \in Refs : Len(heap[r].samples) \in Nat
        BY LenProperties DEF TypeOK, EntropyRun
      <4> QED
        BY <1>2, <4>1 DEF GrowsTo
    <3> QED
      BY <1>3, <1>6, <3>1, <3>2, RepliesStayHonest DEF ResultInv
  <2> QED
    BY <2>1, <2>2
<1> QED
  BY <1>4, <1>5, <1>6 DEF ResultInv, RepliesAnswerTheirQuestion

LEMMA StepResultInv == TypeOK /\ MapInv /\ ResultInv /\ [Next]_vars => ResultInv'
<1> SUFFICES ASSUME TypeOK, MapInv, ResultInv, [Next]_vars
             PROVE  ResultInv'
  OBVIOUS
<1>1. ASSUME UNCHANGED <<nextRef, heap>>,
             \A p \in Pollers : reply'[p] = reply[p] \/ reply'[p].result = NoResult
      PROVE  ResultInv'
  BY <1>1 DEF ResultInv, Unallocated, CachesHonest, RepliesAnswerTheirQuestion
<1>2. ASSUME NEW p \in Pollers, NEW id \in RunIds, NEW q \in (MinN - 1)..(MaxN + 1), LookUp(p, id, q)
      PROVE  ResultInv'
  <2>1. \A x \in Pollers : reply'[x] = reply[x] \/ reply'[x].result = NoResult
    BY <1>2 DEF LookUp, TypeOK
  <2> QED
    BY <1>1, <1>2, <2>1 DEF LookUp, storeVars
<1>3. ASSUME NEW p \in Pollers, CountSamples(p)
      PROVE  ResultInv'
  <2>1. \A x \in Pollers : reply'[x] = reply[x] \/ reply'[x].result = NoResult
    BY <1>3 DEF CountSamples, Answer, TypeOK
  <2> QED
    BY <1>1, <1>3, <2>1 DEF CountSamples, storeVars
<1>4. CASE Tick
  BY <1>1, <1>4 DEF Tick, storeVars, pollVars
<1>5. CASE UNCHANGED vars
  BY <1>1, <1>5 DEF vars
<1> QED
  BY <1>2, <1>3, <1>4, <1>5, RecordResultInv, GetResultInv DEF Next

-----------------------------------------------------------------------------
(***************************************************************************)
(* A poller that was told enough samples and no result.                    *)
(***************************************************************************)
RunsAllocated == \A p \in Pollers : run[p] < nextRef
CountedEnough == \A p \in Pollers : pc[p] = "result" =>
                    count[p] >= ask[p].n /\ Len(heap[run[p]].samples) >= count[p]
NoResultMeansEvicted == \A p \in Pollers :
    pc[p] = "idle" /\ reply[p].count >= reply[p].n /\ reply[p].result = NoResult
        => run[p] # Nil /\ byRun[ask[p].id] # run[p]
PollInv == RunsAllocated /\ CountedEnough /\ NoResultMeansEvicted

LEMMA InitPollInv == Init => PollInv
<1> SUFFICES ASSUME Init PROVE PollInv
  OBVIOUS
<1>1. RunsAllocated /\ CountedEnough
  BY DEF Init, RunsAllocated, CountedEnough, Nil
<1>2. \A p \in Pollers : reply[p].count = 0 /\ reply[p].n = MinN
  BY DEF Init
<1>3. NoResultMeansEvicted
  BY <1>2, Sizes DEF NoResultMeansEvicted
<1> QED
  BY <1>1, <1>3 DEF PollInv

\* Whatever Record evicts or replaces, an id is never given a run that was there before.
LEMMA RecordReplaces ==
    ASSUME NEW id \in RunIds, NEW s \in Samples, Record(id, s), TypeOK, NEW x \in RunIds
    PROVE  byRun'[x] \in {byRun[x], Nil, nextRef}
<1>1. CASE RecordKnown(id, s)
  BY <1>1 DEF RecordKnown, PrunedMap
<1>2. CASE RecordNew(id, s)
  <2> DEFINE map == [PrunedMap EXCEPT ![id] = nextRef]
             old == First(PrunedOrder \cup {[ref |-> nextRef, id |-> id]})
  <2>1. map[x] \in {byRun[x], Nil, nextRef} /\ DOMAIN map = RunIds
    BY DEF PrunedMap
  <2>2. byRun' = [map EXCEPT ![old.id] = Nil] \/ byRun' = map
    BY <1>2 DEF RecordNew
  <2> HIDE DEF map, old
  <2> QED
    BY <2>1, <2>2
<1> QED
  BY <1>1, <1>2 DEF Record

LEMMA RecordPollInv ==
    ASSUME TypeOK, MapInv, Unallocated, PollInv, NEW id \in RunIds, NEW s \in Samples, Record(id, s)
    PROVE  PollInv'
<1>1. UNCHANGED <<pc, ask, run, count, reply>>
  BY DEF Record, pollVars
<1>2. nextRef \in Nat /\ nextRef' \in Nat /\ nextRef <= nextRef'
  BY Sizes DEF Record, RecordKnown, RecordNew, TypeOK
<1>3. \A p \in Pollers : run[p] \in Nat /\ run[p] < nextRef
  <2>1. Refs \cup {Nil} \subseteq Nat
    BY Sizes DEF Nil
  <2> QED
    BY <2>1 DEF PollInv, RunsAllocated, TypeOK
<1>4. RunsAllocated'
  BY <1>1, <1>2, <1>3 DEF RunsAllocated
<1>5. CountedEnough'
  <2>1. ASSUME NEW p \in Pollers, pc[p] = "result"
        PROVE  Len(heap'[run[p]].samples) >= count[p]
    <3>1. run[p] \in Refs
      BY <2>1 DEF TypeOK
    <3>2. Len(heap[run[p]].samples) <= Len(heap'[run[p]].samples)
      BY <3>1, RecordAdds DEF GrowsTo
    <3>3. heap' \in [Refs -> EntropyRun]
      BY RecordType DEF TypeOK
    <3>4. Len(heap[run[p]].samples) \in Nat /\ Len(heap'[run[p]].samples) \in Nat /\ count[p] \in Nat
      BY <3>1, <3>3, LenProperties DEF TypeOK, EntropyRun
    <3>5. Len(heap[run[p]].samples) >= count[p]
      BY <2>1 DEF PollInv, CountedEnough
    <3> QED
      BY <3>2, <3>4, <3>5
  <2> QED
    BY <1>1, <2>1 DEF PollInv, CountedEnough
<1>6. NoResultMeansEvicted'
  <2>1. ASSUME NEW p \in Pollers, run[p] # Nil, byRun[ask[p].id] # run[p]
        PROVE  byRun'[ask[p].id] # run[p]
    <3>1. ask[p].id \in RunIds
      BY DEF TypeOK
    <3>2. byRun'[ask[p].id] \in {byRun[ask[p].id], Nil, nextRef}
      BY <3>1, RecordReplaces
    <3>3. run[p] # nextRef
      BY <1>2, <1>3
    <3> QED
      BY <2>1, <3>2, <3>3
  <2> QED
    BY <1>1, <2>1 DEF PollInv, NoResultMeansEvicted
<1> QED
  BY <1>4, <1>5, <1>6 DEF PollInv

LEMMA LookUpPollInv ==
    ASSUME TypeOK, MapInv, PollInv, NEW p \in Pollers, NEW id \in RunIds,
           NEW q \in (MinN - 1)..(MaxN + 1), LookUp(p, id, q)
    PROVE  PollInv'
<1> DEFINE n == Clamped(Requested(q))
<1>1. n \in Nat \ {0}
  BY Sizes, ClampedType
<1> HIDE DEF n
<1>2. /\ ask' = [ask EXCEPT ![p] = [id |-> id, n |-> n]]
      /\ run' = [run EXCEPT ![p] = byRun[id]]
      /\ \/ /\ byRun[id] = Nil
            /\ reply' = [reply EXCEPT ![p] = [count |-> 0, n |-> n, result |-> NoResult]]
            /\ pc' = pc
         \/ byRun[id] # Nil /\ pc' = [pc EXCEPT ![p] = "count"] /\ reply' = reply
      /\ pc[p] = "idle"
      /\ UNCHANGED <<now, nextRef, heap, byRun, runOrder, count>>
  BY DEF LookUp, storeVars, n
<1>3. \A x \in Pollers : x # p => UNCHANGED <<ask[x], run[x], reply[x], pc[x]>>
  BY <1>2 DEF TypeOK
<1>4. /\ run'[p] = byRun[id] /\ pc'[p] # "result"
      /\ pc'[p] = "idle" => reply'[p].count = 0 /\ reply'[p].n = n
  BY <1>2 DEF TypeOK
<1>5. RunsAllocated'
  BY <1>2, <1>3, <1>4 DEF MapInv, Allocated, PollInv, RunsAllocated
<1>6. CountedEnough'
  BY <1>2, <1>3, <1>4 DEF PollInv, CountedEnough
<1>7. NoResultMeansEvicted'
  BY <1>1, <1>2, <1>3, <1>4 DEF PollInv, NoResultMeansEvicted
<1> QED
  BY <1>5, <1>6, <1>7 DEF PollInv

LEMMA CountPollInv ==
    ASSUME TypeOK, PollInv, NEW p \in Pollers, CountSamples(p)
    PROVE  PollInv'
<1> DEFINE n == Len(heap[run[p]].samples)
<1>1. n \in Nat /\ ask[p].n \in Nat
  <2>1. run[p] \in Refs
    BY DEF CountSamples, TypeOK
  <2>2. n \in Nat
    BY <2>1, LenProperties DEF TypeOK, EntropyRun
  <2>3. ask[p].n \in Nat
    BY Sizes DEF TypeOK
  <2> QED
    BY <2>2, <2>3
<1>2. /\ count' = [count EXCEPT ![p] = n]
      /\ \/ /\ n < ask[p].n
            /\ pc' = [pc EXCEPT ![p] = "idle"]
            /\ reply' = [reply EXCEPT ![p] = [count |-> n, n |-> ask[p].n, result |-> NoResult]]
         \/ ~(n < ask[p].n) /\ pc' = [pc EXCEPT ![p] = "result"] /\ reply' = reply
      /\ UNCHANGED <<nextRef, heap, byRun, ask, run>>
  BY DEF CountSamples, Answer, storeVars
<1>3. \A x \in Pollers : x # p => UNCHANGED <<count[x], reply[x], pc[x]>>
  BY <1>2 DEF TypeOK
<1>4. /\ count'[p] = n
      /\ pc'[p] = "result" => n >= ask[p].n
      /\ pc'[p] = "idle" => reply'[p].count < reply'[p].n /\ reply'[p].count \in Nat /\ reply'[p].n \in Nat
  BY <1>1, <1>2 DEF TypeOK
<1>5. n >= n
  BY <1>1
<1>6. n = Len(heap[run[p]].samples)
  OBVIOUS
<1> HIDE DEF n
<1>7. RunsAllocated'
  BY <1>2 DEF PollInv, RunsAllocated
<1>8. CountedEnough'
  BY <1>2, <1>3, <1>4, <1>5, <1>6 DEF PollInv, CountedEnough
<1>9. NoResultMeansEvicted'
  <2>1. pc'[p] = "idle" => ~(reply'[p].count >= reply'[p].n)
    BY <1>4
  <2> QED
    BY <1>2, <1>3, <2>1 DEF PollInv, NoResultMeansEvicted
<1> QED
  BY <1>7, <1>8, <1>9 DEF PollInv

LEMMA GetPollInv ==
    ASSUME TypeOK, PollInv, NEW p \in Pollers, GetResult(p)
    PROVE  PollInv'
<1> DEFINE ref == byRun[ask[p].id]
           n == ask[p].n
<1>1. n \in MinN..MaxN /\ n \in Nat /\ ref \in Refs \cup {Nil} /\ run[p] \in Refs
  BY Sizes DEF TypeOK, GetResult
<1>2. /\ pc[p] = "result" /\ pc' = [pc EXCEPT ![p] = "idle"]
      /\ \E res : reply' = [reply EXCEPT ![p] = [count |-> count[p], n |-> n, result |-> res]]
      /\ UNCHANGED <<nextRef, byRun, ask, run, count>>
  BY DEF GetResult, Answer
<1>3. \A x \in Pollers : /\ pc'[x] = IF x = p THEN "idle" ELSE pc[x]
                         /\ x # p => reply'[x] = reply[x]
  BY <1>2 DEF TypeOK
<1>4. RunsAllocated'
  BY <1>2 DEF PollInv, RunsAllocated
<1>5. CountedEnough'
  <2>1. ASSUME NEW x \in Pollers, pc'[x] = "result"
        PROVE  count'[x] >= ask'[x].n /\ Len(heap'[run'[x]].samples) >= count'[x]
    <3>1. pc[x] = "result" /\ run[x] \in Refs
      BY <1>3, <2>1 DEF TypeOK
    <3>2. heap'[run[x]].samples = heap[run[x]].samples
      BY <3>1, ResultFills
    <3> QED
      BY <1>2, <3>1, <3>2 DEF PollInv, CountedEnough
  <2> QED
    BY <2>1 DEF CountedEnough
<1>6. reply'[p].result = NoResult => ref # run[p]
  <2>1. \/ ~Ready(ref, n)
        \/ /\ Ready(ref, n) /\ Cached(ref, n) /\ reply'[p].result = heap[ref].result
        \/ /\ Ready(ref, n) /\ reply'[p].result = Compute(ref, n)
    BY DEF GetResult, Answer, TypeOK
  <2> HIDE DEF n, ref
  <2>2. ASSUME ref = run[p]
        PROVE  Ready(ref, n)
    <3>1. count[p] >= n /\ Len(heap[run[p]].samples) >= count[p]
      BY <1>2 DEF PollInv, CountedEnough, n
    <3>2. count[p] \in Nat /\ Len(heap[run[p]].samples) \in Nat
      BY <1>1, LenProperties DEF TypeOK, EntropyRun
    <3> QED
      BY <1>1, <2>2, <3>1, <3>2, Sizes DEF Ready
  <2>3. Ready(ref, n) => Compute(ref, n) # NoResult
    BY <1>1, ComputeFills DEF Ready
  <2> QED
    BY <2>1, <2>2, <2>3 DEF Cached
<1>7. NoResultMeansEvicted'
  <2>1. run[p] # Nil
    BY <1>1, Sizes
  <2> QED
    BY <1>2, <1>3, <1>6, <2>1 DEF PollInv, NoResultMeansEvicted
<1> QED
  BY <1>4, <1>5, <1>7 DEF PollInv

LEMMA StepPollInv == TypeOK /\ MapInv /\ ResultInv /\ PollInv /\ [Next]_vars => PollInv'
<1> SUFFICES ASSUME TypeOK, MapInv, ResultInv, PollInv, [Next]_vars
             PROVE  PollInv'
  OBVIOUS
<1>1. CASE Tick
  BY <1>1 DEF Tick, storeVars, pollVars, PollInv, RunsAllocated, CountedEnough, NoResultMeansEvicted
<1>2. CASE UNCHANGED vars
  BY <1>2 DEF vars, PollInv, RunsAllocated, CountedEnough, NoResultMeansEvicted
<1> QED
  BY <1>1, <1>2, RecordPollInv, LookUpPollInv, CountPollInv, GetPollInv DEF Next, ResultInv

LEMMA PollInvariant == Spec => [](TypeOK /\ MapInv /\ ResultInv /\ PollInv)
BY InitTypeOK, InitMapInv, InitResultInv, InitPollInv,
   StepTypeOK, StepMapInv, StepResultInv, StepPollInv, PTL DEF Spec

\* A result is of exactly the first n samples of a run, with the n of the request, also
\* when another request filled the cache.
THEOREM ResultsAreOfTheRequest == Spec => []RepliesAnswerTheirQuestion
BY PollInvariant, PTL DEF ResultInv

\* Enough samples and no result are reported only if the run was evicted or replaced
\* between the count and the second look-up.
THEOREM ResultOrEvicted == Spec => []ResultUnlessEvicted
<1>1. PollInv => ResultUnlessEvicted
  BY DEF PollInv, NoResultMeansEvicted, ResultUnlessEvicted
<1> QED
  BY <1>1, PollInvariant, PTL
=============================================================================
