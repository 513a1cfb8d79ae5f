------------------------ MODULE QnameMinStoreProofs ------------------------
(***************************************************************************)
(* Proofs about QnameMinStore, for every number of clients and handlers    *)
(* and every cap and retention.                                            *)
(***************************************************************************)
EXTENDS QnameMinStore, FiniteSetTheorems, WellFoundedInduction, TLAPS

-----------------------------------------------------------------------------
(***************************************************************************)
(* Facts about the operators of the model.  A list is a set of entries no  *)
(* two of which have the same position.                                    *)
(***************************************************************************)
IsList(S) ==
    /\ IsFiniteSet(S)
    /\ \A e \in S : e.pos \in Nat
    /\ \A e, o \in S : e.pos = o.pos => e = o

LEMMA Sizes ==
    /\ MaxPerClient \in Nat \ {0} /\ Retention \in Nat \ {0}
    /\ MaxTime \in Nat /\ MaxQueries \in Nat
BY QnameMinAssumption

\* A list that is not empty has a first entry: of the sets of what comes before an
\* entry, one is minimal.
LEMMA ListHasFirst ==
    ASSUME NEW T, IsList(T), T # {}
    PROVE  \E f \in T : \A e \in T : f.pos <= e.pos
<1> DEFINE before(e) == {o \in T : o.pos < e.pos}
           F == {before(e) : e \in T}
<1>1. F \subseteq SUBSET T /\ F # {}
  <2>1. \A e \in T : before(e) \in SUBSET T
    OBVIOUS
  <2> HIDE DEF before
  <2> QED
    BY <2>1
<1>2. \E B \in F : \A C \in F : ~(<<C, B>> \in StrictSubsetOrdering(T))
  <2> HIDE DEF F
  <2>1. IsWellFoundedOn(StrictSubsetOrdering(T), SUBSET T)
    BY FS_StrictSubsetOrderingWellFounded, FS_FiniteSubsetsOfFinite DEF IsList
  <2> QED
    BY <1>1, <2>1, WFMin
<1>3. PICK f \in T : \A C \in F : ~(<<C, before(f)>> \in StrictSubsetOrdering(T))
  BY <1>2
<1>4. \A e \in T : e.pos \in Nat
  BY DEF IsList
<1>5. ASSUME NEW e \in T, e.pos < f.pos
      PROVE  FALSE
  <2>1. before(e) \subseteq before(f) /\ before(e) # before(f)
    <3>1. e \in before(f) /\ e \notin before(e)
      BY <1>4, <1>5
    <3>2. \A o \in T : o.pos < e.pos => o.pos < f.pos
      BY <1>4, <1>5
    <3> QED
      BY <3>1, <3>2
  <2>2. <<before(e), before(f)>> \in StrictSubsetOrdering(T)
    BY <2>1 DEF StrictSubsetOrdering
  <2> QED
    BY <1>3, <2>2
<1> QED
  BY <1>4, <1>5

\* A part of a list is a list.
LEMMA PartOfList ==
    ASSUME NEW S, IsList(S), NEW T \in SUBSET S
    PROVE  IsList(T) /\ Cardinality(T) <= Cardinality(S) /\ Cardinality(T) \in Nat
BY FS_Subset, FS_CardinalityType DEF IsList

\* "list[len(list)-maxPerClient:]" leaves no more than maxPerClient: all but the first
\* of what it leaves come after that first one.
LEMMA LastCapped ==
    ASSUME NEW S, IsList(S)
    PROVE  Cardinality(Last(S)) <= MaxPerClient
<1> DEFINE T == Last(S)
<1>1. T \in SUBSET S
  BY DEF Last
<1>2. \A e \in T : Cardinality({o \in S : o.pos > e.pos}) < MaxPerClient
  BY DEF Last
<1> HIDE DEF T
<1>3. IsList(T) /\ Cardinality(T) \in Nat
  BY <1>1, PartOfList
<1>4. CASE T = {}
  BY <1>4, FS_EmptySet, Sizes DEF T
<1>5. CASE T # {}
  <2>1. PICK f \in T : \A e \in T : f.pos <= e.pos
    BY <1>3, <1>5, ListHasFirst
  <2> DEFINE later == {o \in S : o.pos > f.pos}
             rest == T \ {f}
  <2>2. rest \in SUBSET later
    <3>1. ASSUME NEW e \in T, e # f
          PROVE  e.pos > f.pos
      <4>1. e.pos \in Nat /\ f.pos \in Nat /\ e.pos # f.pos /\ f.pos <= e.pos
        BY <1>3, <2>1, <3>1 DEF IsList
      <4> QED
        BY <4>1
    <3> QED
      BY <1>1, <3>1
  <2>3. Cardinality(later) < MaxPerClient
    BY <1>2
  <2>4. later \in SUBSET S
    OBVIOUS
  <2> HIDE DEF later, rest
  <2>5. IsList(later) /\ Cardinality(later) \in Nat
    BY <2>4, PartOfList
  <2>6. Cardinality(rest) <= Cardinality(later) /\ Cardinality(rest) \in Nat
    BY <2>2, <2>5, PartOfList
  <2>7. Cardinality(rest) = Cardinality(T) - 1
    BY <1>3, FS_RemoveElement DEF IsList, rest
  <2>8. Cardinality(T) <= MaxPerClient
    BY <1>3, <2>3, <2>5, <2>6, <2>7, Sizes
  <2> QED
    BY <2>8 DEF T
<1> QED
  BY <1>4, <1>5

\* A list between two positions is no longer than they are apart.
LEMMA WithinWindow ==
    ASSUME NEW S, NEW lo \in Int, NEW hi \in Int, lo <= hi + 1,
           \A e \in S : e.pos \in lo..hi, \A e, o \in S : e.pos = o.pos => e = o
    PROVE  Cardinality(S) <= hi - lo + 1
<1> DEFINE f == [e \in S |-> e.pos]
<1>1. IsFiniteSet(lo..hi) /\ Cardinality(lo..hi) = hi - lo + 1
  BY FS_Interval
<1>2. f \in Injection(S, lo..hi)
  <2>1. f \in [S -> lo..hi]
    OBVIOUS
  <2>2. \A a, b \in S : f[a] = f[b] => a = b
    OBVIOUS
  <2> HIDE DEF f
  <2> QED
    BY <2>1, <2>2 DEF Injection, IsInjective
<1> HIDE DEF f
<1>3. Cardinality(S) <= Cardinality(lo..hi)
  BY <1>1, <1>2, FS_Injection
<1> QED
  BY <1>1, <1>3

LEMMA PrunedIsPart == \A S, cutoff : HeadPruned(S, cutoff) \in SUBSET S
BY DEF HeadPruned

\* Pruning takes out an entry only if that entry is old.
LEMMA PrunedIsOld ==
    ASSUME NEW S, IsList(S), NEW cutoff, NEW e \in S, e \notin HeadPruned(S, cutoff)
    PROVE  ~(e.at >= cutoff)
<1>1. e.pos <= e.pos
  BY DEF IsList
<1> QED
  BY <1>1 DEF HeadPruned

\* What Record leaves of a list: the pruned list with the entry, capped.
Recorded(S, cutoff, e) == Last(HeadPruned(S, cutoff) \cup {e})

LEMMA RecordedList ==
    ASSUME NEW S, IsList(S), NEW cutoff, NEW n \in Nat, \A o \in S : o.pos < n,
           NEW new, new.pos = n
    PROVE  /\ IsList(HeadPruned(S, cutoff) \cup {new})
           /\ Recorded(S, cutoff, new) \in SUBSET (S \cup {new})
           /\ IsList(Recorded(S, cutoff, new))
           /\ Cardinality(Recorded(S, cutoff, new)) <= MaxPerClient
           /\ new \in Recorded(S, cutoff, new)
<1> DEFINE P == HeadPruned(S, cutoff)
           T == P \cup {new}
<1>1. P \in SUBSET S
  BY DEF HeadPruned
<1> HIDE DEF P
<1>2. IsList(P)
  BY <1>1, PartOfList
<1>3. IsList(T)
  <2>1. IsFiniteSet(T)
    BY <1>2, FS_AddElement DEF IsList
  <2>2. \A e \in P : e.pos \in Nat /\ e.pos # n
    BY <1>1, <1>2 DEF IsList
  <2> QED
    BY <1>2, <2>1, <2>2 DEF IsList
<1>4. {o \in T : o.pos > new.pos} = {}
  <2>1. \A o \in T : o.pos \in Nat /\ (o.pos < n \/ o.pos = n)
    BY <1>1, <1>3 DEF IsList
  <2> QED
    BY <2>1
<1>5. new \in Last(T)
  <2>1. Cardinality({o \in T : o.pos > new.pos}) = 0
    BY <1>4, FS_EmptySet
  <2>2. 0 < MaxPerClient
    BY Sizes
  <2> QED
    BY <2>1, <2>2 DEF Last
<1>6. Last(T) \in SUBSET T
  BY DEF Last
<1>7. IsList(Last(T)) /\ Cardinality(Last(T)) <= MaxPerClient
  BY <1>3, <1>6, PartOfList, LastCapped
<1> QED
  BY <1>1, <1>3, <1>5, <1>6, <1>7 DEF Recorded, P

\* An entry that Record takes out was old, or pushed out by maxPerClient later ones.
LEMMA RecordedKeeps ==
    ASSUME NEW S, IsList(S), NEW cutoff, NEW n \in Nat, \A o \in S : o.pos < n,
           NEW new, new.pos = n, NEW e \in S, e \notin Recorded(S, cutoff, new)
    PROVE  ~(e.at >= cutoff) \/ n - e.pos >= MaxPerClient
<1>1. CASE e \notin HeadPruned(S, cutoff)
  BY <1>1, PrunedIsOld
<1>2. CASE e \in HeadPruned(S, cutoff)
  <2> DEFINE T == HeadPruned(S, cutoff) \cup {new}
             later == {o \in T : o.pos > e.pos}
  <2>1. IsList(T)
    BY RecordedList
  <2>2. e \in T /\ e.pos \in Nat /\ e.pos < n
    BY <1>2, <2>1 DEF IsList
  <2>3. ~(Cardinality(later) < MaxPerClient)
    BY <2>2 DEF Recorded, Last
  <2>4. later \in SUBSET T /\ \A o \in later : o.pos \in (e.pos + 1)..n
    <3>1. \A o \in T : o.pos \in Nat /\ (o.pos < n \/ o.pos = n)
      BY <2>1, PrunedIsPart DEF IsList
    <3> HIDE DEF T
    <3> QED
      BY <2>2, <3>1
  <2> HIDE DEF T, later
  <2>5. IsList(later) /\ Cardinality(later) \in Nat
    BY <2>1, <2>4, PartOfList
  <2>6. Cardinality(later) <= n - (e.pos + 1) + 1
    <3>1. e.pos + 1 \in Int /\ n \in Int /\ e.pos + 1 <= n + 1
      BY <2>2
    <3> QED
      BY <2>4, <2>5, <3>1, WithinWindow DEF IsList
  <2> QED
    BY <2>2, <2>3, <2>5, <2>6, Sizes
<1> QED
  BY <1>1, <1>2

-----------------------------------------------------------------------------
(***************************************************************************)
(* Type correctness.  The cap is not inductive alone: it takes that the    *)
(* lists are finite and no two of their entries have the same position.    *)
(***************************************************************************)
ListsOK == \A c \in Clients : IsList(byClient[c]) /\ \A e \in byClient[c] : e.pos < nextPos
StoreInv == TypeOK /\ ListsOK

LEMMA InitStoreInv == Init => StoreInv
<1> SUFFICES ASSUME Init PROVE StoreInv
  OBVIOUS
<1>1. (CHOOSE c \in Clients : TRUE) \in Clients
  BY QnameMinAssumption
<1>2. \A c \in Clients : byClient[c] = {}
  BY DEF Init
<1>3. \A c \in Clients : Cardinality(byClient[c]) <= MaxPerClient
  BY <1>2, FS_EmptySet, Sizes
<1>4. ListsOK
  BY <1>2, FS_EmptySet DEF ListsOK, IsList
<1>5. /\ now \in 0..MaxTime
      /\ nextPos \in 1..(MaxQueries + 1)
      /\ byClient \in [Clients -> SUBSET Entry]
      /\ pc \in [Handlers -> {"idle", "locking", "recorded"}]
      /\ client \in [Handlers -> Clients]
      /\ at \in [Handlers -> 0..MaxTime]
      /\ mine \in [Handlers -> 0..MaxQueries]
  BY <1>1, Sizes DEF Init
<1>6. answer \in [Handlers -> [seq : SUBSET Entry, asOf : 0..MaxTime, upTo : 1..(MaxQueries + 1)]]
  BY Sizes DEF Init, NoAnswer
<1> QED
  BY <1>3, <1>4, <1>5, <1>6 DEF StoreInv, TypeOK

\* What the critical section of Record does to one list and to the others.
LEMMA InsertStores ==
    ASSUME StoreInv, NEW h \in Handlers, Insert(h)
    PROVE  LET c   == client[h]
               new == [pos |-> nextPos, at |-> at[h]]
           IN  /\ c \in Clients /\ new \in Entry /\ nextPos \in Nat /\ nextPos' = nextPos + 1
               /\ nextPos <= MaxQueries
               /\ \A d \in Clients : byClient'[d] =
                     IF d = c THEN Recorded(byClient[c], at[h] - Retention, new) ELSE byClient[d]
               /\ DOMAIN byClient' = Clients
BY Sizes DEF Insert, StoreInv, TypeOK, Entry, Recorded

LEMMA InsertStoreInv ==
    ASSUME StoreInv, NEW h \in Handlers, Insert(h)
    PROVE  StoreInv'
<1> DEFINE c == client[h]
           new == [pos |-> nextPos, at |-> at[h]]
           S == byClient[c]
           R == Recorded(S, at[h] - Retention, new)
<1>1. /\ c \in Clients /\ new \in Entry /\ nextPos \in Nat /\ nextPos' = nextPos + 1
      /\ nextPos <= MaxQueries
      /\ \A d \in Clients : byClient'[d] = IF d = c THEN R ELSE byClient[d]
      /\ DOMAIN byClient' = Clients
  BY InsertStores
<1>2. new.pos = nextPos
  OBVIOUS
<1>3. IsList(S) /\ \A o \in S : o.pos < nextPos
  BY <1>1 DEF StoreInv, ListsOK
<1> HIDE DEF new, c
<1>4. R \in SUBSET (S \cup {new}) /\ IsList(R) /\ Cardinality(R) <= MaxPerClient
  <2> DEFINE cutoff == at[h] - Retention
  <2> HIDE DEF S, cutoff
  <2>1. R = Recorded(S, cutoff, new)
    BY DEF cutoff
  <2> HIDE DEF R
  <2> QED
    BY <1>1, <1>2, <1>3, <2>1, RecordedList
<1>5. S \in SUBSET Entry
  BY <1>1 DEF StoreInv, TypeOK
<1> HIDE DEF R, S
<1>6. ListsOK'
  <2>1. \A d \in Clients : IsList(byClient'[d])
    BY <1>1, <1>4 DEF StoreInv, ListsOK
  <2>2. \A o \in R : o.pos < nextPos + 1
    <3>1. \A o \in S : o.pos \in Nat /\ o.pos < nextPos
      BY <1>3 DEF IsList
    <3> QED
      BY <1>1, <1>2, <1>4, <3>1
  <2>3. \A d \in Clients : \A o \in byClient[d] : o.pos < nextPos + 1
    <3>1. \A d \in Clients : \A o \in byClient[d] : o.pos \in Nat /\ o.pos < nextPos
      BY DEF StoreInv, ListsOK, IsList
    <3> QED
      BY <1>1, <3>1
  <2> QED
    BY <1>1, <2>1, <2>2, <2>3 DEF ListsOK
<1>7. byClient' \in [Clients -> SUBSET Entry]
  <2>1. byClient' = [d \in Clients |-> byClient'[d]]
    BY <1>1 DEF Insert, StoreInv, TypeOK
  <2>2. \A d \in Clients : byClient'[d] \in SUBSET Entry
    BY <1>1, <1>4, <1>5 DEF StoreInv, TypeOK
  <2> QED
    BY <2>1, <2>2
<1>8. \A d \in Clients : Cardinality(byClient'[d]) <= MaxPerClient
  BY <1>1, <1>4 DEF StoreInv, TypeOK
<1>9. nextPos' \in 1..(MaxQueries + 1) /\ nextPos \in 0..MaxQueries
  BY <1>1, Sizes
<1>10. /\ pc' \in [Handlers -> {"idle", "locking", "recorded"}]
       /\ mine' \in [Handlers -> 0..MaxQueries]
       /\ UNCHANGED <<now, client, at, answer>>
  <2>1. PICK isTXT \in BOOLEAN : pc' = [pc EXCEPT ![h] = IF isTXT THEN "recorded" ELSE "idle"]
    BY DEF Insert
  <2> QED
    BY <1>9, <2>1 DEF Insert, StoreInv, TypeOK
<1> QED
  BY <1>6, <1>7, <1>8, <1>9, <1>10 DEF StoreInv, TypeOK

LEMMA ReadStoreInv ==
    ASSUME StoreInv, NEW h \in Handlers, GetRecentSequence(h)
    PROVE  StoreInv'
<1> DEFINE c == client[h]
           S == byClient[c]
           kept == HeadPruned(S, now - Retention)
<1>1. c \in Clients /\ S \in SUBSET Entry /\ IsList(S)
  BY DEF StoreInv, TypeOK, ListsOK
<1>2. /\ byClient' = [byClient EXCEPT ![c] = kept]
      /\ answer' = [answer EXCEPT ![h] = [seq |-> kept, asOf |-> now, upTo |-> nextPos]]
      /\ pc' = [pc EXCEPT ![h] = "idle"]
      /\ UNCHANGED <<now, nextPos, client, at, mine>>
  BY DEF GetRecentSequence
<1>3. kept \in SUBSET S
  BY PrunedIsPart
<1> HIDE DEF c, kept
<1>4. \A d \in Clients : byClient'[d] = IF d = c THEN kept ELSE byClient[d]
  BY <1>2 DEF StoreInv, TypeOK
<1>5. IsList(kept) /\ Cardinality(kept) <= MaxPerClient
  <2>1. IsList(kept) /\ Cardinality(kept) <= Cardinality(S) /\ Cardinality(kept) \in Nat
    BY <1>1, <1>3, PartOfList
  <2>2. Cardinality(S) <= MaxPerClient /\ Cardinality(S) \in Nat
    BY <1>1, FS_CardinalityType DEF StoreInv, TypeOK, IsList
  <2> HIDE DEF S
  <2> QED
    BY <2>1, <2>2, Sizes
<1>6. byClient' \in [Clients -> SUBSET Entry]
  BY <1>1, <1>2, <1>3 DEF StoreInv, TypeOK
<1>7. answer' \in [Handlers -> [seq : SUBSET Entry, asOf : 0..MaxTime, upTo : 1..(MaxQueries + 1)]]
  BY <1>1, <1>2, <1>3 DEF StoreInv, TypeOK
<1>8. ListsOK'
  BY <1>1, <1>2, <1>3, <1>4, <1>5 DEF StoreInv, ListsOK
<1>9. \A d \in Clients : Cardinality(byClient'[d]) <= MaxPerClient
  BY <1>4, <1>5 DEF StoreInv, TypeOK
<1>10. pc' \in [Handlers -> {"idle", "locking", "recorded"}]
  BY <1>2 DEF StoreInv, TypeOK
<1> QED
  BY <1>2, <1>6, <1>7, <1>8, <1>9, <1>10 DEF StoreInv, TypeOK

LEMMA StepStoreInv == StoreInv /\ [Next]_vars => StoreInv'
<1> SUFFICES ASSUME StoreInv, [Next]_vars
             PROVE  StoreInv'
  OBVIOUS
<1>1. ASSUME NEW h \in Handlers, NEW c \in Clients, ReadClock(h, c)
      PROVE  StoreInv'
  <2>1. UNCHANGED <<now, nextPos, byClient, mine>>
    BY <1>1 DEF ReadClock
  <2>2. /\ pc' \in [Handlers -> {"idle", "locking", "recorded"}]
        /\ client' \in [Handlers -> Clients]
        /\ at' \in [Handlers -> 0..MaxTime]
    BY <1>1 DEF ReadClock, StoreInv, TypeOK
  <2>3. answer' \in [Handlers -> [seq : SUBSET Entry, asOf : 0..MaxTime, upTo : 1..(MaxQueries + 1)]]
    BY <1>1, Sizes DEF ReadClock, NoAnswer, StoreInv, TypeOK
  <2> QED
    BY <2>1, <2>2, <2>3 DEF StoreInv, TypeOK, ListsOK
<1>2. CASE Tick
  BY <1>2, Sizes DEF Tick, StoreInv, TypeOK, ListsOK
<1>3. CASE UNCHANGED vars
  BY <1>3 DEF vars, StoreInv, TypeOK, ListsOK
<1> QED
  BY <1>1, <1>2, <1>3, InsertStoreInv, ReadStoreInv DEF Next

LEMMA StoreInvariant == Spec => []StoreInv
BY InitStoreInv, StepStoreInv, PTL DEF Spec

\* A client's list never outgrows maxPerClient, however the handlers interleave, and every
\* variable holds a value of its type.
THEOREM ListsCapped == Spec => []TypeOK
BY StoreInvariant, PTL DEF StoreInv

-----------------------------------------------------------------------------
(***************************************************************************)
(* What a TXT query is answered with.  Between the two critical sections   *)
(* of a handler its own entry is in its client's list, or has aged, or was *)
(* pushed out by as many later entries as the list holds.                  *)
(***************************************************************************)
Own(h) ==
    \/ \E e \in byClient[client[h]] : e.pos = mine[h] /\ e.at = at[h]
    \/ at[h] < now - Retention
    \/ nextPos - mine[h] > MaxPerClient
HandlersInv == \A h \in Handlers :
    /\ at[h] <= now
    /\ mine[h] < nextPos
    /\ pc[h] # "idle" => answer[h] = NoAnswer
    /\ pc[h] = "recorded" => Own(h)
AnswersInv == OwnQueryReported /\ ExpiredOnlyBehindFresh
OwnInv == HandlersInv /\ AnswersInv

LEMMA InitOwnInv == Init => OwnInv
<1> SUFFICES ASSUME Init PROVE OwnInv
  OBVIOUS
<1>1. \A h \in Handlers : /\ at[h] = 0 /\ mine[h] = 0 /\ pc[h] = "idle"
                          /\ answer[h] = NoAnswer /\ answer[h].seq = {}
  BY DEF Init, NoAnswer
<1>2. now = 0 /\ nextPos = 1
  BY DEF Init
<1> QED
  BY <1>1, <1>2 DEF OwnInv, HandlersInv, AnswersInv, OwnQueryReported, ExpiredOnlyBehindFresh

\* Where the answers with something in them are those of before, what they promise holds on.
LEMMA AnswersStay ==
    ASSUME AnswersInv,
           \A h \in Handlers : \/ answer'[h].seq = {}
                               \/ UNCHANGED <<answer[h], at[h], mine[h]>>
    PROVE  AnswersInv'
BY DEF AnswersInv, OwnQueryReported, ExpiredOnlyBehindFresh

LEMMA Numbers ==
    ASSUME StoreInv, NEW h \in Handlers
    PROVE  /\ now \in Nat /\ nextPos \in Nat /\ at[h] \in Nat /\ mine[h] \in Nat
           /\ client[h] \in Clients /\ IsList(byClient[client[h]])
           /\ \A o \in byClient[client[h]] : o.at \in Nat /\ o.pos < nextPos
BY Sizes DEF StoreInv, TypeOK, ListsOK, Entry

LEMMA ReadClockOwnInv ==
    ASSUME StoreInv, OwnInv, NEW h \in Handlers, NEW c \in Clients, ReadClock(h, c)
    PROVE  OwnInv'
<1>1. UNCHANGED <<now, nextPos, byClient, mine>>
  BY DEF ReadClock
<1>2. pc'[h] = "locking" /\ at'[h] = now /\ answer'[h] = NoAnswer
  BY DEF ReadClock, StoreInv, TypeOK
<1>3. \A g \in Handlers \ {h} : UNCHANGED <<pc[g], client[g], at[g], answer[g]>>
  BY DEF ReadClock, StoreInv, TypeOK
<1>4. now \in Nat
  BY Numbers
<1>5. HandlersInv'
  BY <1>1, <1>2, <1>3, <1>4 DEF OwnInv, HandlersInv, Own
<1>6. AnswersInv'
  BY <1>1, <1>2, <1>3, AnswersStay DEF OwnInv, NoAnswer
<1> QED
  BY <1>5, <1>6 DEF OwnInv

LEMMA InsertOwnInv ==
    ASSUME StoreInv, OwnInv, NEW h \in Handlers, Insert(h)
    PROVE  OwnInv'
<1> DEFINE c == client[h]
           new == [pos |-> nextPos, at |-> at[h]]
           S == byClient[c]
           R == Recorded(S, at[h] - Retention, new)
<1>1. /\ c \in Clients /\ nextPos \in Nat /\ nextPos' = nextPos + 1
      /\ \A d \in Clients : byClient'[d] = IF d = c THEN R ELSE byClient[d]
  BY InsertStores
<1>2. new.pos = nextPos /\ new.at = at[h]
  OBVIOUS
<1>3. IsList(S) /\ \A o \in S : o.pos < nextPos
  BY <1>1 DEF StoreInv, ListsOK
<1> HIDE DEF new
<1>4. new \in R
  BY <1>1, <1>2, <1>3, RecordedList
<1>5. \A e \in S : e \notin R => ~(e.at >= at[h] - Retention) \/ nextPos - e.pos >= MaxPerClient
  BY <1>1, <1>2, <1>3, RecordedKeeps
<1>6. /\ UNCHANGED <<now, client, at, answer>>
      /\ pc[h] = "locking" /\ pc'[h] \in {"recorded", "idle"} /\ mine'[h] = nextPos
      /\ \A g \in Handlers \ {h} : UNCHANGED <<pc[g], mine[g]>>
  BY DEF Insert, StoreInv, TypeOK
<1>7. Own(h)'
  BY <1>1, <1>2, <1>4, <1>6 DEF Own
<1>8. ASSUME NEW g \in Handlers \ {h}, Own(g)
      PROVE  Own(g)'
  <2>1. /\ now \in Nat /\ at[g] \in Nat /\ at[h] \in Nat /\ mine[g] \in Nat /\ at[h] <= now
        /\ client[g] \in Clients
    BY Numbers DEF OwnInv, HandlersInv
  <2>2. ASSUME at[g] < now - Retention
        PROVE  Own(g)'
    <3>1. at'[g] = at[g] /\ now' = now
      BY <1>6
    <3>2. at'[g] < now' - Retention
      BY <2>2, <3>1
    <3> QED
      BY <3>2 DEF Own
  <2>3. ASSUME nextPos - mine[g] >= MaxPerClient
        PROVE  Own(g)'
    <3>1. nextPos' = nextPos + 1 /\ mine'[g] = mine[g]
      BY <1>1, <1>6
    <3>2. nextPos' - mine'[g] > MaxPerClient
      BY <1>1, <2>1, <2>3, <3>1, Sizes
    <3> QED
      BY <3>2 DEF Own
  <2>4. ASSUME NEW e \in byClient[client[g]], e.pos = mine[g], e.at = at[g]
        PROVE  Own(g)'
    <3> HIDE DEF R, S
    <3>1. CASE client[g] # c \/ e \in R
      <4>1. e \in byClient'[client[g]]
        BY <1>1, <2>1, <2>4, <3>1
      <4>2. client'[g] = client[g] /\ mine'[g] = mine[g] /\ at'[g] = at[g]
        BY <1>6
      <4>3. e \in byClient'[client'[g]] /\ e.pos = mine'[g] /\ e.at = at'[g]
        BY <2>4, <4>1, <4>2
      <4> QED
        BY <4>3 DEF Own
    <3>2. CASE client[g] = c /\ e \notin R
      <4>1. ~(at[g] >= at[h] - Retention) \/ nextPos - mine[g] >= MaxPerClient
        BY <1>5, <2>4, <3>2 DEF S
      <4>2. at[g] < now - Retention \/ nextPos - mine[g] >= MaxPerClient
        BY <1>1, <2>1, <4>1, Sizes
      <4> QED
        BY <2>2, <2>3, <4>2
    <3> QED
      BY <3>1, <3>2
  <2> QED
    <3>1. nextPos - mine[g] > MaxPerClient => nextPos - mine[g] >= MaxPerClient
      BY <1>1, <2>1, Sizes
    <3> QED
      BY <1>8, <2>2, <2>3, <2>4, <3>1 DEF Own
<1>9. HandlersInv'
  <2>1. \A g \in Handlers : mine[g] \in Nat
    BY Numbers
  <2>2. \A g \in Handlers : mine'[g] < nextPos'
    BY <1>1, <1>6, <2>1 DEF OwnInv, HandlersInv
  <2> QED
    BY <1>6, <1>7, <1>8, <2>2 DEF OwnInv, HandlersInv
<1>10. AnswersInv'
  <2>1. answer'[h].seq = {}
    BY <1>6 DEF OwnInv, HandlersInv, NoAnswer
  <2> QED
    BY <1>6, <2>1, AnswersStay DEF OwnInv
<1> QED
  BY <1>9, <1>10 DEF OwnInv

LEMMA ReadOwnInv ==
    ASSUME StoreInv, OwnInv, NEW h \in Handlers, GetRecentSequence(h)
    PROVE  OwnInv'
<1> DEFINE c == client[h]
           S == byClient[c]
           cutoff == now - Retention
           kept == HeadPruned(S, cutoff)
<1>1. /\ UNCHANGED <<now, nextPos, client, at, mine>>
      /\ pc[h] = "recorded" /\ pc'[h] = "idle"
      /\ answer'[h].seq = kept /\ answer'[h].asOf = now /\ answer'[h].upTo = nextPos
      /\ \A g \in Handlers \ {h} : UNCHANGED <<pc[g], answer[g]>>
      /\ \A d \in Clients : byClient'[d] = IF d = c THEN kept ELSE byClient[d]
  BY DEF GetRecentSequence, StoreInv, TypeOK
<1>2. c \in Clients /\ IsList(S) /\ now \in Nat /\ \A e \in S : e.at \in Nat
  BY Numbers
<1>3. \A e \in S : e \notin kept => e.at < cutoff
  <2>1. \A e \in S : e \notin kept => ~(e.at >= cutoff)
    BY <1>2, PrunedIsOld
  <2> HIDE DEF kept, S
  <2> QED
    BY <1>2, <2>1, Sizes
<1>4. \A e \in kept : e.at < cutoff => \E o \in kept : o.pos < e.pos /\ o.at >= cutoff
  <2>1. ASSUME NEW e \in kept, e.at < cutoff
        PROVE  \E o \in kept : o.pos < e.pos /\ o.at >= cutoff
    <3>1. PICK o \in S : o.pos <= e.pos /\ o.at >= cutoff
      BY <2>1 DEF HeadPruned
    <3>2. e \in S /\ e.pos \in Nat /\ o.pos \in Nat /\ e.at \in Nat
      BY <1>2, <2>1, <3>1 DEF HeadPruned, IsList
    <3>3. o # e
      BY <1>2, <2>1, <3>1, <3>2, Sizes
    <3>4. o.pos # e.pos
      BY <1>2, <3>1, <3>2, <3>3 DEF IsList
    <3>5. o.pos <= o.pos
      BY <3>2
    <3>6. o \in kept
      BY <3>1, <3>5 DEF HeadPruned
    <3> QED
      BY <3>1, <3>2, <3>4, <3>6
  <2> QED
    BY <2>1
<1> HIDE DEF kept, S, c, cutoff
<1>5. ASSUME NEW g \in Handlers, Own(g), pc[g] = "recorded"
      PROVE  \/ at[g] < now - Retention \/ nextPos - mine[g] > MaxPerClient
             \/ \E e \in byClient'[client[g]] : e.pos = mine[g] /\ e.at = at[g]
  <2>1. client[g] \in Clients
    BY Numbers
  <2>2. ASSUME NEW e \in byClient[client[g]], e.pos = mine[g], e.at = at[g]
        PROVE  at[g] < now - Retention \/ e \in byClient'[client[g]]
    BY <1>1, <1>3, <2>1, <2>2 DEF S, cutoff
  <2> QED
    BY <1>5, <2>2 DEF Own
<1>6. HandlersInv'
  <2>1. \A g \in Handlers : pc'[g] = "recorded" => Own(g)'
    BY <1>1, <1>5 DEF OwnInv, HandlersInv, Own
  <2> QED
    BY <1>1, <2>1 DEF OwnInv, HandlersInv
<1>7. \/ \E e \in kept : e.pos = mine[h] /\ e.at = at[h]
      \/ at[h] < now - Retention
      \/ nextPos - mine[h] > MaxPerClient
  <2>1. Own(h) /\ c = client[h]
    BY <1>1 DEF OwnInv, HandlersInv, c
  <2> QED
    BY <1>1, <1>2, <1>5, <2>1
<1>8. OwnQueryReported'
  BY <1>1, <1>7 DEF OwnInv, AnswersInv, OwnQueryReported
<1>9. ExpiredOnlyBehindFresh'
  BY <1>1, <1>4 DEF OwnInv, AnswersInv, ExpiredOnlyBehindFresh, cutoff
<1> QED
  BY <1>6, <1>8, <1>9 DEF OwnInv, AnswersInv

LEMMA StepOwnInv == StoreInv /\ OwnInv /\ [Next]_vars => OwnInv'
<1> SUFFICES ASSUME StoreInv, OwnInv, [Next]_vars
             PROVE  OwnInv'
  OBVIOUS
<1>1. CASE Tick
  <2>1. now' = now + 1 /\ UNCHANGED <<nextPos, byClient, pc, client, at, mine, answer>>
    BY <1>1 DEF Tick
  <2>2. ASSUME NEW h \in Handlers
        PROVE  /\ at[h] <= now' /\ (at[h] < now - Retention => at[h] < now' - Retention)
               /\ mine[h] < nextPos
    <3>1. now \in Nat /\ at[h] \in Nat /\ at[h] <= now /\ mine[h] < nextPos
      BY Numbers DEF OwnInv, HandlersInv
    <3> QED
      BY <2>1, <3>1, Sizes
  <2>3. HandlersInv'
    BY <2>1, <2>2 DEF OwnInv, HandlersInv, Own
  <2>4. AnswersInv'
    BY <2>1, AnswersStay DEF OwnInv
  <2> QED
    BY <2>3, <2>4 DEF OwnInv
<1>2. CASE UNCHANGED vars
  BY <1>2, AnswersStay DEF vars, OwnInv, HandlersInv, Own
<1> QED
  BY <1>1, <1>2, ReadClockOwnInv, InsertOwnInv, ReadOwnInv DEF Next

LEMMA OwnInvariant == Spec => [](StoreInv /\ OwnInv)
BY InitStoreInv, InitOwnInv, StepStoreInv, StepOwnInv, PTL DEF Spec

\* A TXT answer lists the query it answers, unless it aged or as many later ones were
\* recorded as the list holds.
THEOREM AnswersOwnQuery == Spec => []OwnQueryReported
BY OwnInvariant, PTL DEF OwnInv, AnswersInv

\* An expired entry is answered only behind one that is fresh.
THEOREM ExpiredHidesBehindFresh == Spec => []ExpiredOnlyBehindFresh
BY OwnInvariant, PTL DEF OwnInv, AnswersInv
=============================================================================
