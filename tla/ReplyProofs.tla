----------------------------- MODULE ReplyProofs ----------------------------
(***************************************************************************)
(* Lemmas about the operators the handler's replies are built with:        *)
(* QueryNames, Messages, Answers and Finalize.  They are folds over        *)
(* sequences, which Folding has the induction for.  A message is taken     *)
(* apart into fields and sections, and each operator is shown to change    *)
(* only some; what Handle returns and what FinalizeResponse makes of it    *)
(* follow.  There is no state here: the theorems are in DnsHandlerProofs.  *)
(***************************************************************************)
EXTENDS Answers, Finalize, FiniteSetTheorems, TLAPS

-----------------------------------------------------------------------------
(***************************************************************************)
(* Only: the elements that pass a test, in their order.  The lemmas are    *)
(* about a set of indices in place of the test.                            *)
(***************************************************************************)
PickStep(kept, e) == IF e.picked THEN Append(kept, e.value) ELSE kept
Pick == INSTANCE Folding WITH Step <- PickStep

\* The function FoldLeft chooses for Only, with P the indices that pass.
IsPickTable(f, s, P) ==
    f = [I \in SUBSET (DOMAIN s) |->
            IF I = {} THEN <<>>
            ELSE IF Max(I) \in P THEN Append(f[I \ {Max(I)}], s[Max(I)])
                                 ELSE f[I \ {Max(I)}]]

\* kept consists of the elements of s at P, in order: e enumerates P.
Enumerates(e, kept, s, P) ==
    /\ e \in [1..Len(kept) -> P]
    /\ \A i, j \in 1..Len(kept) : i < j => e[i] < e[j]
    /\ \A p \in P : \E i \in 1..Len(kept) : e[i] = p
    /\ \A i \in 1..Len(kept) : kept[i] = s[e[i]]
Picks(kept, s, P) == \E e : Enumerates(e, kept, s, P)

\* The largest of a set of indices is one of them.
LEMMA MaxOfIndices ==
    ASSUME NEW n \in Nat, NEW I \in SUBSET (1..n), I # {}
    PROVE  Max(I) \in I /\ \A i \in I : i <= Max(I)
<1>1. Pick!Max(I) = Max(I)
  BY Zenon DEF Pick!Max, Max
<1> QED
  BY <1>1, Pick!LargestIndex

\* The function FoldLeft chooses for Only exists...
LEMMA PickTableExists ==
    ASSUME NEW S, NEW s \in Seq(S), NEW P
    PROVE  \E f : IsPickTable(f, s, P)
<1> DEFINE marked == [i \in 1..Len(s) |-> [value |-> s[i], picked |-> i \in P]]
<1>1. PICK f : Pick!IsTable(f, Len(s), marked, <<>>)
  <2>1. Len(s) \in Nat
    OBVIOUS
  <2> HIDE DEF marked
  <2> QED
    BY <2>1, Pick!TableExists
<1>2. f = [I \in SUBSET (1..Len(s)) |->
              IF I = {} THEN <<>> ELSE PickStep(f[I \ {Max(I)}], marked[Max(I)])]
  BY <1>1, Zenon DEF Pick!IsTable, Pick!Max, Max
<1>3. ASSUME NEW I \in SUBSET (1..Len(s)), I # {}
      PROVE  PickStep(f[I \ {Max(I)}], marked[Max(I)]) =
                 IF Max(I) \in P THEN Append(f[I \ {Max(I)}], s[Max(I)]) ELSE f[I \ {Max(I)}]
  <2>1. Max(I) \in 1..Len(s)
    <3>1. Len(s) \in Nat
      OBVIOUS
    <3> HIDE DEF marked
    <3> QED
      BY <1>3, <3>1, MaxOfIndices
  <2>2. marked[Max(I)].value = s[Max(I)] /\ marked[Max(I)].picked = (Max(I) \in P)
    BY <2>1
  <2> HIDE DEF marked
  <2> QED
    BY <2>2 DEF PickStep
<1>4. DOMAIN s = 1..Len(s)
  OBVIOUS
<1> HIDE DEF marked
<1>5. f = [I \in SUBSET (DOMAIN s) |->
              IF I = {} THEN <<>>
              ELSE IF Max(I) \in P THEN Append(f[I \ {Max(I)}], s[Max(I)])
                                   ELSE f[I \ {Max(I)}]]
  BY <1>2, <1>3, <1>4, Zenon
<1> QED
  BY <1>5 DEF IsPickTable

\* One more element.
LEMMA PicksOneMore ==
    ASSUME NEW S, NEW s \in Seq(S), NEW k \in 1..Len(s), NEW P \in SUBSET (1..(k - 1)),
           NEW kept \in Seq(S), Picks(kept, s, P)
    PROVE  Append(kept, s[k]) \in Seq(S) /\ Picks(Append(kept, s[k]), s, P \cup {k})
<1>1. PICK e : Enumerates(e, kept, s, P)
  BY DEF Picks
<1> DEFINE more == Append(kept, s[k])
           d == [i \in 1..Len(more) |-> IF i = Len(more) THEN k ELSE e[i]]
<1>2. /\ more \in Seq(S) /\ Len(more) = Len(kept) + 1 /\ more[Len(more)] = s[k]
      /\ \A i \in 1..Len(kept) : more[i] = kept[i]
  OBVIOUS
<1> HIDE DEF more
<1>3. \A i \in 1..Len(kept) : d[i] = e[i] /\ e[i] \in P
  BY <1>1, <1>2 DEF Enumerates
<1>4. d[Len(more)] = k
  BY <1>2
<1>5. \A i \in 1..Len(more) : i \in 1..Len(kept) \/ i = Len(more)
  BY <1>2
<1>6. d \in [1..Len(more) -> P \cup {k}]
  BY <1>3, <1>4, <1>5
<1>7. ASSUME NEW i \in 1..Len(more), NEW j \in 1..Len(more), i < j
      PROVE  d[i] < d[j]
  <2>1. i \in 1..Len(kept)
    BY <1>2, <1>7
  <2>2. CASE j = Len(more)
    <3>1. d[i] \in 1..(k - 1)
      BY <1>3, <2>1
    <3> HIDE DEF d
    <3> QED
      BY <1>4, <2>2, <3>1
  <2>3. CASE j \in 1..Len(kept)
    BY <1>1, <1>3, <1>7, <2>1, <2>3 DEF Enumerates
  <2> QED
    BY <1>5, <2>2, <2>3
<1>8. ASSUME NEW p \in P \cup {k}
      PROVE  \E i \in 1..Len(more) : d[i] = p
  <2>1. Len(more) \in 1..Len(more) /\ 1..Len(kept) \subseteq 1..Len(more)
    BY <1>2
  <2>2. p \in P => \E i \in 1..Len(kept) : e[i] = p
    BY <1>1, Zenon DEF Enumerates
  <2> QED
    BY <1>3, <1>4, <2>1, <2>2
<1>9. \A i \in 1..Len(more) : more[i] = s[d[i]]
  BY <1>1, <1>2, <1>3, <1>4, <1>5 DEF Enumerates
<1> HIDE DEF d
<1>10. Enumerates(d, more, s, P \cup {k})
  BY <1>6, <1>7, <1>8, <1>9 DEF Enumerates
<1>11. Append(kept, s[k]) = more
  BY DEF more
<1> QED
  BY <1>2, <1>10, <1>11 DEF Picks

\* ... and its value for all indices is what Only is to return.
LEMMA PickTablePicks ==
    ASSUME NEW S, NEW s \in Seq(S), NEW P \in SUBSET (1..Len(s)), NEW f, IsPickTable(f, s, P)
    PROVE  f[DOMAIN s] \in Seq(S) /\ Picks(f[DOMAIN s], s, P)
<1> DEFINE Good(k) == f[1..k] \in Seq(S) /\ Picks(f[1..k], s, P \cap (1..k))
           T == {k \in 0..Len(s) : Good(k)}
<1>1. 0 \in T
  <2>1. 1..0 = {} /\ {} \in SUBSET (DOMAIN s) /\ P \cap (1..0) = {}
    OBVIOUS
  <2>2. f[{}] = <<>>
    BY <2>1, Zenon DEF IsPickTable
  <2>3. Enumerates(<<>>, <<>>, s, {})
    BY DEF Enumerates
  <2>4. Picks(<<>>, s, {})
    BY <2>3, Zenon DEF Picks
  <2>5. Good(0)
    BY <2>1, <2>2, <2>4, <<>> \in Seq(S)
  <2> HIDE DEF Good
  <2> QED
    BY <2>5
<1>2. ASSUME NEW k \in 0..(Len(s) - 1), k \in T
      PROVE  k + 1 \in T
  <2>1. 1..(k + 1) \in SUBSET (1..Len(s)) /\ k + 1 \in 1..Len(s) /\ 1..(k + 1) # {}
    <3>1. k + 1 \in 1..(k + 1)
      OBVIOUS
    <3> QED
      BY <3>1
  <2>2. Max(1..(k + 1)) = k + 1
    <3>1. Max(1..(k + 1)) \in 1..(k + 1) /\ \A i \in 1..(k + 1) : i <= Max(1..(k + 1))
      <4>1. Len(s) \in Nat
        OBVIOUS
      <4> QED
        BY <2>1, <4>1, MaxOfIndices
    <3> QED
      BY <3>1
  <2>3. (1..(k + 1)) \ {k + 1} = 1..k /\ DOMAIN s = 1..Len(s)
    OBVIOUS
  <2>4. f[1..(k + 1)] = IF k + 1 \in P THEN Append(f[1..k], s[k + 1]) ELSE f[1..k]
    BY <2>1, <2>2, <2>3, Zenon DEF IsPickTable
  <2>5. Good(k)
    BY <1>2
  <2>6. ASSUME k + 1 \in P
        PROVE  Good(k + 1)
    <3>1. P \cap (1..(k + 1)) = (P \cap (1..k)) \cup {k + 1}
      BY <2>6
    <3>2. P \cap (1..k) \in SUBSET (1..((k + 1) - 1))
      OBVIOUS
    <3>3. /\ Append(f[1..k], s[k + 1]) \in Seq(S)
          /\ Picks(Append(f[1..k], s[k + 1]), s, (P \cap (1..k)) \cup {k + 1})
      BY <2>1, <2>5, <3>2, PicksOneMore
    <3> QED
      BY <2>4, <2>6, <3>1, <3>3
  <2>7. ASSUME k + 1 \notin P
        PROVE  Good(k + 1)
    <3>1. P \cap (1..(k + 1)) = P \cap (1..k)
      BY <2>7
    <3> QED
      BY <2>4, <2>5, <2>7, <3>1
  <2>8. Good(k + 1)
    BY <2>6, <2>7
  <2> HIDE DEF Good
  <2> QED
    BY <2>1, <2>8
<1>3. Len(s) \in T
  <2>1. Len(s) \in Nat /\ Len(s) \in 0..Len(s)
    OBVIOUS
  <2> HIDE DEF T
  <2> QED
    BY <1>1, <1>2, <2>1, Pick!Induct
<1>4. P \cap (1..Len(s)) = P /\ DOMAIN s = 1..Len(s)
  <2>1. P \subseteq 1..Len(s) /\ DOMAIN s = 1..Len(s)
    OBVIOUS
  <2> QED
    BY <2>1
<1> QED
  BY <1>3, <1>4

\* So for each test the model uses: the set-options of a name,
LEMMA OnlyOptions ==
    ASSUME NEW S, NEW s \in Seq(S)
    PROVE  /\ Only(s, isSetOption) \in Seq(S)
           /\ Picks(Only(s, isSetOption), s, {i \in 1..Len(s) : isSetOption(s[i])})
<1> DEFINE P == {i \in 1..Len(s) : isSetOption(s[i])}
           IsTable(f) ==
               f = [I \in SUBSET (DOMAIN s) |->
                       IF I = {} THEN <<>>
                       ELSE IF isSetOption(s[Max(I)])
                            THEN Append(f[I \ {Max(I)}], s[Max(I)])
                            ELSE f[I \ {Max(I)}]]
           chosen == CHOOSE f : IsTable(f)
<1>1. DOMAIN s = 1..Len(s) /\ Len(s) \in Nat /\ P \in SUBSET (1..Len(s))
  OBVIOUS
<1>2. ASSUME NEW I \in SUBSET (DOMAIN s), I # {}
      PROVE  Max(I) \in P <=> isSetOption(s[Max(I)])
  <2>1. Max(I) \in 1..Len(s)
    BY <1>1, <1>2, MaxOfIndices
  <2> QED
    BY <2>1
<1>3. Only(s, isSetOption) = chosen[DOMAIN s]
  BY Zenon DEF Only, FoldLeft, MapThenFoldSet
<1> HIDE DEF P
<1>4. \A f : IsTable(f) <=> IsPickTable(f, s, P)
  BY <1>2, Zenon DEF IsPickTable
<1>5. IsPickTable(chosen, s, P)
  BY <1>4, PickTableExists
<1> HIDE DEF chosen, IsTable
<1> QED
  BY <1>1, <1>3, <1>5, PickTablePicks DEF P

\* those whose value parses,
LEMMA OnlyValid ==
    ASSUME NEW S, NEW s \in Seq(S)
    PROVE  /\ Only(s, isValidSetOption) \in Seq(S)
           /\ Picks(Only(s, isValidSetOption), s, {i \in 1..Len(s) : isValidSetOption(s[i])})
<1> DEFINE P == {i \in 1..Len(s) : isValidSetOption(s[i])}
           IsTable(f) ==
               f = [I \in SUBSET (DOMAIN s) |->
                       IF I = {} THEN <<>>
                       ELSE IF isValidSetOption(s[Max(I)])
                            THEN Append(f[I \ {Max(I)}], s[Max(I)])
                            ELSE f[I \ {Max(I)}]]
           chosen == CHOOSE f : IsTable(f)
<1>1. DOMAIN s = 1..Len(s) /\ Len(s) \in Nat /\ P \in SUBSET (1..Len(s))
  OBVIOUS
<1>2. ASSUME NEW I \in SUBSET (DOMAIN s), I # {}
      PROVE  Max(I) \in P <=> isValidSetOption(s[Max(I)])
  <2>1. Max(I) \in 1..Len(s)
    BY <1>1, <1>2, MaxOfIndices
  <2> QED
    BY <2>1
<1>3. Only(s, isValidSetOption) = chosen[DOMAIN s]
  BY Zenon DEF Only, FoldLeft, MapThenFoldSet
<1> HIDE DEF P
<1>4. \A f : IsTable(f) <=> IsPickTable(f, s, P)
  BY <1>2, Zenon DEF IsPickTable
<1>5. IsPickTable(chosen, s, P)
  BY <1>4, PickTableExists
<1> HIDE DEF chosen, IsTable
<1> QED
  BY <1>1, <1>3, <1>5, PickTablePicks DEF P

\* and those of one kind.
LEMMA OnlyOfKind ==
    ASSUME NEW S, NEW s \in Seq(S), NEW kind
    PROVE  /\ ValidOptions(s, kind) \in Seq(S)
           /\ Picks(ValidOptions(s, kind), s, {i \in 1..Len(s) : (s[i].kind = kind /\ isValidSetOption(s[i]))})
<1> DEFINE P == {i \in 1..Len(s) : (s[i].kind = kind /\ isValidSetOption(s[i]))}
           IsTable(f) ==
               f = [I \in SUBSET (DOMAIN s) |->
                       IF I = {} THEN <<>>
                       ELSE IF (s[Max(I)].kind = kind /\ isValidSetOption(s[Max(I)]))
                            THEN Append(f[I \ {Max(I)}], s[Max(I)])
                            ELSE f[I \ {Max(I)}]]
           chosen == CHOOSE f : IsTable(f)
<1>1. DOMAIN s = 1..Len(s) /\ Len(s) \in Nat /\ P \in SUBSET (1..Len(s))
  OBVIOUS
<1>2. ASSUME NEW I \in SUBSET (DOMAIN s), I # {}
      PROVE  Max(I) \in P <=> (s[Max(I)].kind = kind /\ isValidSetOption(s[Max(I)]))
  <2>1. Max(I) \in 1..Len(s)
    BY <1>1, <1>2, MaxOfIndices
  <2> QED
    BY <2>1
<1>3. ValidOptions(s, kind) = chosen[DOMAIN s]
  BY Zenon DEF ValidOptions, Only, FoldLeft, MapThenFoldSet
<1> HIDE DEF P
<1>4. \A f : IsTable(f) <=> IsPickTable(f, s, P)
  BY <1>2, Zenon DEF IsPickTable
<1>5. IsPickTable(chosen, s, P)
  BY <1>4, PickTableExists
<1> HIDE DEF chosen, IsTable
<1> QED
  BY <1>1, <1>3, <1>5, PickTablePicks DEF P


\* The valid options, and those of one kind among them: the last of the kind is the
\* last of that kind in the whole list.
ValidIn(options) == Only(options, isValidSetOption)
LastIs(all, kind, some) ==
    /\ some = <<>> => \A i \in 1..Len(all) : all[i].kind # kind
    /\ some # <<>> => \E j \in 1..Len(all) :
           /\ all[j] = Last(some) /\ all[j].kind = kind
           /\ \A i \in 1..Len(all) : i > j => all[i].kind # kind

LEMMA LastOfKind ==
    ASSUME NEW S, NEW options \in Seq(S), NEW kind,
           NEW all, all = ValidIn(options),
           NEW some, some = ValidOptions(options, kind)
    PROVE  /\ all \in Seq(S) /\ some \in Seq(S)
           /\ \A i \in 1..Len(all) : isValidSetOption(all[i])
           /\ LastIs(all, kind, some)
<1> DEFINE P == {i \in 1..Len(options) : isValidSetOption(options[i])}
           Q == {i \in 1..Len(options) : (options[i].kind = kind /\ isValidSetOption(options[i]))}
<1>1. all \in Seq(S) /\ some \in Seq(S)
  BY OnlyValid, OnlyOfKind DEF ValidIn
<1>2. PICK e : Enumerates(e, all, options, P)
  BY OnlyValid DEF Picks, ValidIn
<1>3. PICK d : Enumerates(d, some, options, Q)
  BY OnlyOfKind DEF Picks
<1>4. Q \subseteq P /\ P \subseteq Nat /\ \A i \in P : i \in Q <=> options[i].kind = kind
  OBVIOUS
<1>5. \A i \in P : isValidSetOption(options[i])
  OBVIOUS
<1> HIDE DEF P, Q
<1>6. /\ \A i \in 1..Len(all) : e[i] \in P /\ all[i] = options[e[i]]
      /\ \A p \in P : \E i \in 1..Len(all) : e[i] = p
      /\ \A i, j \in 1..Len(all) : i < j => e[i] < e[j]
  BY <1>2 DEF Enumerates
<1>7. /\ \A i \in 1..Len(some) : d[i] \in Q /\ some[i] = options[d[i]]
      /\ \A p \in Q : \E i \in 1..Len(some) : d[i] = p
      /\ \A i, j \in 1..Len(some) : i < j => d[i] < d[j]
  BY <1>3 DEF Enumerates
<1>8. \A i \in 1..Len(all) : isValidSetOption(all[i]) /\ (all[i].kind = kind <=> e[i] \in Q)
  <2> TAKE i \in 1..Len(all)
  <2>1. e[i] \in P /\ all[i] = options[e[i]]
    BY <1>6
  <2>2. isValidSetOption(options[e[i]]) /\ (e[i] \in Q <=> options[e[i]].kind = kind)
    BY <1>4, <1>5, <2>1
  <2> QED
    BY <2>1, <2>2
<1>9. ASSUME some = <<>>
      PROVE  \A i \in 1..Len(all) : all[i].kind # kind
  <2>1. 1..Len(some) = {}
    BY <1>9
  <2>2. Q = {}
    BY <1>7, <2>1
  <2> QED
    BY <1>8, <2>2
<1>10. ASSUME some # <<>>
       PROVE  \E j \in 1..Len(all) :
                  /\ all[j] = Last(some) /\ all[j].kind = kind
                  /\ \A i \in 1..Len(all) : i > j => all[i].kind # kind
  <2>1. Len(some) \in 1..Len(some)
    BY <1>1, <1>10
  <2>2. PICK j \in 1..Len(all) : e[j] = d[Len(some)]
    BY <1>4, <1>6, <1>7, <2>1
  <2>3. all[j] = Last(some) /\ all[j].kind = kind
    <3>1. d[Len(some)] \in Q /\ some[Len(some)] = options[d[Len(some)]]
      BY <1>7, <2>1
    <3>2. all[j] = options[e[j]] /\ (all[j].kind = kind <=> e[j] \in Q)
      BY <1>6, <1>8
    <3> QED
      BY <2>2, <3>1, <3>2 DEF Last
  <2>4. ASSUME NEW i \in 1..Len(all), i > j, all[i].kind = kind
        PROVE  FALSE
    <3>1. PICK k \in 1..Len(some) : d[k] = e[i]
      BY <1>7, <1>8, <2>4
    <3>2. e[j] < e[i] /\ e[i] \in Nat /\ e[j] \in Nat
      BY <1>4, <1>6, <2>4
    <3>3. k = Len(some) \/ d[k] < d[Len(some)]
      BY <1>1, <1>7, <2>1
    <3> QED
      BY <2>2, <3>1, <3>2, <3>3
  <2> QED
    BY <2>3, <2>4
<1> QED
  BY <1>1, <1>8, <1>9, <1>10 DEF LastIs

-----------------------------------------------------------------------------
(***************************************************************************)
(* Messages: what each step of FinalizeResponse leaves alone.              *)
(***************************************************************************)
MsgFields == {"id", "rcode", "qr", "aa", "tc", "compress", "qname", "answer", "ns", "extra"}
IsRecord(rr) ==
    /\ rr = [x \in DOMAIN rr |-> rr[x]]
    /\ {"type", "owner", "ttl", "packs", "bytes"} \subseteq DOMAIN rr
    /\ IsOpt(rr) => {"udp", "do", "codes"} \subseteq DOMAIN rr
    /\ rr.bytes \in Nat /\ Len(rr.owner) \in Nat
IsSection(rrs) == \E R : rrs \in Seq(R) /\ \A rr \in R : IsRecord(rr)
Elements(rrs) == {rrs[i] : i \in 1..Len(rrs)}
IsMessage(m) ==
    /\ m = [x \in MsgFields |-> m[x]]
    /\ IsSection(m.answer) /\ IsSection(m.ns) /\ IsSection(m.extra)
    /\ Len(m.qname) \in Nat

\* m and n agree on everything but these fields.
SameBut(fields, m, n) == \A x \in MsgFields \ fields : n[x] = m[x]

\* A section is a sequence of records, and a sequence of records is a section.
LEMMA Section ==
    ASSUME NEW rrs, IsSection(rrs)
    PROVE  /\ Len(rrs) \in Nat /\ DOMAIN rrs = 1..Len(rrs)
           /\ rrs = [i \in 1..Len(rrs) |-> rrs[i]]
           /\ \A i \in 1..Len(rrs) : IsRecord(rrs[i])
  BY DEF IsSection

LEMMA MakesSection ==
    ASSUME NEW n \in Nat, NEW rrs, rrs = [i \in 1..n |-> rrs[i]],
           \A i \in 1..n : IsRecord(rrs[i])
    PROVE  IsSection(rrs) /\ Len(rrs) = n
<1> DEFINE R == {rrs[i] : i \in 1..n}
<1>1. rrs \in Seq(R) /\ Len(rrs) = n
  <2>1. \A i \in 1..n : rrs[i] \in R
    OBVIOUS
  <2> HIDE DEF R
  <2>2. rrs \in [1..n -> R]
    BY <2>1
  <2> QED
    BY <2>2
<1>2. \A rr \in R : IsRecord(rr)
  OBVIOUS
<1> HIDE DEF R
<1> QED
  BY <1>1, <1>2 DEF IsSection

\* A record more.
LEMMA AppendedSection ==
    ASSUME NEW rrs, IsSection(rrs), NEW rr, IsRecord(rr)
    PROVE  /\ IsSection(Append(rrs, rr)) /\ Len(Append(rrs, rr)) = Len(rrs) + 1
           /\ \A i \in 1..Len(rrs) : Append(rrs, rr)[i] = rrs[i]
           /\ Append(rrs, rr)[Len(rrs) + 1] = rr
           /\ Elements(Append(rrs, rr)) = Elements(rrs) \cup {rr}
<1>1. PICK R : rrs \in Seq(R) /\ \A r \in R : IsRecord(r)
  BY DEF IsSection
<1>2. Append(rrs, rr) \in Seq(R \cup {rr}) /\ \A r \in R \cup {rr} : IsRecord(r)
  <2>1. rrs \in Seq(R \cup {rr})
    BY <1>1
  <2> QED
    BY <1>1, <2>1
<1>3. /\ Len(Append(rrs, rr)) = Len(rrs) + 1
      /\ \A i \in 1..Len(rrs) : Append(rrs, rr)[i] = rrs[i]
      /\ Append(rrs, rr)[Len(rrs) + 1] = rr
  BY <1>1
<1> DEFINE more == Append(rrs, rr)
           n == Len(rrs)
<1>4. Elements(more) = Elements(rrs) \cup {rr}
  <2>1. /\ n \in Nat /\ Len(more) = n + 1 /\ more[n + 1] = rr
        /\ \A i \in 1..n : more[i] = rrs[i]
    BY <1>1, <1>3
  <2>2. Elements(more) = {more[i] : i \in 1..(n + 1)} /\ Elements(rrs) = {rrs[i] : i \in 1..n}
    BY <2>1 DEF Elements
  <2> HIDE DEF more, n
  <2>3. 1..(n + 1) = (1..n) \cup {n + 1}
    BY <2>1
  <2> QED
    BY <2>1, <2>2, <2>3
<1> QED
  BY <1>2, <1>3, <1>4 DEF IsSection

-----------------------------------------------------------------------------
(***************************************************************************)
(* Lengths: a section is as long as its records together.                  *)
(***************************************************************************)
AddBytes(n, rr) == n + rr.bytes
Bytes == INSTANCE Folding WITH Step <- AddBytes

\* An empty section takes no bytes.
LEMMA NoBytes == SectionBytes(<<>>) = 0
<1>1. PICK F : Bytes!IsFold(F, 0, <<>>, 0)
  <2>1. DOMAIN <<>> = 1..0 /\ 0 \in Nat
    OBVIOUS
  <2> QED
    BY <2>1, Bytes!Unrolled
<1>2. Bytes!Folded(0, <<>>) = 0
  BY <1>1, Zenon DEF Bytes!IsFold
<1>3. SectionBytes(<<>>) = Bytes!Folded(0, <<>>)
  BY Zenon DEF SectionBytes, Bytes!Folded, AddBytes, Bytes!FoldLeft, FoldLeft,
               Bytes!MapThenFoldSet, MapThenFoldSet, Bytes!Max, Max
<1> QED
  BY <1>2, <1>3

\* The lengths of the first records of a section.
AddsUp(F, rrs) ==
    /\ F[0] = 0 /\ F[Len(rrs)] = SectionBytes(rrs)
    /\ \A k \in 1..Len(rrs) : F[k] = F[k - 1] + rrs[k].bytes

LEMMA SectionAddsUp ==
    ASSUME NEW rrs, IsSection(rrs)
    PROVE  \E F : AddsUp(F, rrs)
<1>1. Len(rrs) \in Nat /\ DOMAIN rrs = 1..Len(rrs)
  BY Section
<1>2. PICK F : Bytes!IsFold(F, Len(rrs), rrs, 0)
  BY <1>1, Bytes!Unrolled
<1>3. SectionBytes(rrs) = Bytes!Folded(0, rrs)
  BY Zenon DEF SectionBytes, Bytes!Folded, AddBytes, Bytes!FoldLeft, FoldLeft,
               Bytes!MapThenFoldSet, MapThenFoldSet, Bytes!Max, Max
<1>4. AddsUp(F, rrs)
  BY <1>2, <1>3, Zenon DEF Bytes!IsFold, AddBytes, AddsUp
<1> QED
  BY <1>4

LEMMA SectionBytesNat ==
    ASSUME NEW rrs, IsSection(rrs)
    PROVE  SectionBytes(rrs) \in Nat
<1>1. PICK F : AddsUp(F, rrs)
  BY SectionAddsUp
<1>2. Len(rrs) \in Nat /\ \A k \in 1..Len(rrs) : rrs[k].bytes \in Nat
  BY Section DEF IsRecord
<1> DEFINE n == Len(rrs)
           T == {k \in 0..n : F[k] \in Nat}
<1>3. 0 \in T
  BY <1>1, <1>2 DEF AddsUp
<1>4. ASSUME NEW k \in 0..(n - 1), k \in T
      PROVE  k + 1 \in T
  <2>1. k + 1 \in 1..n /\ (k + 1) - 1 = k /\ k + 1 \in 0..n /\ F[k] \in Nat
    BY <1>2, <1>4
  <2>2. F[k + 1] = F[k] + rrs[k + 1].bytes /\ rrs[k + 1].bytes \in Nat
    BY <1>1, <1>2, <2>1 DEF AddsUp
  <2> QED
    BY <2>1, <2>2
<1>5. \A k \in 0..n : k \in T
  <2> HIDE DEF T
  <2>1. n \in Nat
    BY <1>2
  <2> HIDE DEF n
  <2> QED
    BY <1>3, <1>4, <2>1, Bytes!Induct
<1>6. F[n] \in Nat
  BY <1>2, <1>5
<1> QED
  BY <1>1, <1>6 DEF AddsUp

\* One longer record makes the section longer.
LEMMA LongerSection ==
    ASSUME NEW rrs, IsSection(rrs), NEW more, IsSection(more), Len(more) = Len(rrs),
           NEW j \in 1..Len(rrs), NEW d \in Nat, more[j].bytes = rrs[j].bytes + d,
           \A i \in 1..Len(rrs) : i # j => more[i].bytes = rrs[i].bytes
    PROVE  SectionBytes(more) = SectionBytes(rrs) + d
<1>1. PICK F : AddsUp(F, rrs)
  BY SectionAddsUp
<1>2. PICK G : AddsUp(G, more)
  BY SectionAddsUp
<1> DEFINE n == Len(rrs)
<1>3. /\ n \in Nat /\ \A k \in 1..n : rrs[k].bytes \in Nat
      /\ F[0] = 0 /\ F[n] = SectionBytes(rrs) /\ G[0] = 0 /\ G[n] = SectionBytes(more)
      /\ \A k \in 1..n : F[k] = F[k - 1] + rrs[k].bytes /\ G[k] = G[k - 1] + more[k].bytes
  BY <1>1, <1>2, Section DEF IsRecord, AddsUp
<1> HIDE DEF n
<1> DEFINE T == {k \in 0..n : F[k] \in Nat /\ G[k] = F[k] + IF k >= j THEN d ELSE 0}
<1>4. j \in 1..n
  BY DEF n
<1>5. 0 \in T
  BY <1>3, <1>4
<1>6. ASSUME NEW k \in 0..(n - 1), k \in T
      PROVE  k + 1 \in T
  <2>1. k + 1 \in 1..n /\ (k + 1) - 1 = k /\ k + 1 \in 0..n /\ k \in Nat
    BY <1>3
  <2>2. F[k] \in Nat /\ G[k] = F[k] + IF k >= j THEN d ELSE 0
    BY <1>6
  <2>3. /\ F[k + 1] = F[k] + rrs[k + 1].bytes /\ G[k + 1] = G[k] + more[k + 1].bytes
        /\ rrs[k + 1].bytes \in Nat
    BY <1>3, <2>1
  <2>4. more[k + 1].bytes = rrs[k + 1].bytes + IF k + 1 = j THEN d ELSE 0
    <3>1. CASE k + 1 = j
      BY <3>1
    <3>2. CASE k + 1 # j
      BY <2>1, <2>3, <3>2 DEF n
    <3> QED
      BY <3>1, <3>2
  <2>5. F[k + 1] \in Nat /\ G[k + 1] = F[k + 1] + IF k + 1 >= j THEN d ELSE 0
    BY <1>4, <2>1, <2>2, <2>3, <2>4
  <2> QED
    BY <2>1, <2>5
<1>7. n \in T
  <2> HIDE DEF T
  <2>1. \A k \in 0..n : k \in T
    BY <1>3, <1>5, <1>6, Bytes!Induct
  <2> QED
    BY <1>3, <2>1
<1> QED
  BY <1>3, <1>4, <1>7

AddUp(a, b) == a + b
Adding == INSTANCE Folding WITH Step <- AddUp

LEMMA SumNat ==
    ASSUME NEW lengths \in Seq(Nat)
    PROVE  SumOf(lengths) \in Nat
<1>1. Len(lengths) \in Nat /\ DOMAIN lengths = 1..Len(lengths)
  OBVIOUS
<1>2. PICK F : Adding!IsFold(F, Len(lengths), lengths, 0)
  BY <1>1, Adding!Unrolled
<1>3. SumOf(lengths) = Adding!Folded(0, lengths)
  BY Zenon DEF SumOf, Adding!Folded, AddUp, Adding!FoldLeft, FoldLeft,
               Adding!MapThenFoldSet, MapThenFoldSet, Adding!Max, Max
<1> DEFINE n == Len(lengths)
           T == {k \in 0..n : F[k] \in Nat}
<1>4. /\ F[0] = 0 /\ F[n] = SumOf(lengths)
      /\ \A k \in 1..n : F[k] = F[k - 1] + lengths[k]
  BY <1>2, <1>3, Zenon DEF Adding!IsFold, AddUp
<1>5. 0 \in T
  BY <1>1, <1>4
<1>6. ASSUME NEW k \in 0..(n - 1), k \in T
      PROVE  k + 1 \in T
  <2>1. k + 1 \in 1..n /\ (k + 1) - 1 = k /\ k + 1 \in 0..n /\ F[k] \in Nat
    BY <1>1, <1>6
  <2>2. F[k + 1] = F[k] + lengths[k + 1] /\ lengths[k + 1] \in Nat
    BY <1>4, <2>1
  <2> QED
    BY <2>1, <2>2
<1>7. \A k \in 0..n : k \in T
  <2> HIDE DEF T
  <2>1. n \in Nat
    BY <1>1
  <2> HIDE DEF n
  <2> QED
    BY <1>5, <1>6, <2>1, Adding!Induct
<1>8. F[n] \in Nat
  BY <1>1, <1>7
<1> QED
  BY <1>4, <1>8

LEMMA NameBytesNat ==
    ASSUME NEW labels, Len(labels) \in Nat
    PROVE  NameBytes(labels) \in Nat
<1> DEFINE len == Len(labels)
<1>1. len \in Nat /\ LabelBytes \in Nat /\ ZoneBytes \in Nat
  BY MessagesAssumption
<1>2. NameBytes(labels) = ZoneBytes + LabelBytes * len
  BY DEF NameBytes
<1> HIDE DEF len
<1>3. LabelBytes * len \in Nat
  BY <1>1
<1> QED
  BY <1>1, <1>2, <1>3

LEMMA SizeNat ==
    ASSUME NEW m, IsMessage(m)
    PROVE  Size(m) \in Nat
<1>1. NameBytes(m.qname) \in Nat
  BY NameBytesNat DEF IsMessage
<1>2. SectionBytes(m.answer) \in Nat /\ SectionBytes(m.ns) \in Nat /\ SectionBytes(m.extra) \in Nat
  BY SectionBytesNat DEF IsMessage
<1> QED
  BY <1>1, <1>2 DEF Size

-----------------------------------------------------------------------------
Opt(udp, do) == [type |-> "OPT", owner |-> <<>>, ttl |-> 0, packs |-> TRUE,
                 bytes |-> 11, udp |-> udp, do |-> do, codes |-> {}]

\* SetEdns0 appends an OPT record without options.
LEMMA OptIsRecord == \A udp, do : IsRecord(Opt(udp, do)) /\ IsOpt(Opt(udp, do))
  BY DEF Opt, IsRecord, IsOpt

LEMMA SetEdns0Appends ==
    ASSUME NEW m, IsMessage(m), NEW udp, NEW do
    PROVE  /\ IsMessage(SetEdns0(m, udp, do)) /\ SameBut({"extra"}, m, SetEdns0(m, udp, do))
           /\ SetEdns0(m, udp, do).extra = Append(m.extra, Opt(udp, do))
<1> DEFINE n == SetEdns0(m, udp, do)
<1>1. n = [m EXCEPT !.extra = Append(m.extra, Opt(udp, do))]
  BY DEF SetEdns0, Opt
<1>2. n = [x \in MsgFields |-> IF x = "extra" THEN Append(m.extra, Opt(udp, do)) ELSE m[x]]
  BY <1>1 DEF IsMessage, MsgFields
<1> HIDE DEF n
<1>3. /\ n.extra = Append(m.extra, Opt(udp, do)) /\ n.answer = m.answer /\ n.ns = m.ns
      /\ SameBut({"extra"}, m, n) /\ n = [x \in MsgFields |-> n[x]]
  BY <1>2 DEF SameBut, MsgFields
<1>4. IsSection(n.extra)
  BY <1>3, OptIsRecord, AppendedSection DEF IsMessage
<1>5. IsMessage(n) /\ SameBut({"extra"}, m, n) /\ n.extra = Append(m.extra, Opt(udp, do))
  BY <1>3, <1>4 DEF IsMessage
<1> QED
  BY <1>5 DEF n

\* OptIndex is the index of the last OPT record.
LEMMA LastOpt ==
    ASSUME NEW m, IsMessage(m), HasOpt(m)
    PROVE  /\ OptIndex(m) \in 1..Len(m.extra) /\ IsOpt(m.extra[OptIndex(m)])
           /\ \A i \in 1..Len(m.extra) : IsOpt(m.extra[i]) => i <= OptIndex(m)
<1> DEFINE I == {i \in 1..Len(m.extra) : IsOpt(m.extra[i])}
<1>1. Len(m.extra) \in Nat /\ DOMAIN m.extra = 1..Len(m.extra)
  BY Section DEF IsMessage
<1>2. I \in SUBSET (1..Len(m.extra)) /\ I # {}
  BY <1>1 DEF HasOpt
<1>3. OptIndex(m) = Max(I)
  BY <1>2 DEF OptIndex, SelectLastInSeq
<1>4. Max(I) \in I /\ \A i \in I : i <= Max(I)
  <2> HIDE DEF I
  <2> QED
    BY <1>1, <1>2, MaxOfIndices
<1> QED
  BY <1>3, <1>4

\* AddOption gives the last OPT record one more option, and EnsureOpt sees to it that
\* there is one.
LEMMA WithOptionIsOpt ==
    ASSUME NEW rr, IsRecord(rr), IsOpt(rr), NEW code, NEW length \in Nat
    PROVE  LET more == WithOption(rr, code, length)
           IN  /\ IsRecord(more) /\ IsOpt(more)
               /\ more.udp = rr.udp /\ more.do = rr.do /\ more.packs = rr.packs
               /\ more.codes = rr.codes \cup {code} /\ more.bytes = rr.bytes + 4 + length
<1> DEFINE more == WithOption(rr, code, length)
<1>1. /\ {"type", "owner", "ttl", "packs", "bytes", "udp", "do", "codes"} \subseteq DOMAIN rr
      /\ rr = [x \in DOMAIN rr |-> rr[x]]
  BY DEF IsRecord
<1>2. more = [x \in DOMAIN rr |-> IF x = "bytes" THEN rr.bytes + 4 + length
                                  ELSE IF x = "codes" THEN rr.codes \cup {code} ELSE rr[x]]
  BY <1>1 DEF WithOption
<1> HIDE DEF more
<1>3. /\ DOMAIN more = DOMAIN rr /\ more = [x \in DOMAIN more |-> more[x]]
      /\ more.type = rr.type /\ more.udp = rr.udp /\ more.do = rr.do /\ more.packs = rr.packs
      /\ more.owner = rr.owner
      /\ more.codes = rr.codes \cup {code} /\ more.bytes = rr.bytes + 4 + length
  BY <1>1, <1>2
<1>4. IsRecord(more) /\ IsOpt(more)
  BY <1>1, <1>3 DEF IsRecord, IsOpt
<1> QED
  BY <1>3, <1>4 DEF more

LEMMA AddOptionToLast ==
    ASSUME NEW m, IsMessage(m), HasOpt(m), NEW code, NEW length \in Nat,
           NEW n, n = AddOption(m, code, length)
    PROVE  /\ IsMessage(n) /\ HasOpt(n) /\ SameBut({"extra"}, m, n)
           /\ Len(n.extra) = Len(m.extra)
           /\ \A i \in 1..Len(m.extra) : n.extra[i] =
                 IF i = OptIndex(m) THEN WithOption(m.extra[i], code, length) ELSE m.extra[i]
           /\ Size(n) = Size(m) + 4 + length
<1> DEFINE j == OptIndex(m)
           extra == [m.extra EXCEPT ![j] = WithOption(m.extra[j], code, length)]
<1>1. j \in 1..Len(m.extra) /\ IsOpt(m.extra[j])
  BY LastOpt
<1>2. /\ Len(m.extra) \in Nat /\ DOMAIN m.extra = 1..Len(m.extra)
      /\ m.extra = [i \in 1..Len(m.extra) |-> m.extra[i]]
      /\ \A i \in 1..Len(m.extra) : IsRecord(m.extra[i])
  BY Section DEF IsMessage
<1>3. n = [m EXCEPT !.extra = extra]
  BY DEF AddOption
<1>4. \A i \in 1..Len(m.extra) : extra[i] =
          IF i = j THEN WithOption(m.extra[i], code, length) ELSE m.extra[i]
  BY <1>2
<1>5. extra = [i \in 1..Len(m.extra) |-> extra[i]]
  BY <1>2
<1> HIDE DEF extra, j
<1>6. \A i \in 1..Len(m.extra) : IsRecord(extra[i])
  BY <1>1, <1>2, <1>4, WithOptionIsOpt
<1>7. IsSection(extra) /\ Len(extra) = Len(m.extra)
  BY <1>2, <1>5, <1>6, MakesSection
<1>8. /\ n.extra = extra /\ n.answer = m.answer /\ n.ns = m.ns /\ n.qname = m.qname
      /\ SameBut({"extra"}, m, n) /\ n = [x \in MsgFields |-> n[x]]
  BY <1>3 DEF SameBut, IsMessage, MsgFields
<1>9. IsOpt(extra[j])
  BY <1>1, <1>2, <1>4, WithOptionIsOpt
<1>10. IsMessage(n) /\ HasOpt(n)
  <2>1. DOMAIN extra = 1..Len(extra)
    BY <1>5, <1>7
  <2> QED
    BY <1>1, <1>7, <1>8, <1>9, <2>1 DEF IsMessage, HasOpt
<1>11. Size(n) = Size(m) + 4 + length
  <2>1. SectionBytes(extra) = SectionBytes(m.extra) + (4 + length)
    <3>1. extra[j].bytes = m.extra[j].bytes + (4 + length)
      <4>1. IsRecord(m.extra[j]) /\ extra[j] = WithOption(m.extra[j], code, length)
        BY <1>1, <1>2, <1>4
      <4>2. m.extra[j].bytes \in Nat
        BY <4>1 DEF IsRecord
      <4> QED
        BY <1>1, <4>1, <4>2, WithOptionIsOpt
    <3>2. \A i \in 1..Len(m.extra) : i # j => extra[i].bytes = m.extra[i].bytes
      BY <1>4
    <3> DEFINE d == 4 + length
    <3>3. d \in Nat /\ extra[j].bytes = m.extra[j].bytes + d
      BY <3>1
    <3> HIDE DEF d
    <3>4. SectionBytes(extra) = SectionBytes(m.extra) + d
      BY <1>1, <1>7, <3>2, <3>3, LongerSection DEF IsMessage
    <3> QED
      BY <3>4 DEF d
  <2>2. /\ NameBytes(m.qname) \in Nat /\ SectionBytes(m.extra) \in Nat
        /\ SectionBytes(m.answer) \in Nat /\ SectionBytes(m.ns) \in Nat
    BY NameBytesNat, SectionBytesNat DEF IsMessage
  <2>3. Size(n) = 12 + NameBytes(m.qname) + 4
                     + SectionBytes(m.answer) + SectionBytes(m.ns) + SectionBytes(extra)
    BY <1>8 DEF Size
  <2>4. Size(m) = 12 + NameBytes(m.qname) + 4
                     + SectionBytes(m.answer) + SectionBytes(m.ns) + SectionBytes(m.extra)
    BY DEF Size
  <2> QED
    BY <2>1, <2>2, <2>3, <2>4
<1> QED
  BY <1>4, <1>7, <1>8, <1>10, <1>11 DEF j

EmptyOpt == Opt(4096, FALSE)

LEMMA EnsureOptHas ==
    ASSUME NEW m, IsMessage(m)
    PROVE  /\ IsMessage(EnsureOpt(m)) /\ HasOpt(EnsureOpt(m))
           /\ SameBut({"extra"}, m, EnsureOpt(m))
           /\ HasOpt(m) => EnsureOpt(m) = m
           /\ ~HasOpt(m) => EnsureOpt(m).extra = Append(m.extra, EmptyOpt)
<1>1. ASSUME HasOpt(m)
      PROVE  EnsureOpt(m) = m /\ SameBut({"extra"}, m, m)
  BY <1>1 DEF EnsureOpt, SameBut
<1>2. ASSUME ~HasOpt(m)
      PROVE  /\ IsMessage(EnsureOpt(m)) /\ HasOpt(EnsureOpt(m))
             /\ SameBut({"extra"}, m, EnsureOpt(m))
             /\ EnsureOpt(m).extra = Append(m.extra, EmptyOpt)
  <2> DEFINE no == FALSE
             n == SetEdns0(m, 4096, no)
  <2>1. EnsureOpt(m) = n
    BY <1>2 DEF EnsureOpt
  <2> HIDE DEF no
  <2>2. IsMessage(n) /\ SameBut({"extra"}, m, n) /\ n.extra = Append(m.extra, Opt(4096, no))
    BY SetEdns0Appends
  <2> HIDE DEF n
  <2>3. HasOpt(n)
    <3>1. /\ Len(n.extra) = Len(m.extra) + 1 /\ n.extra[Len(m.extra) + 1] = Opt(4096, no)
          /\ Len(m.extra) \in Nat /\ DOMAIN n.extra = 1..Len(n.extra)
      <4> DEFINE rr == Opt(4096, no)
      <4>1. IsRecord(rr) /\ IsSection(m.extra)
        BY OptIsRecord DEF IsMessage
      <4>2. n.extra = Append(m.extra, rr)
        BY <2>2
      <4> HIDE DEF rr
      <4>3. /\ Len(n.extra) = Len(m.extra) + 1 /\ n.extra[Len(m.extra) + 1] = rr
            /\ Len(m.extra) \in Nat /\ DOMAIN n.extra = 1..Len(n.extra)
        BY <4>1, <4>2, AppendedSection, Section
      <4> QED
        BY <4>3 DEF rr
    <3>2. IsOpt(Opt(4096, no))
      BY OptIsRecord
    <3>3. Len(m.extra) + 1 \in DOMAIN n.extra
      BY <3>1
    <3> QED
      BY <3>1, <3>2, <3>3 DEF HasOpt
  <2>4. Opt(4096, no) = EmptyOpt
    BY DEF no, EmptyOpt
  <2> QED
    BY <2>1, <2>2, <2>3, <2>4
<1> QED
  BY <1>1, <1>2

-----------------------------------------------------------------------------
(***************************************************************************)
(* applySetModifiers: one turn, then all of them.                          *)
(***************************************************************************)
LEMMA WithTtlSection ==
    ASSUME NEW rrs, IsSection(rrs), NEW ttl
    PROVE  /\ IsSection(WithTtl(rrs, ttl)) /\ Len(WithTtl(rrs, ttl)) = Len(rrs)
           /\ \A i \in 1..Len(rrs) :
                  /\ WithTtl(rrs, ttl)[i].ttl = ttl
                  /\ WithTtl(rrs, ttl)[i].packs = rrs[i].packs
                  /\ WithTtl(rrs, ttl)[i].bytes = rrs[i].bytes
<1>1. /\ Len(rrs) \in Nat /\ DOMAIN rrs = 1..Len(rrs)
      /\ \A i \in 1..Len(rrs) : IsRecord(rrs[i])
  BY Section
<1> DEFINE changed == WithTtl(rrs, ttl)
<1>2. /\ changed = [i \in 1..Len(rrs) |-> changed[i]]
      /\ \A i \in 1..Len(rrs) : changed[i] = [rrs[i] EXCEPT !.ttl = ttl]
  BY <1>1 DEF WithTtl
<1> HIDE DEF changed
<1>3. ASSUME NEW i \in 1..Len(rrs)
      PROVE  /\ IsRecord(changed[i]) /\ changed[i].ttl = ttl
             /\ changed[i].packs = rrs[i].packs /\ changed[i].bytes = rrs[i].bytes
  <2> DEFINE rr == rrs[i]
  <2>1. IsRecord(rr) /\ changed[i] = [rr EXCEPT !.ttl = ttl]
    BY <1>1, <1>2
  <2> HIDE DEF rr
  <2>2. changed[i] = [x \in DOMAIN rr |-> IF x = "ttl" THEN ttl ELSE rr[x]]
    BY <2>1 DEF IsRecord
  <2> QED
    <3>1. /\ DOMAIN changed[i] = DOMAIN rr /\ changed[i].ttl = ttl
          /\ changed[i].packs = rr.packs /\ changed[i].bytes = rr.bytes /\ changed[i].type = rr.type
          /\ changed[i].owner = rr.owner
          /\ changed[i] = [x \in DOMAIN changed[i] |-> changed[i][x]]
      BY <2>1, <2>2 DEF IsRecord
    <3> QED
      BY <2>1, <3>1 DEF IsRecord, IsOpt, rr
<1>4. IsSection(changed) /\ Len(changed) = Len(rrs)
  BY <1>1, <1>2, <1>3, MakesSection
<1> QED
  BY <1>2, <1>3, <1>4 DEF changed

CodeOf(kind) ==
    CASE kind = "set-cookie" -> "COOKIE" [] kind = "set-ede" -> "EDE" [] kind = "set-nsid" -> "NSID"
OptionKinds == {"set-cookie", "set-ede", "set-nsid"}

\* The options that put bytes on the wire have a number of them.
HasLength(o) == o.kind \in OptionKinds => o.arg \in Nat

LEMMA ValidHasLength ==
    ASSUME NEW o, isValidSetOption(o)
    PROVE  HasLength(o)
<1>1. /\ ValidArgs("set-cookie") = 1..MaxLabel /\ ValidArgs("set-nsid") = 1..MaxLabel
      /\ ValidArgs("set-ede") = 2..MaxLabel
  BY DEF ValidArgs
<1>2. 1..MaxLabel \subseteq Nat /\ 2..MaxLabel \subseteq Nat
  BY DEF MaxLabel
<1>3. o.arg \in ValidArgs(o.kind)
  BY DEF isValidSetOption
<1> QED
  BY <1>1, <1>2, <1>3 DEF HasLength, OptionKinds

\* One turn of applySetModifiers: what the option o makes of m.
Turn(m, o, n) ==
    /\ IsMessage(n) /\ n.qname = m.qname /\ n.compress = m.compress
    /\ Len(n.answer) = Len(m.answer) /\ Len(n.ns) = Len(m.ns)
    /\ o.kind # "set-flags" => n.tc = m.tc
    /\ o.kind = "set-flags" => (n.tc <=> Bit(o.arg, 9))
    /\ o.kind # "set-ttl" => n.answer = m.answer /\ n.ns = m.ns
    /\ o.kind = "set-ttl" => n.answer = WithTtl(m.answer, o.arg) /\ n.ns = WithTtl(m.ns, o.arg)
    /\ o.kind \notin OptionKinds => n.extra = m.extra
    /\ o.kind \in OptionKinds => n = AddOption(EnsureOpt(m), CodeOf(o.kind), o.arg)

LEMMA ModifiedMessage ==
    ASSUME NEW m, IsMessage(m), NEW o, HasLength(o), NEW n, n = Modified(m, o)
    PROVE  Turn(m, o, n)
<1>0. /\ m = [x \in MsgFields |-> m[x]] /\ DOMAIN m = MsgFields
      /\ IsSection(m.answer) /\ IsSection(m.ns) /\ IsSection(m.extra)
  BY DEF IsMessage
<1>1. CASE o.kind \in OptionKinds
  <2>1. n = AddOption(EnsureOpt(m), CodeOf(o.kind), o.arg)
    BY <1>1 DEF Modified, OptionKinds, CodeOf
  <2>2. IsMessage(EnsureOpt(m)) /\ HasOpt(EnsureOpt(m)) /\ SameBut({"extra"}, m, EnsureOpt(m))
    BY EnsureOptHas
  <2>3. IsMessage(n) /\ SameBut({"extra"}, EnsureOpt(m), n)
    BY <1>1, <2>1, <2>2, AddOptionToLast DEF HasLength
  <2>4. SameBut({"extra"}, m, n)
    BY <2>2, <2>3 DEF SameBut
  <2>5. /\ n.qname = m.qname /\ n.compress = m.compress /\ n.tc = m.tc
        /\ n.answer = m.answer /\ n.ns = m.ns
    BY <2>4 DEF SameBut, MsgFields
  <2> QED
    BY <1>1, <2>1, <2>3, <2>5 DEF OptionKinds, Turn
<1>2. CASE o.kind = "set-ttl"
  <2> DEFINE a == WithTtl(m.answer, o.arg)
             b == WithTtl(m.ns, o.arg)
  <2>1. n = [m EXCEPT !.answer = a, !.ns = b]
    BY <1>2 DEF Modified
  <2>2. /\ IsSection(a) /\ Len(a) = Len(m.answer)
        /\ IsSection(b) /\ Len(b) = Len(m.ns)
    BY <1>0, WithTtlSection
  <2>3. a = WithTtl(m.answer, o.arg) /\ b = WithTtl(m.ns, o.arg)
    OBVIOUS
  <2> HIDE DEF a, b
  <2>4. n = [x \in MsgFields |-> IF x = "answer" THEN a ELSE IF x = "ns" THEN b ELSE m[x]]
    BY <1>0, <2>1 DEF MsgFields
  <2>5. /\ n = [x \in MsgFields |-> n[x]] /\ n.answer = a /\ n.ns = b /\ n.extra = m.extra
        /\ n.qname = m.qname /\ n.compress = m.compress /\ n.tc = m.tc
    BY <2>4 DEF MsgFields
  <2>6. IsMessage(n)
    BY <1>0, <2>2, <2>5 DEF IsMessage
  <2> QED
    BY <1>2, <2>2, <2>3, <2>5, <2>6 DEF OptionKinds, Turn
<1>3. CASE o.kind = "set-flags"
  <2> DEFINE n1 == [m EXCEPT !.qr = Bit(o.arg, 15)]
             n2 == [n1 EXCEPT !.aa = Bit(o.arg, 10)]
             n3 == [n2 EXCEPT !.tc = Bit(o.arg, 9)]
  <2>1. n = [n3 EXCEPT !.rcode = o.arg % 16]
    BY <1>3 DEF Modified
  <2>2. /\ n = [x \in MsgFields |-> n[x]] /\ n.answer = m.answer /\ n.ns = m.ns /\ n.extra = m.extra
        /\ n.qname = m.qname /\ n.compress = m.compress
    BY <1>0, <2>1 DEF MsgFields
  <2>3. n.tc <=> Bit(o.arg, 9)
    BY <1>0, <2>1 DEF MsgFields
  <2>4. IsMessage(n)
    BY <1>0, <2>2 DEF IsMessage
  <2> QED
    BY <1>3, <2>2, <2>3, <2>4 DEF OptionKinds, Turn
<1>4. CASE o.kind \in {"set-rcode", "set-id"}
  <2>1. n = [m EXCEPT !.rcode = o.arg] \/ n = [m EXCEPT !.id = o.arg]
    BY <1>4 DEF Modified
  <2>2. /\ n = [x \in MsgFields |-> n[x]] /\ n.answer = m.answer /\ n.ns = m.ns /\ n.extra = m.extra
        /\ n.qname = m.qname /\ n.compress = m.compress /\ n.tc = m.tc
    BY <1>0, <2>1 DEF MsgFields
  <2>3. IsMessage(n)
    BY <1>0, <2>2 DEF IsMessage
  <2> QED
    BY <1>4, <2>2, <2>3 DEF OptionKinds, Turn
<1>5. CASE o.kind \notin OptionKinds \cup {"set-ttl", "set-flags", "set-rcode", "set-id"}
  <2>1. n = m
    BY <1>5 DEF Modified, OptionKinds
  <2> QED
    BY <1>0, <1>5, <2>1 DEF OptionKinds, Turn
<1> QED
  BY <1>1, <1>2, <1>3, <1>4, <1>5

Loop == INSTANCE Folding WITH Step <- Modified

\* The messages between the turns of applySetModifiers, which takes the valid options
\* one after the other.
IsRun(F, m, all, n) ==
    /\ F[0] = m /\ F[Len(all)] = n
    /\ \A k \in 1..Len(all) : F[k] = Modified(F[k - 1], all[k]) /\ HasLength(all[k])

LEMMA ModifiersRun ==
    ASSUME NEW S, NEW options \in Seq(S), NEW m,
           NEW all, all = ValidIn(options),
           NEW n, n = applySetModifiers(m, options)
    PROVE  \E F : IsRun(F, m, all, n)
<1>1. all \in Seq(S)
  BY OnlyValid DEF ValidIn
<1>2. Len(all) \in Nat /\ DOMAIN all = 1..Len(all)
  BY <1>1
<1>3. PICK F : Loop!IsFold(F, Len(all), all, m)
  BY <1>2, Loop!Unrolled
<1>4. Loop!Folded(m, all) = FoldLeft(Modified, m, all)
  BY Zenon DEF Loop!Folded, Loop!FoldLeft, FoldLeft, Loop!MapThenFoldSet, MapThenFoldSet, Loop!Max, Max
<1>5. n = FoldLeft(Modified, m, all)
  BY DEF applySetModifiers, ValidIn
<1>6. F[0] = m /\ F[Len(all)] = n /\ \A k \in 1..Len(all) : F[k] = Modified(F[k - 1], all[k])
  BY <1>3, <1>4, <1>5, Zenon DEF Loop!IsFold
<1>7. \A k \in 1..Len(all) : HasLength(all[k])
  <2>1. \A k \in 1..Len(all) : isValidSetOption(all[k])
    <3> DEFINE some == ValidOptions(options, "set-ede")
    <3> QED
      BY LastOfKind
  <2> QED
    BY <2>1, ValidHasLength
<1>8. IsRun(F, m, all, n)
  BY <1>6, <1>7, Zenon DEF IsRun
<1> QED
  BY <1>8

\* Whatever the options, the question and the number of records stay.
LEMMA ModifiersKeep ==
    ASSUME NEW S, NEW all \in Seq(S), NEW m, IsMessage(m), NEW n, NEW F, IsRun(F, m, all, n)
    PROVE  \A k \in 0..Len(all) :
               /\ IsMessage(F[k]) /\ F[k].qname = m.qname /\ F[k].compress = m.compress
               /\ Len(F[k].answer) = Len(m.answer) /\ Len(F[k].ns) = Len(m.ns)
<1> DEFINE Good(f) == /\ IsMessage(f) /\ f.qname = m.qname /\ f.compress = m.compress
                      /\ Len(f.answer) = Len(m.answer) /\ Len(f.ns) = Len(m.ns)
           T == {k \in 0..Len(all) : Good(F[k])}
<1>1. Len(all) \in Nat
  OBVIOUS
<1>2. 0 \in T
  BY <1>1 DEF IsRun
<1>3. ASSUME NEW k \in 0..(Len(all) - 1), k \in T
      PROVE  k + 1 \in T
  <2>1. k + 1 \in 1..Len(all) /\ (k + 1) - 1 = k /\ k + 1 \in 0..Len(all)
    OBVIOUS
  <2> DEFINE f == F[k]
             g == F[k + 1]
             o == all[k + 1]
  <2>2. g = Modified(f, o) /\ HasLength(o)
    BY <2>1 DEF IsRun
  <2>3. Good(f)
    BY <1>3
  <2> HIDE DEF f, g, o
  <2>4. Turn(f, o, g)
    BY <2>2, <2>3, ModifiedMessage
  <2>5. Good(g)
    BY <2>3, <2>4 DEF Turn
  <2> HIDE DEF Good
  <2> QED
    BY <2>1, <2>5 DEF g
<1>4. \A k \in 0..Len(all) : k \in T
  <2> HIDE DEF T
  <2> QED
    BY <1>1, <1>2, <1>3, Loop!Induct
<1> QED
  BY <1>4

OnlySets(X, Y, all, kind) ==
    \A k \in 1..Len(all) : X[k] = IF all[k].kind = kind THEN Y[all[k].arg] ELSE X[k - 1]

\* What only the options of one kind set, each without regard to what was there, is as
\* the last of them leaves it.
LEMMA LastDecides ==
    ASSUME NEW S, NEW options \in Seq(S), NEW kind,
           NEW all, all = ValidIn(options),
           NEW some, some = ValidOptions(options, kind),
           NEW X, NEW Y, OnlySets(X, Y, all, kind)
    PROVE  X[Len(all)] = IF some = <<>> THEN X[0] ELSE Y[Last(some).arg]
<1>1. /\ all \in Seq(S)
      /\ some = <<>> => \A i \in 1..Len(all) : all[i].kind # kind
      /\ some # <<>> => \E j \in 1..Len(all) :
             /\ all[j] = Last(some) /\ all[j].kind = kind
             /\ \A i \in 1..Len(all) : i > j => all[i].kind # kind
  BY LastOfKind DEF LastIs
<1>2. Len(all) \in Nat /\ Len(all) \in 0..Len(all)
  BY <1>1
<1>3. ASSUME some = <<>>
      PROVE  X[Len(all)] = X[0]
  <2> DEFINE T == {k \in 0..Len(all) : X[k] = X[0]}
  <2>1. 0 \in T
    BY <1>2
  <2>2. ASSUME NEW k \in 0..(Len(all) - 1), k \in T
        PROVE  k + 1 \in T
    <3>1. k + 1 \in 1..Len(all) /\ (k + 1) - 1 = k /\ k + 1 \in 0..Len(all)
      BY <1>2
    <3>2. X[k + 1] = X[k]
      BY <1>1, <1>3, <3>1 DEF OnlySets
    <3> QED
      BY <2>2, <3>1, <3>2
  <2>3. Len(all) \in T
    <3> HIDE DEF T
    <3> QED
      BY <1>2, <2>1, <2>2, Loop!Induct
  <2> QED
    BY <2>3
<1>4. ASSUME some # <<>>
      PROVE  X[Len(all)] = Y[Last(some).arg]
  <2>1. PICK j \in 1..Len(all) :
             /\ all[j] = Last(some) /\ all[j].kind = kind
             /\ \A i \in 1..Len(all) : i > j => all[i].kind # kind
    BY <1>1, <1>4
  <2> DEFINE T == {k \in 0..Len(all) : k >= j => X[k] = Y[all[j].arg]}
  <2>2. 0 \in T
    BY <1>2
  <2>3. ASSUME NEW k \in 0..(Len(all) - 1), k \in T
        PROVE  k + 1 \in T
    <3>1. k + 1 \in 1..Len(all) /\ (k + 1) - 1 = k /\ k + 1 \in 0..Len(all)
      BY <1>2
    <3>2. CASE k >= j
      <4>1. all[k + 1].kind # kind
        BY <2>1, <3>1, <3>2
      <4>2. X[k + 1] = X[k]
        BY <3>1, <4>1 DEF OnlySets
      <4> QED
        BY <2>3, <3>1, <3>2, <4>2
    <3>3. CASE k + 1 = j
      BY <2>1, <3>1, <3>3 DEF OnlySets
    <3>4. CASE k + 1 < j
      BY <3>1, <3>4
    <3> QED
      BY <3>2, <3>3, <3>4
  <2>4. Len(all) \in T
    <3> HIDE DEF T
    <3> QED
      BY <1>2, <2>2, <2>3, Loop!Induct
  <2> QED
    BY <1>2, <2>1, <2>4
<1> QED
  BY <1>3, <1>4

\* The last set-flags decides TC.
LEMMA ModifiersTc ==
    ASSUME NEW S, NEW options \in Seq(S), NEW m, IsMessage(m),
           NEW n, n = applySetModifiers(m, options),
           NEW some, some = ValidOptions(options, "set-flags")
    PROVE  /\ IsMessage(n) /\ n.qname = m.qname /\ n.compress = m.compress
           /\ Len(n.answer) = Len(m.answer) /\ Len(n.ns) = Len(m.ns)
           /\ some = <<>> => (n.tc <=> m.tc)
           /\ some # <<>> => (n.tc <=> Bit(Last(some).arg, 9))
<1> DEFINE all == ValidIn(options)
           flags == "set-flags"
<1>0. all = ValidIn(options)
  OBVIOUS
<1>1. PICK F : IsRun(F, m, all, n)
  BY ModifiersRun
<1>2. all \in Seq(S)
  BY OnlyValid DEF ValidIn
<1>3. some = ValidOptions(options, flags)
  OBVIOUS
<1> HIDE DEF all, flags
<1>4. \A k \in 0..Len(all) :
           /\ IsMessage(F[k]) /\ F[k].qname = m.qname /\ F[k].compress = m.compress
           /\ Len(F[k].answer) = Len(m.answer) /\ Len(F[k].ns) = Len(m.ns)
  BY <1>1, <1>2, ModifiersKeep
<1>5. Len(all) \in Nat /\ Len(all) \in 0..Len(all) /\ F[0] = m /\ F[Len(all)] = n
  BY <1>1, <1>2 DEF IsRun
<1> DEFINE X == [k \in 0..Len(all) |-> IF F[k].tc THEN 1 ELSE 0]
           Y == [a \in {all[k].arg : k \in 1..Len(all)} |-> IF Bit(a, 9) THEN 1 ELSE 0]
<1>6. ASSUME NEW k \in 1..Len(all)
      PROVE  X[k] = IF all[k].kind = flags THEN Y[all[k].arg] ELSE X[k - 1]
  <2>1. k - 1 \in 0..Len(all) /\ k \in 0..Len(all)
    BY <1>5
  <2> DEFINE f == F[k - 1]
             g == F[k]
             o == all[k]
  <2>2. IsMessage(f) /\ g = Modified(f, o) /\ HasLength(o)
    BY <1>1, <1>4, <2>1 DEF IsRun
  <2> HIDE DEF f, g, o
  <2>3. Turn(f, o, g)
    BY <2>2, ModifiedMessage
  <2>4. X[k] = (IF g.tc THEN 1 ELSE 0) /\ X[k - 1] = (IF f.tc THEN 1 ELSE 0)
    BY <2>1 DEF f, g
  <2>5. Y[all[k].arg] = IF Bit(o.arg, 9) THEN 1 ELSE 0
    BY DEF o
  <2> HIDE DEF X, Y
  <2> QED
    BY <2>3, <2>4, <2>5 DEF o, flags, Turn
<1>7. X[Len(all)] = IF some = <<>> THEN X[0] ELSE Y[Last(some).arg]
  <2> HIDE DEF X, Y
  <2>1. OnlySets(X, Y, all, flags)
    BY <1>6 DEF OnlySets
  <2> QED
    BY <1>0, <1>3, <2>1, LastDecides
<1>8. X[Len(all)] = (IF n.tc THEN 1 ELSE 0) /\ X[0] = (IF m.tc THEN 1 ELSE 0)
  BY <1>5
<1>9. some # <<>> => Last(some).arg \in {all[k].arg : k \in 1..Len(all)}
  BY <1>0, <1>3, LastOfKind DEF LastIs
<1>10. some # <<>> => Y[Last(some).arg] = IF Bit(Last(some).arg, 9) THEN 1 ELSE 0
  BY <1>9
<1> HIDE DEF X, Y
<1>11. some = <<>> => (n.tc <=> m.tc)
  BY <1>7, <1>8
<1>12. some # <<>> => (n.tc <=> Bit(Last(some).arg, 9))
  BY <1>7, <1>8, <1>10
<1> QED
  BY <1>4, <1>5, <1>11, <1>12

\* The last set-ttl gives every record of the answer and of the authority its TTL.
HasTtl(m, ttl) ==
    /\ \A i \in 1..Len(m.answer) : m.answer[i].ttl = ttl
    /\ \A i \in 1..Len(m.ns) : m.ns[i].ttl = ttl

LEMMA AllWithTtl ==
    ASSUME NEW rrs, IsSection(rrs), NEW ttl, NEW made, made = WithTtl(rrs, ttl)
    PROVE  \A i \in 1..Len(made) : made[i].ttl = ttl
<1>1. Len(made) = Len(rrs)
  BY WithTtlSection
<1>2. \A i \in 1..Len(rrs) : WithTtl(rrs, ttl)[i].ttl = ttl
  BY WithTtlSection
<1> QED
  BY <1>1, <1>2

LEMMA ModifiersTtl ==
    ASSUME NEW S, NEW options \in Seq(S), NEW m, IsMessage(m),
           NEW n, n = applySetModifiers(m, options),
           NEW some, some = ValidOptions(options, "set-ttl"), some # <<>>
    PROVE  HasTtl(n, Last(some).arg)
<1> DEFINE all == ValidIn(options)
           kind == "set-ttl"
<1>0. all = ValidIn(options) /\ some = ValidOptions(options, kind)
  OBVIOUS
<1>1. PICK F : IsRun(F, m, all, n)
  BY ModifiersRun
<1>2. all \in Seq(S)
  BY OnlyValid DEF ValidIn
<1> HIDE DEF all, kind
<1>3. \A k \in 0..Len(all) :
           /\ IsMessage(F[k]) /\ F[k].qname = m.qname /\ F[k].compress = m.compress
           /\ Len(F[k].answer) = Len(m.answer) /\ Len(F[k].ns) = Len(m.ns)
  BY <1>1, <1>2, ModifiersKeep
<1>4. Len(all) \in Nat /\ Len(all) \in 0..Len(all) /\ F[0] = m /\ F[Len(all)] = n
  BY <1>1, <1>2 DEF IsRun
<1> DEFINE args == {all[k].arg : k \in 1..Len(all)}
           Y == [a \in args |-> a]
<1>5. Last(some).arg \in args
  BY <1>0, LastOfKind DEF LastIs
<1>6. Y[Last(some).arg] = Last(some).arg /\ \A k \in 1..Len(all) : Y[all[k].arg] = all[k].arg
  BY <1>5
<1> HIDE DEF Y
<1>7. ASSUME NEW k \in 1..Len(all)
      PROVE  /\ all[k].kind # kind =>
                  F[k].answer = F[k - 1].answer /\ F[k].ns = F[k - 1].ns
             /\ all[k].kind = kind =>
                  HasTtl(F[k], all[k].arg)
  <2>1. k - 1 \in 0..Len(all) /\ k \in 0..Len(all)
    BY <1>4
  <2> DEFINE f == F[k - 1]
             g == F[k]
             o == all[k]
  <2>2. IsMessage(f) /\ g = Modified(f, o) /\ IsMessage(g) /\ HasLength(o)
    BY <1>1, <1>3, <2>1 DEF IsRun
  <2> HIDE DEF f, g, o
  <2>3. Turn(f, o, g)
    BY <2>2, ModifiedMessage
  <2>4. o.kind # kind => g.answer = f.answer /\ g.ns = f.ns
    BY <2>3 DEF Turn, kind
  <2>5. o.kind = kind => HasTtl(g, o.arg)
    <3>1. o.kind = kind => g.answer = WithTtl(f.answer, o.arg) /\ g.ns = WithTtl(f.ns, o.arg)
      BY <2>3 DEF Turn, kind
    <3>2. IsSection(f.answer) /\ IsSection(f.ns)
      BY <2>2 DEF IsMessage
    <3>3. ASSUME o.kind = kind
          PROVE  /\ \A i \in 1..Len(g.answer) : g.answer[i].ttl = o.arg
                 /\ \A i \in 1..Len(g.ns) : g.ns[i].ttl = o.arg
      BY <3>1, <3>2, <3>3, AllWithTtl
    <3> QED
      BY <3>3 DEF HasTtl
  <2> QED
    BY <2>4, <2>5 DEF f, g, o
<1>8. ASSUME NEW i \in 1..Len(n.answer)
      PROVE  n.answer[i].ttl = Last(some).arg
  <2> DEFINE X == [k \in 0..Len(all) |-> F[k].answer[i].ttl]
  <2>1. ASSUME NEW k \in 1..Len(all)
        PROVE  X[k] = IF all[k].kind = kind THEN Y[all[k].arg] ELSE X[k - 1]
    <3>1. k - 1 \in 0..Len(all) /\ k \in 0..Len(all)
      BY <1>4
    <3>2. X[k] = F[k].answer[i].ttl /\ X[k - 1] = F[k - 1].answer[i].ttl
      BY <3>1
    <3>3. i \in 1..Len(F[k].answer)
      BY <1>3, <1>4, <3>1
    <3> HIDE DEF X
    <3> QED
      BY <1>6, <1>7, <3>2, <3>3 DEF HasTtl
  <2>2. X[Len(all)] = n.answer[i].ttl
    BY <1>4
  <2> HIDE DEF X
  <2>3. OnlySets(X, Y, all, kind)
    BY <2>1 DEF OnlySets
  <2>4. X[Len(all)] = Y[Last(some).arg]
    BY <1>0, <2>3, LastDecides
  <2> QED
    BY <1>6, <2>2, <2>4
<1>9. ASSUME NEW i \in 1..Len(n.ns)
      PROVE  n.ns[i].ttl = Last(some).arg
  <2> DEFINE X == [k \in 0..Len(all) |-> F[k].ns[i].ttl]
  <2>1. ASSUME NEW k \in 1..Len(all)
        PROVE  X[k] = IF all[k].kind = kind THEN Y[all[k].arg] ELSE X[k - 1]
    <3>1. k - 1 \in 0..Len(all) /\ k \in 0..Len(all)
      BY <1>4
    <3>2. X[k] = F[k].ns[i].ttl /\ X[k - 1] = F[k - 1].ns[i].ttl
      BY <3>1
    <3>3. i \in 1..Len(F[k].ns)
      BY <1>3, <1>4, <3>1
    <3> HIDE DEF X
    <3> QED
      BY <1>6, <1>7, <3>2, <3>3 DEF HasTtl
  <2>2. X[Len(all)] = n.ns[i].ttl
    BY <1>4
  <2> HIDE DEF X
  <2>3. OnlySets(X, Y, all, kind)
    BY <2>1 DEF OnlySets
  <2>4. X[Len(all)] = Y[Last(some).arg]
    BY <1>0, <2>3, LastDecides
  <2> QED
    BY <1>6, <2>2, <2>4
<1> QED
  BY <1>8, <1>9 DEF HasTtl

-----------------------------------------------------------------------------
\* m has exactly one OPT record, the j-th of its additional section.
OneOpt(m, j) ==
    /\ j \in 1..Len(m.extra)
    /\ \A i \in 1..Len(m.extra) : IsOpt(m.extra[i]) <=> i = j
\* n has m's OPT record, with the same fields and maybe more options.
SameOpt(m, n, j) ==
    /\ OneOpt(n, j) /\ Len(n.extra) = Len(m.extra)
    /\ n.extra[j].udp = m.extra[j].udp /\ n.extra[j].do = m.extra[j].do

\* With one OPT record, it is the one AddOption finds.
LEMMA OneOptIndex ==
    ASSUME NEW m, IsMessage(m), NEW j, OneOpt(m, j)
    PROVE  HasOpt(m) /\ OptIndex(m) = j /\ EnsureOpt(m) = m
<1>1. Len(m.extra) \in Nat /\ DOMAIN m.extra = 1..Len(m.extra)
  BY Section DEF IsMessage
<1>2. HasOpt(m)
  BY <1>1 DEF HasOpt, OneOpt
<1>3. OptIndex(m) = j
  BY <1>2, LastOpt DEF OneOpt
<1> QED
  BY <1>2, <1>3, EnsureOptHas

LEMMA OneOptMore ==
    ASSUME NEW m, IsMessage(m), NEW j, OneOpt(m, j), NEW code, NEW length \in Nat,
           NEW n, n = AddOption(m, code, length)
    PROVE  /\ IsMessage(n) /\ SameBut({"extra"}, m, n) /\ SameOpt(m, n, j)
           /\ n.extra[j].codes = m.extra[j].codes \cup {code}
           /\ n.extra[j].bytes = m.extra[j].bytes + 4 + length
           /\ \A i \in 1..Len(m.extra) : i # j => n.extra[i] = m.extra[i]
<1>1. HasOpt(m) /\ OptIndex(m) = j
  BY OneOptIndex
<1>2. /\ IsMessage(n) /\ SameBut({"extra"}, m, n) /\ Len(n.extra) = Len(m.extra)
      /\ \A i \in 1..Len(m.extra) : n.extra[i] =
            IF i = j THEN WithOption(m.extra[i], code, length) ELSE m.extra[i]
  BY <1>1, AddOptionToLast
<1>3. /\ j \in 1..Len(m.extra) /\ IsRecord(m.extra[j]) /\ IsOpt(m.extra[j])
  BY Section DEF OneOpt, IsMessage
<1> DEFINE more == WithOption(m.extra[j], code, length)
<1>4. /\ IsOpt(more) /\ more.udp = m.extra[j].udp /\ more.do = m.extra[j].do
      /\ more.codes = m.extra[j].codes \cup {code} /\ more.bytes = m.extra[j].bytes + 4 + length
  BY <1>3, WithOptionIsOpt
<1>5. n.extra[j] = more
  BY <1>2, <1>3
<1> HIDE DEF more
<1>6. OneOpt(n, j)
  BY <1>2, <1>4, <1>5 DEF OneOpt
<1> QED
  BY <1>2, <1>4, <1>5, <1>6 DEF SameOpt

\* The modifiers only add options to the one OPT record.
LEMMA ModifiersOpt ==
    ASSUME NEW S, NEW options \in Seq(S), NEW m, IsMessage(m), NEW j, OneOpt(m, j),
           "NSID" \notin m.extra[j].codes,
           NEW n, n = applySetModifiers(m, options),
           NEW some, some = ValidOptions(options, "set-nsid")
    PROVE  /\ SameOpt(m, n, j)
           /\ "NSID" \in n.extra[j].codes <=> some # <<>>
<1> DEFINE all == ValidIn(options)
           kind == "set-nsid"
<1>0. all = ValidIn(options) /\ some = ValidOptions(options, kind)
  OBVIOUS
<1>1. PICK F : IsRun(F, m, all, n)
  BY ModifiersRun
<1>2. all \in Seq(S)
  BY OnlyValid DEF ValidIn
<1> HIDE DEF all, kind
<1>3. \A k \in 0..Len(all) : IsMessage(F[k])
  BY <1>1, <1>2, ModifiersKeep
<1>4. Len(all) \in Nat /\ Len(all) \in 0..Len(all) /\ F[0] = m /\ F[Len(all)] = n
  BY <1>1, <1>2 DEF IsRun
<1>5. ASSUME NEW k \in 1..Len(all), OneOpt(F[k - 1], j)
      PROVE  /\ SameOpt(F[k - 1], F[k], j)
             /\ all[k].kind # kind => ("NSID" \in F[k].extra[j].codes <=> "NSID" \in F[k - 1].extra[j].codes)
             /\ all[k].kind = kind => "NSID" \in F[k].extra[j].codes
  <2>1. k - 1 \in 0..Len(all) /\ k \in 0..Len(all)
    BY <1>4
  <2> DEFINE f == F[k - 1]
             g == F[k]
             o == all[k]
  <2>2. IsMessage(f) /\ g = Modified(f, o) /\ IsMessage(g) /\ OneOpt(f, j) /\ HasLength(o)
    BY <1>1, <1>3, <1>5, <2>1 DEF IsRun
  <2> HIDE DEF f, g, o
  <2>3. Turn(f, o, g)
    BY <2>2, ModifiedMessage
  <2>4. CASE o.kind \notin OptionKinds
    <3>1. g.extra = f.extra
      BY <2>3, <2>4 DEF Turn
    <3>2. SameOpt(f, g, j)
      BY <2>2, <3>1 DEF SameOpt, OneOpt
    <3>3. o.kind # kind
      BY <2>4 DEF kind, OptionKinds
    <3> QED
      BY <3>1, <3>2, <3>3 DEF f, g, o
  <2>5. CASE o.kind \in OptionKinds
    <3>1. g = AddOption(f, CodeOf(o.kind), o.arg)
      BY <2>2, <2>3, <2>5, OneOptIndex DEF Turn
    <3>2. SameOpt(f, g, j) /\ g.extra[j].codes = f.extra[j].codes \cup {CodeOf(o.kind)}
      BY <2>2, <2>5, <3>1, OneOptMore DEF HasLength
    <3>3. CodeOf(o.kind) = "NSID" <=> o.kind = kind
      BY <2>5 DEF CodeOf, OptionKinds, kind
    <3> QED
      BY <3>2, <3>3 DEF f, g, o
  <2> QED
    BY <2>4, <2>5
<1>6. \A k \in 0..Len(all) : SameOpt(m, F[k], j)
  <2> DEFINE T == {k \in 0..Len(all) : SameOpt(m, F[k], j)}
  <2>1. 0 \in T
    BY <1>4 DEF SameOpt
  <2>2. ASSUME NEW k \in 0..(Len(all) - 1), k \in T
        PROVE  k + 1 \in T
    <3>1. k + 1 \in 1..Len(all) /\ (k + 1) - 1 = k /\ k + 1 \in 0..Len(all)
      BY <1>4
    <3>2. SameOpt(m, F[k], j)
      BY <2>2
    <3>3. SameOpt(F[k], F[k + 1], j)
      BY <1>5, <3>1, <3>2 DEF SameOpt
    <3>4. SameOpt(m, F[k + 1], j)
      BY <3>2, <3>3 DEF SameOpt
    <3> QED
      BY <3>1, <3>4
  <2>3. \A k \in 0..Len(all) : k \in T
    <3> HIDE DEF T
    <3> QED
      BY <1>4, <2>1, <2>2, Loop!Induct
  <2> QED
    BY <2>3
<1> DEFINE X == [k \in 0..Len(all) |-> IF "NSID" \in F[k].extra[j].codes THEN 1 ELSE 0]
           Y == [a \in {all[k].arg : k \in 1..Len(all)} |-> 1]
<1>7. ASSUME NEW k \in 1..Len(all)
      PROVE  X[k] = IF all[k].kind = kind THEN Y[all[k].arg] ELSE X[k - 1]
  <2>1. k - 1 \in 0..Len(all) /\ k \in 0..Len(all)
    BY <1>4
  <2>2. /\ X[k] = (IF "NSID" \in F[k].extra[j].codes THEN 1 ELSE 0)
        /\ X[k - 1] = (IF "NSID" \in F[k - 1].extra[j].codes THEN 1 ELSE 0)
        /\ Y[all[k].arg] = 1
    BY <2>1
  <2>3. OneOpt(F[k - 1], j)
    BY <1>6, <2>1 DEF SameOpt
  <2> HIDE DEF X, Y
  <2> QED
    BY <1>5, <2>2, <2>3
<1>8. X[Len(all)] = IF some = <<>> THEN X[0] ELSE Y[Last(some).arg]
  <2> HIDE DEF X, Y
  <2>1. OnlySets(X, Y, all, kind)
    BY <1>7 DEF OnlySets
  <2> QED
    BY <1>0, <2>1, LastDecides
<1>9. X[Len(all)] = (IF "NSID" \in n.extra[j].codes THEN 1 ELSE 0) /\ X[0] = 0
  BY <1>4
<1>10. some # <<>> => Y[Last(some).arg] = 1
  <2>1. some # <<>> => Last(some).arg \in {all[k].arg : k \in 1..Len(all)}
    BY <1>0, LastOfKind DEF LastIs
  <2> QED
    BY <2>1
<1> HIDE DEF X, Y
<1>11. "NSID" \in n.extra[j].codes <=> some # <<>>
  BY <1>8, <1>9, <1>10
<1> QED
  BY <1>4, <1>6, <1>11

-----------------------------------------------------------------------------
(***************************************************************************)
(* set-answer, padding and NSID.                                           *)
(***************************************************************************)
LEMMA RRIsRecord ==
    ASSUME NEW type, type # "OPT", NEW owner, Len(owner) \in Nat, NEW ttl, NEW rdata \in Nat
    PROVE  IsRecord(RR(type, owner, ttl, rdata))
<1> DEFINE bytes == NameBytes(owner) + 10 + rdata
<1>1. bytes \in Nat
  BY NameBytesNat
<1>2. RR(type, owner, ttl, rdata) =
          [type |-> type, owner |-> owner, ttl |-> ttl, packs |-> TRUE, bytes |-> bytes]
  BY DEF RR
<1> HIDE DEF bytes
<1> QED
  BY <1>1, <1>2 DEF IsRecord, IsOpt

LEMMA TXTIsRecord ==
    ASSUME NEW owner, Len(owner) \in Nat, NEW ttl, NEW strings \in Seq(Nat)
    PROVE  IsRecord(TXT(owner, ttl, strings))
<1> DEFINE bytes == SumOf(strings) + Len(strings)
           rr == RR("TXT", owner, ttl, bytes)
           packs == \A i \in DOMAIN strings : strings[i] <= 255
           txt == [rr EXCEPT !.packs = packs]
<1>1. TXT(owner, ttl, strings) = txt
  BY DEF TXT
<1>2. /\ DOMAIN rr = {"type", "owner", "ttl", "packs", "bytes"} /\ rr.type = "TXT"
      /\ rr = [x \in DOMAIN rr |-> rr[x]]
      /\ rr.bytes \in Nat /\ Len(rr.owner) \in Nat
  <2>1. bytes \in Nat
    BY SumNat
  <2> HIDE DEF bytes
  <2>2. rr.owner = owner
    BY DEF RR
  <2> DEFINE type == "TXT"
  <2>3. type # "OPT"
    OBVIOUS
  <2> HIDE DEF type
  <2>4. IsRecord(RR(type, owner, ttl, bytes))
    BY <2>1, <2>3, RRIsRecord
  <2>5. rr.bytes \in Nat
    BY <2>4 DEF IsRecord, type
  <2> QED
    BY <2>2, <2>5 DEF RR
<1> HIDE DEF rr
<1>3. /\ DOMAIN txt = DOMAIN rr /\ txt.type = "TXT" /\ txt = [x \in DOMAIN txt |-> txt[x]]
      /\ txt.bytes = rr.bytes /\ txt.owner = rr.owner
  <2> HIDE DEF packs
  <2> QED
    BY <1>2
<1> HIDE DEF txt
<1> QED
  BY <1>1, <1>2, <1>3 DEF IsRecord, IsOpt

\* set-answer leaves everything but the answer, the authority and the response code.
LEMMA ReplacedMessage ==
    ASSUME NEW m, IsMessage(m), NEW rrs, IsSection(rrs), NEW n, n = Replaced(m, rrs)
    PROVE  /\ IsMessage(n) /\ SameBut({"answer", "ns", "rcode"}, m, n)
           /\ n.answer = rrs /\ n.ns = <<>> /\ n.rcode = NoError
<1> DEFINE no == NoError
           none == <<>>
<1>1. n = [m EXCEPT !.answer = rrs, !.ns = none, !.rcode = no]
  BY DEF Replaced
<1>2. IsSection(none)
  <2>1. none \in Seq({})
    OBVIOUS
  <2> QED
    BY <2>1 DEF IsSection
<1>3. no = NoError /\ none = <<>>
  OBVIOUS
<1> HIDE DEF no, none
<1>4. n = [x \in MsgFields |-> IF x = "answer" THEN rrs ELSE IF x = "ns" THEN none
                               ELSE IF x = "rcode" THEN no ELSE m[x]]
  BY <1>1 DEF IsMessage, MsgFields
<1>5. /\ n = [x \in MsgFields |-> n[x]] /\ n.answer = rrs /\ n.ns = none /\ n.rcode = no
      /\ n.extra = m.extra /\ n.qname = m.qname /\ SameBut({"answer", "ns", "rcode"}, m, n)
  BY <1>4 DEF MsgFields, SameBut
<1>6. IsMessage(n)
  BY <1>2, <1>5 DEF IsMessage
<1> QED
  BY <1>3, <1>5, <1>6

\* The strings of set-answer-txt are parts of labels.
LEMMA StringsOfOptions ==
    ASSUME NEW S, NEW options \in Seq(S), NEW strings, strings = ValidOptions(options, "set-answer-txt"),
           NEW lengths, lengths = [i \in DOMAIN strings |-> strings[i].arg]
    PROVE  lengths \in Seq(Nat) /\ \A i \in DOMAIN lengths : lengths[i] \in 0..MaxLabel
<1> DEFINE kind == "set-answer-txt"
           P == {i \in 1..Len(options) : (options[i].kind = kind /\ isValidSetOption(options[i]))}
<1>1. strings \in Seq(S) /\ Picks(strings, options, P)
  <2>1. strings = ValidOptions(options, kind)
    OBVIOUS
  <2> HIDE DEF kind
  <2> QED
    BY <2>1, OnlyOfKind
<1>2. PICK e : Enumerates(e, strings, options, P)
  BY <1>1 DEF Picks
<1>3. Len(strings) \in Nat /\ DOMAIN strings = 1..Len(strings)
  BY <1>1
<1>4. \A i \in 1..Len(strings) : strings[i].kind = kind /\ isValidSetOption(strings[i])
  BY <1>2 DEF Enumerates
<1>5. ValidArgs(kind) = 0..MaxLabel
  BY DEF ValidArgs
<1>6. \A i \in 1..Len(strings) : strings[i].arg \in 0..MaxLabel
  BY <1>4, <1>5 DEF isValidSetOption
<1> DEFINE n == Len(strings)
<1>7. n \in Nat /\ lengths = [i \in 1..n |-> strings[i].arg]
  BY <1>3
<1>8. \A i \in 1..n : strings[i].arg \in 0..MaxLabel /\ strings[i].arg \in Nat
  BY <1>6
<1> HIDE DEF n, P, kind
<1>9. lengths \in Seq(Nat) /\ DOMAIN lengths = 1..n
  BY <1>7, <1>8
<1> QED
  BY <1>7, <1>8, <1>9

\* It has records to give if it changes anything.
LEMMA SetAnswerMessage ==
    ASSUME NEW m, IsMessage(m), NEW S, NEW options \in Seq(S),
           NEW labels, Len(labels) \in Nat, NEW qtype,
           NEW n, n = applySetAnswer(m, options, labels, qtype)
    PROVE  /\ IsMessage(n) /\ SameBut({"answer", "ns", "rcode"}, m, n)
           /\ n = m \/ (n.answer # <<>> /\ n.ns = <<>> /\ n.rcode = NoError)
<1> DEFINE addresses == ValidOptions(options, "set-answer")
           strings == ValidOptions(options, "set-answer-txt")
           rrs == [i \in DOMAIN addresses |-> RR("A", labels, 0, 4)]
           lengths == [i \in DOMAIN strings |-> strings[i].arg]
           txt == TXT(labels, 0, lengths)
<1>1. addresses \in Seq(S)
  <2> DEFINE kind == "set-answer"
  <2>1. addresses = ValidOptions(options, kind)
    OBVIOUS
  <2> HIDE DEF kind
  <2> QED
    BY <2>1, OnlyOfKind
<1>2. CASE qtype = "A" /\ addresses # <<>>
  <2>1. n = Replaced(m, rrs)
    BY <1>2, Zenon DEF applySetAnswer
  <2> HIDE DEF addresses
  <2>2. /\ Len(addresses) \in Nat /\ DOMAIN addresses = 1..Len(addresses)
        /\ Len(addresses) # 0
    BY <1>1, <1>2
  <2>3. IsRecord(RR("A", labels, 0, 4))
    BY RRIsRecord
  <2>4. rrs = [i \in 1..Len(addresses) |-> rrs[i]] /\ \A i \in 1..Len(addresses) : IsRecord(rrs[i])
    BY <2>2, <2>3
  <2> HIDE DEF rrs
  <2>5. IsSection(rrs) /\ Len(rrs) # 0
    BY <2>2, <2>4, MakesSection
  <2>6. /\ IsMessage(n) /\ SameBut({"answer", "ns", "rcode"}, m, n)
        /\ n.answer = rrs /\ n.ns = <<>> /\ n.rcode = NoError
    BY <2>1, <2>5, ReplacedMessage
  <2> QED
    BY <2>5, <2>6
<1>3. CASE ~(qtype = "A" /\ addresses # <<>>) /\ qtype = "TXT" /\ strings # <<>>
  <2>1. n = Replaced(m, <<txt>>)
    BY <1>3, Zenon DEF applySetAnswer
  <2>2. IsRecord(txt)
    BY StringsOfOptions, TXTIsRecord
  <2> HIDE DEF txt
  <2>3. IsSection(<<txt>>) /\ <<txt>> # <<>>
    <3> DEFINE R == {txt}
               rrs1 == <<txt>>
    <3>1. rrs1 \in Seq(R) /\ \A rr \in R : IsRecord(rr)
      BY <2>2
    <3> HIDE DEF R, rrs1
    <3>2. IsSection(rrs1)
      BY <3>1 DEF IsSection
    <3>3. Len(<<txt>>) # 0
      OBVIOUS
    <3> QED
      BY <3>2, <3>3 DEF rrs1
  <2>4. /\ IsMessage(n) /\ SameBut({"answer", "ns", "rcode"}, m, n)
        /\ n.answer = <<txt>> /\ n.ns = <<>> /\ n.rcode = NoError
    BY <2>1, <2>3, ReplacedMessage
  <2> QED
    BY <2>3, <2>4
<1>4. CASE ~(qtype = "A" /\ addresses # <<>>) /\ ~(qtype = "TXT" /\ strings # <<>>)
  <2>1. n = m
    BY <1>4, Zenon DEF applySetAnswer
  <2> QED
    BY <2>1 DEF SameBut
<1> QED
  BY <1>2, <1>3, <1>4

-----------------------------------------------------------------------------
\* setednspad only changes the additional section, and adds only a PADDING option to an
\* OPT record that is there.
LEMMA PadTarget ==
    ASSUME NEW S, NEW options \in Seq(S), ValidOptions(options, "setednspad") # <<>>
    PROVE  Last(ValidOptions(options, "setednspad")).arg \in Nat
<1> DEFINE kind == "setednspad"
           all == ValidIn(options)
           targets == ValidOptions(options, kind)
<1>1. targets # <<>> /\ ValidArgs(kind) \subseteq Nat
  BY DEF ValidArgs, minSizeN, maxSizeN
<1> HIDE DEF kind
<1>2. (\A i \in 1..Len(all) : isValidSetOption(all[i])) /\ LastIs(all, kind, targets)
  <2> HIDE DEF all, targets
  <2>1. all = ValidIn(options) /\ targets = ValidOptions(options, kind)
    BY DEF all, targets
  <2> QED
    BY <2>1, LastOfKind
<1> HIDE DEF all, targets
<1>3. PICK j \in 1..Len(all) : all[j] = Last(targets) /\ all[j].kind = kind
  BY <1>1, <1>2 DEF LastIs
<1>4. Last(targets).arg \in Nat
  BY <1>1, <1>2, <1>3 DEF isValidSetOption
<1> QED
  BY <1>4 DEF targets, kind

LEMMA PadCases ==
    ASSUME NEW m, IsMessage(m), NEW S, NEW options \in Seq(S), NEW n, n = applySetEdnsPad(m, options)
    PROVE  \/ n = m \/ n = EnsureOpt(m)
           \/ \E need \in Nat : n = AddOption(EnsureOpt(m), "PADDING", need)
<1> DEFINE padded == EnsureOpt(m)
           targets == ValidOptions(options, "setednspad")
           need == Last(targets).arg - Size(padded) - 4
<1>1. n = IF targets = <<>> THEN m
          ELSE IF Packs(padded) /\ need > 0 THEN AddOption(padded, "PADDING", need) ELSE padded
  BY Zenon DEF applySetEdnsPad
<1>2. targets # <<>> => Last(targets).arg \in Nat
  BY PadTarget
<1>3. Size(padded) \in Nat
  BY EnsureOptHas, SizeNat
<1>4. targets # <<>> /\ need > 0 => need \in Nat
  <2> HIDE DEF targets, padded
  <2> QED
    BY <1>2, <1>3
<1> HIDE DEF targets, need
<1> QED
  BY <1>1, <1>4

LEMMA EdnsPadMessage ==
    ASSUME NEW m, IsMessage(m), NEW S, NEW options \in Seq(S), NEW n, n = applySetEdnsPad(m, options)
    PROVE  IsMessage(n) /\ SameBut({"extra"}, m, n)
<1> DEFINE padded == EnsureOpt(m)
<1>1. n = m \/ n = padded \/ \E need \in Nat : n = AddOption(padded, "PADDING", need)
  BY PadCases
<1>2. IsMessage(padded) /\ HasOpt(padded) /\ SameBut({"extra"}, m, padded)
  BY EnsureOptHas
<1> HIDE DEF padded
<1>3. CASE n = m
  BY <1>3 DEF SameBut
<1>4. CASE n = padded
  BY <1>2, <1>4
<1>5. CASE \E need \in Nat : n = AddOption(padded, "PADDING", need)
  <2>1. IsMessage(n) /\ SameBut({"extra"}, padded, n)
    BY <1>2, <1>5, AddOptionToLast
  <2> QED
    BY <1>2, <2>1 DEF SameBut
<1> QED
  BY <1>1, <1>3, <1>4, <1>5

LEMMA EdnsPadOpt ==
    ASSUME NEW m, IsMessage(m), NEW j, OneOpt(m, j), NEW S, NEW options \in Seq(S),
           NEW n, n = applySetEdnsPad(m, options)
    PROVE  /\ SameOpt(m, n, j)
           /\ "NSID" \in n.extra[j].codes <=> "NSID" \in m.extra[j].codes
<1> DEFINE padding == "PADDING"
<1>1. EnsureOpt(m) = m
  BY OneOptIndex
<1>2. n = m \/ \E need \in Nat : n = AddOption(m, padding, need)
  BY <1>1, PadCases
<1>3. padding # "NSID"
  OBVIOUS
<1> HIDE DEF padding
<1>4. CASE n = m
  BY <1>4 DEF SameOpt
<1>5. CASE \E need \in Nat : n = AddOption(m, padding, need)
  <2>1. SameOpt(m, n, j) /\ n.extra[j].codes = m.extra[j].codes \cup {padding}
    BY <1>5, OneOptMore
  <2> QED
    BY <1>3, <2>1
<1> QED
  BY <1>2, <1>4, <1>5

\* DefaultNsid adds an NSID to the OPT record of a reply that is not BADVERS.
LEMMA DefaultNsidMessage ==
    ASSUME NEW m, IsMessage(m), NEW length \in Nat, NEW n, n = DefaultNsid(m, length)
    PROVE  IsMessage(n) /\ SameBut({"extra"}, m, n)
<1>1. CASE n = m
  BY <1>1 DEF SameBut
<1>2. CASE HasOpt(m) /\ n = AddOption(m, "NSID", length)
  BY <1>2, AddOptionToLast
<1> QED
  BY <1>1, <1>2 DEF DefaultNsid

LEMMA DefaultNsidOpt ==
    ASSUME NEW m, IsMessage(m), NEW j, OneOpt(m, j), m.rcode # BadVers, NEW length \in Nat,
           NEW n, n = DefaultNsid(m, length)
    PROVE  SameOpt(m, n, j) /\ "NSID" \in n.extra[j].codes
<1> DEFINE nsid == "NSID"
<1>1. HasOpt(m) /\ OptOf(m) = m.extra[j]
  BY OneOptIndex DEF OptOf
<1>2. CASE nsid \in m.extra[j].codes
  <2>1. n = m
    BY <1>1, <1>2 DEF DefaultNsid
  <2> QED
    BY <1>2, <2>1 DEF SameOpt
<1>3. CASE nsid \notin m.extra[j].codes
  <2>1. n = AddOption(m, nsid, length)
    BY <1>1, <1>3 DEF DefaultNsid
  <2> HIDE DEF nsid
  <2>2. SameOpt(m, n, j) /\ n.extra[j].codes = m.extra[j].codes \cup {nsid}
    BY <2>1, OneOptMore
  <2> QED
    BY <2>2 DEF nsid
<1> QED
  BY <1>2, <1>3

-----------------------------------------------------------------------------
(***************************************************************************)
(* Dropping records: the OPT records, and the last ones.                   *)
(***************************************************************************)
LEMMA OnlyNotOpt ==
    ASSUME NEW S, NEW s \in Seq(S)
    PROVE  /\ Only(s, NotOpt) \in Seq(S)
           /\ Picks(Only(s, NotOpt), s, {i \in 1..Len(s) : NotOpt(s[i])})
<1> DEFINE P == {i \in 1..Len(s) : NotOpt(s[i])}
           IsTable(f) ==
               f = [I \in SUBSET (DOMAIN s) |->
                       IF I = {} THEN <<>>
                       ELSE IF NotOpt(s[Max(I)])
                            THEN Append(f[I \ {Max(I)}], s[Max(I)])
                            ELSE f[I \ {Max(I)}]]
           chosen == CHOOSE f : IsTable(f)
<1>1. DOMAIN s = 1..Len(s) /\ Len(s) \in Nat /\ P \in SUBSET (1..Len(s))
  OBVIOUS
<1>2. ASSUME NEW I \in SUBSET (DOMAIN s), I # {}
      PROVE  Max(I) \in P <=> NotOpt(s[Max(I)])
  <2>1. Max(I) \in 1..Len(s)
    BY <1>1, <1>2, MaxOfIndices
  <2> QED
    BY <2>1
<1>3. Only(s, NotOpt) = chosen[DOMAIN s]
  BY Zenon DEF Only, FoldLeft, MapThenFoldSet
<1> HIDE DEF P
<1>4. \A f : IsTable(f) <=> IsPickTable(f, s, P)
  BY <1>2, Zenon DEF IsPickTable
<1>5. IsPickTable(chosen, s, P)
  BY <1>4, PickTableExists
<1> HIDE DEF chosen, IsTable
<1> QED
  BY <1>1, <1>3, <1>5, PickTablePicks DEF P

LEMMA OnlyOpt ==
    ASSUME NEW S, NEW s \in Seq(S)
    PROVE  /\ Only(s, IsOpt) \in Seq(S)
           /\ Picks(Only(s, IsOpt), s, {i \in 1..Len(s) : IsOpt(s[i])})
<1> DEFINE P == {i \in 1..Len(s) : IsOpt(s[i])}
           IsTable(f) ==
               f = [I \in SUBSET (DOMAIN s) |->
                       IF I = {} THEN <<>>
                       ELSE IF IsOpt(s[Max(I)])
                            THEN Append(f[I \ {Max(I)}], s[Max(I)])
                            ELSE f[I \ {Max(I)}]]
           chosen == CHOOSE f : IsTable(f)
<1>1. DOMAIN s = 1..Len(s) /\ Len(s) \in Nat /\ P \in SUBSET (1..Len(s))
  OBVIOUS
<1>2. ASSUME NEW I \in SUBSET (DOMAIN s), I # {}
      PROVE  Max(I) \in P <=> IsOpt(s[Max(I)])
  <2>1. Max(I) \in 1..Len(s)
    BY <1>1, <1>2, MaxOfIndices
  <2> QED
    BY <2>1
<1>3. Only(s, IsOpt) = chosen[DOMAIN s]
  BY Zenon DEF Only, FoldLeft, MapThenFoldSet
<1> HIDE DEF P
<1>4. \A f : IsTable(f) <=> IsPickTable(f, s, P)
  BY <1>2, Zenon DEF IsPickTable
<1>5. IsPickTable(chosen, s, P)
  BY <1>4, PickTableExists
<1> HIDE DEF chosen, IsTable
<1> QED
  BY <1>1, <1>3, <1>5, PickTablePicks DEF P


\* A reply with one OPT record has one in Opts.
LEMMA OneOptOnly ==
    ASSUME NEW m, IsMessage(m), NEW j, OneOpt(m, j), NEW opts, opts = Only(m.extra, IsOpt)
    PROVE  Len(opts) = 1
<1> DEFINE P == {i \in 1..Len(m.extra) : IsOpt(m.extra[i])}
<1>1. PICK R : m.extra \in Seq(R)
  BY DEF IsMessage, IsSection
<1>2. opts \in Seq(R) /\ Picks(opts, m.extra, P)
  BY <1>1, OnlyOpt
<1>3. P = {j}
  BY DEF OneOpt
<1>4. PICK e : Enumerates(e, opts, m.extra, {j})
  BY <1>2, <1>3 DEF Picks
<1>5. Len(opts) \in Nat
  BY <1>2
<1>6. Len(opts) # 0
  BY <1>4 DEF Enumerates
<1>7. ~(Len(opts) > 1)
  <2> SUFFICES ASSUME Len(opts) > 1 PROVE FALSE
    OBVIOUS
  <2>1. 1 \in 1..Len(opts) /\ 2 \in 1..Len(opts)
    BY <1>5
  <2>2. e[1] = j /\ e[2] = j /\ e[1] < e[2] /\ j \in 1..Len(m.extra)
    BY <1>4, <2>1 DEF Enumerates, OneOpt
  <2> QED
    BY <2>2
<1>8. \A n \in Nat : n # 0 /\ ~(n > 1) => n = 1
  OBVIOUS
<1> QED
  BY <1>5, <1>6, <1>7, <1>8, Zenon

\* Without its OPT records, a section is a section without OPT records.
LEMMA BareSection ==
    ASSUME NEW rrs, IsSection(rrs), NEW kept, kept = Only(rrs, NotOpt)
    PROVE  /\ IsSection(kept)
           /\ \A i \in 1..Len(kept) : ~IsOpt(kept[i]) /\ kept[i] \in Elements(rrs)
           /\ kept # <<>> => rrs # <<>>
<1> DEFINE P == {i \in 1..Len(rrs) : NotOpt(rrs[i])}
<1>1. PICK R : rrs \in Seq(R) /\ \A rr \in R : IsRecord(rr)
  BY DEF IsSection
<1>2. kept \in Seq(R) /\ Picks(kept, rrs, P)
  BY <1>1, OnlyNotOpt
<1>3. PICK e : Enumerates(e, kept, rrs, P)
  BY <1>2 DEF Picks
<1>4. \A i \in 1..Len(kept) : e[i] \in P /\ kept[i] = rrs[e[i]]
  BY <1>3 DEF Enumerates
<1>5. \A i \in 1..Len(kept) : ~IsOpt(kept[i]) /\ kept[i] \in Elements(rrs)
  BY <1>4 DEF NotOpt, Elements
<1>6. ASSUME kept # <<>>
      PROVE  rrs # <<>>
  <2>1. 1 \in 1..Len(kept)
    BY <1>2, <1>6
  <2>2. e[1] \in 1..Len(rrs)
    BY <1>4, <2>1
  <2> QED
    BY <2>2
<1>7. IsSection(kept)
  BY <1>1, <1>2 DEF IsSection
<1> QED
  BY <1>5, <1>6, <1>7

-----------------------------------------------------------------------------
IsPrefixOf(kept, rrs) ==
    /\ Len(kept) <= Len(rrs)
    /\ \A i \in 1..Len(kept) : kept[i] = rrs[i]

\* Without its last records, a section is a prefix of itself.
LEMMA DropLastSection ==
    ASSUME NEW rrs, IsSection(rrs), NEW k \in 0..Len(rrs), NEW kept, kept = DropLast(rrs, k)
    PROVE  IsSection(kept) /\ Len(kept) = Len(rrs) - k /\ IsPrefixOf(kept, rrs)
<1>1. PICK R : rrs \in Seq(R) /\ \A rr \in R : IsRecord(rr)
  BY DEF IsSection
<1>2. Len(rrs) - k \in 0..Len(rrs)
  BY <1>1
<1>3. /\ kept \in Seq(R) /\ Len(kept) = Len(rrs) - k
      /\ \A i \in 1..Len(kept) : kept[i] = rrs[i]
  BY <1>1, <1>2 DEF DropLast
<1>4. IsSection(kept)
  BY <1>1, <1>3 DEF IsSection
<1>5. Len(kept) <= Len(rrs)
  BY <1>1, <1>3
<1> QED
  BY <1>3, <1>4, <1>5 DEF IsPrefixOf

LEMMA LeastOfTwo ==
    ASSUME NEW a \in Nat, NEW b \in Nat
    PROVE  Least(a, b) \in 0..a /\ Least(a, b) \in 0..b /\ (Least(a, b) = a \/ Least(a, b) = b)
  BY DEF Least

Records(m) == Len(m.answer) + Len(m.ns) + Len(m.extra)
\* n lacks records of m, from the end on.
Fewer(m, n) ==
    /\ IsMessage(n) /\ SameBut({"tc", "answer", "ns", "extra"}, m, n)
    /\ IsPrefixOf(n.answer, m.answer) /\ IsPrefixOf(n.ns, m.ns) /\ IsPrefixOf(n.extra, m.extra)

\* n is m without its last c records.
Drops(m, c, n) ==
    /\ Fewer(m, n) /\ n.tc = m.tc
    /\ c = 0 => n = m
    /\ c = Records(m) => n.answer = <<>> /\ n.ns = <<>> /\ n.extra = <<>>
    /\ c > 0 /\ m.answer # <<>> => Len(n.answer) < Len(m.answer)
    /\ c > 0 /\ m.answer = <<>> /\ m.ns # <<>> => Len(n.ns) < Len(m.ns)

\* Dropping takes from the answer first, then from the authority.
LEMMA DroppedMessage ==
    ASSUME NEW m, IsMessage(m), NEW c \in 0..Records(m), NEW n, n = Dropped(m, c)
    PROVE  Drops(m, c, n)
<1> DEFINE a == Least(c, Len(m.answer))
           b == Least(c - a, Len(m.ns))
           d == c - a - b
           answer == DropLast(m.answer, a)
           ns == DropLast(m.ns, b)
           extra == DropLast(m.extra, d)
<1>1. /\ Len(m.answer) \in Nat /\ Len(m.ns) \in Nat /\ Len(m.extra) \in Nat
      /\ IsSection(m.answer) /\ IsSection(m.ns) /\ IsSection(m.extra)
  BY Section DEF IsMessage
<1> DEFINE inA == Len(m.answer)
           inN == Len(m.ns)
           inX == Len(m.extra)
<1>0. inA \in Nat /\ inN \in Nat /\ inX \in Nat /\ Records(m) = inA + inN + inX
  BY <1>1 DEF Records
<1>2. c \in Nat /\ c <= inA + inN + inX
  <2> HIDE DEF inA, inN, inX
  <2> QED
    BY <1>0
<1>3. /\ a \in 0..c /\ a \in 0..Len(m.answer) /\ (a = c \/ a = Len(m.answer))
      /\ b \in 0..(c - a) /\ b \in 0..Len(m.ns) /\ (b = c - a \/ b = Len(m.ns))
  <2>1. a \in 0..c /\ a \in 0..Len(m.answer) /\ (a = c \/ a = Len(m.answer))
    BY <1>1, <1>2, LeastOfTwo
  <2> HIDE DEF a
  <2>2. c - a \in Nat
    BY <1>2, <2>1
  <2>3. b \in 0..(c - a) /\ b \in 0..Len(m.ns) /\ (b = c - a \/ b = Len(m.ns))
    BY <1>1, <2>2, LeastOfTwo
  <2> QED
    BY <2>1, <2>3
<1>4. n = [m EXCEPT !.answer = answer, !.ns = ns, !.extra = extra]
  BY DEF Dropped
<1> HIDE DEF a, b
<1>5. d \in 0..inX
  <2>1. /\ a \in 0..c /\ a \in 0..inA /\ (a = c \/ a = inA)
        /\ b \in 0..(c - a) /\ b \in 0..inN /\ (b = c - a \/ b = inN)
    BY <1>3
  <2> HIDE DEF inA, inN, inX
  <2> QED
    BY <1>0, <1>2, <2>1
<1> HIDE DEF d
<1>6. IsSection(answer) /\ Len(answer) = Len(m.answer) - a /\ IsPrefixOf(answer, m.answer)
  BY <1>1, <1>3, DropLastSection
<1>7. IsSection(ns) /\ Len(ns) = Len(m.ns) - b /\ IsPrefixOf(ns, m.ns)
  BY <1>1, <1>3, DropLastSection
<1>8. IsSection(extra) /\ Len(extra) = Len(m.extra) - d /\ IsPrefixOf(extra, m.extra)
  BY <1>1, <1>5, DropLastSection
<1> HIDE DEF answer, ns, extra
<1>9. n = [x \in MsgFields |-> IF x = "answer" THEN answer ELSE IF x = "ns" THEN ns
                               ELSE IF x = "extra" THEN extra ELSE m[x]]
  BY <1>4 DEF IsMessage, MsgFields
<1>10. /\ n = [x \in MsgFields |-> n[x]] /\ n.answer = answer /\ n.ns = ns /\ n.extra = extra
       /\ n.tc = m.tc /\ SameBut({"tc", "answer", "ns", "extra"}, m, n)
  BY <1>9 DEF SameBut, MsgFields
<1>11. Fewer(m, n)
  BY <1>6, <1>7, <1>8, <1>10 DEF Fewer, IsMessage
<1>12. ASSUME c = 0
       PROVE  n = m
  <2>1. a = 0 /\ b = 0 /\ d = 0
    BY <1>1, <1>3, <1>12 DEF d
  <2>2. Len(answer) = Len(m.answer) /\ Len(ns) = Len(m.ns) /\ Len(extra) = Len(m.extra)
    BY <1>1, <1>6, <1>7, <1>8, <2>1
  <2>3. answer = m.answer /\ ns = m.ns /\ extra = m.extra
    <3>1. \A r, s : IsSection(r) /\ IsSection(s) /\ Len(r) = Len(s) /\ IsPrefixOf(r, s) => r = s
      <4> TAKE r, s
      <4> HAVE IsSection(r) /\ IsSection(s) /\ Len(r) = Len(s) /\ IsPrefixOf(r, s)
      <4>1. r = [i \in 1..Len(r) |-> r[i]] /\ s = [i \in 1..Len(r) |-> s[i]]
        BY Section
      <4>2. \A i \in 1..Len(r) : r[i] = s[i]
        BY DEF IsPrefixOf
      <4> QED
        BY <4>1, <4>2
    <3> QED
      BY <1>1, <1>6, <1>7, <1>8, <2>2, <3>1
  <2> QED
    BY <1>9, <2>3 DEF IsMessage, MsgFields
<1>13. ASSUME c = Records(m)
       PROVE  n.answer = <<>> /\ n.ns = <<>> /\ n.extra = <<>>
  <2>1. a = Len(m.answer) /\ b = Len(m.ns) /\ d = Len(m.extra)
    <3>1. /\ a \in 0..c /\ a \in 0..inA /\ (a = c \/ a = inA)
          /\ b \in 0..(c - a) /\ b \in 0..inN /\ (b = c - a \/ b = inN)
      BY <1>3
    <3>2. a = inA /\ b = inN /\ c - a - b = inX
      <4> HIDE DEF inA, inN, inX
      <4> QED
        BY <1>0, <1>2, <1>13, <3>1
    <3> QED
      BY <3>2 DEF d
  <2>2. Len(answer) = 0 /\ Len(ns) = 0 /\ Len(extra) = 0
    BY <1>1, <1>6, <1>7, <1>8, <2>1
  <2>3. \A r : IsSection(r) /\ Len(r) = 0 => r = <<>>
    BY DEF IsSection
  <2> QED
    BY <1>6, <1>7, <1>8, <1>10, <2>2, <2>3
<1>14. ASSUME c > 0, m.answer # <<>>
       PROVE  Len(n.answer) < Len(m.answer)
  <2>1. Len(m.answer) # 0
    BY <1>1, <1>14 DEF IsSection
  <2>2. a > 0
    BY <1>1, <1>2, <1>3, <1>14, <2>1
  <2> QED
    BY <1>1, <1>3, <1>6, <1>10, <2>2
<1>15. ASSUME c > 0, m.answer = <<>>, m.ns # <<>>
       PROVE  Len(n.ns) < Len(m.ns)
  <2>1. Len(m.ns) # 0 /\ Len(m.answer) = 0
    BY <1>1, <1>15 DEF IsSection
  <2>2. b > 0
    BY <1>1, <1>2, <1>3, <1>15, <2>1
  <2> QED
    BY <1>1, <1>3, <1>7, <1>10, <2>2
<1> QED
  BY <1>10, <1>11, <1>12, <1>13, <1>14, <1>15 DEF Drops

SameSections(m, n) ==
    m.answer = n.answer /\ m.ns = n.ns /\ m.extra = n.extra /\ m.qname = n.qname

\* The size of a message depends on its sections and its question alone.
LEMMA SameSize ==
    ASSUME NEW m, NEW n, SameSections(m, n)
    PROVE  Size(m) = Size(n)
  BY DEF Size, SameSections

\* TC is a bit of the header.
LEMMA MarkedMessage ==
    ASSUME NEW m, IsMessage(m), NEW n, n = [m EXCEPT !.tc = TRUE]
    PROVE  IsMessage(n) /\ SameBut({"tc"}, m, n) /\ n.tc /\ SameSections(m, n)
<1>1. /\ n = [x \in MsgFields |-> n[x]] /\ n.answer = m.answer /\ n.ns = m.ns
      /\ n.extra = m.extra /\ n.qname = m.qname /\ n.tc /\ SameBut({"tc"}, m, n)
  BY DEF SameBut, IsMessage, MsgFields
<1>2. IsMessage(n)
  BY <1>1 DEF IsMessage
<1> QED
  BY <1>1, <1>2 DEF SameSections

LEMMA DroppedSections ==
    ASSUME NEW m, IsMessage(m), NEW n, IsMessage(n), SameSections(m, n), NEW c
    PROVE  SameSections(Dropped(m, c), Dropped(n, c))
<1> DEFINE a == Least(c, Len(m.answer))
           b == Least(c - a, Len(m.ns))
           answer == DropLast(m.answer, a)
           ns == DropLast(m.ns, b)
           extra == DropLast(m.extra, c - a - b)
<1>1. /\ Dropped(m, c) = [m EXCEPT !.answer = answer, !.ns = ns, !.extra = extra]
      /\ Dropped(n, c) = [n EXCEPT !.answer = answer, !.ns = ns, !.extra = extra]
  BY DEF Dropped, SameSections
<1> HIDE DEF answer, ns, extra
<1> QED
  BY <1>1 DEF IsMessage, MsgFields, SameSections

\* The smallest message of the question alone.
BareSize(m) == 12 + NameBytes(m.qname) + 4

LEMMA EmptySize ==
    ASSUME NEW m, m.answer = <<>>, m.ns = <<>>, m.extra = <<>>, NameBytes(m.qname) \in Nat
    PROVE  Size(m) = BareSize(m)
  BY NoBytes DEF Size, BareSize

LEMMA RecordsNat ==
    ASSUME NEW m, IsMessage(m)
    PROVE  Records(m) \in Nat
<1> DEFINE a == Len(m.answer)
           b == Len(m.ns)
           c == Len(m.extra)
<1>1. a \in Nat /\ b \in Nat /\ c \in Nat
  BY Section DEF IsMessage
<1>2. Records(m) = a + b + c
  BY DEF Records
<1> HIDE DEF a, b, c
<1> QED
  BY <1>1, <1>2

\* truncateToUDPSize: a reply that has room for its question fits, or does not pack; if
\* it was cut it says TC and has lost a record of its answer, or of its authority if the
\* answer is empty.
LEMMA TruncatedMessage ==
    ASSUME NEW m, IsMessage(m), NEW max \in Nat, NameBytes(m.qname) \in Nat, BareSize(m) <= max,
           NEW n, n = truncateToUDPSize(m, max)
    PROVE  /\ Fewer(m, n)
           /\ Packs(m) => Size(n) <= max
           /\ n = m \/ ( /\ Packs(m) /\ n.tc
                         /\ m.answer # <<>> => Len(n.answer) < Len(m.answer)
                         /\ m.answer = <<>> /\ m.ns # <<>> => Len(n.ns) < Len(m.ns))
<1>1. CASE ~Packs(m) \/ Size(m) <= max
  <2>1. n = m
    BY <1>1 DEF truncateToUDPSize
  <2>2. Fewer(m, m)
    BY Section DEF Fewer, SameBut, IsPrefixOf, IsMessage
  <2> QED
    BY <1>1, <2>1, <2>2
<1>2. CASE Packs(m) /\ ~(Size(m) <= max)
  <2> DEFINE fits(k) == k = Records(m) \/ Size(Dropped(m, k)) <= max
             smallest(k) == fits(k) /\ \A j \in 0..(k - 1) : ~fits(j)
             count == CHOOSE k \in 0..Records(m) : smallest(k)
             marked == [m EXCEPT !.tc = TRUE]
  <2>1. n = Dropped(marked, count)
    BY <1>2, Zenon DEF truncateToUDPSize, Records
  <2>2. Records(m) \in Nat
    BY RecordsNat
  <2>3. \E k \in 0..Records(m) : smallest(k)
    <3> DEFINE T == {k \in 0..Records(m) : fits(k)}
    <3>1. T \in SUBSET Nat /\ T # {}
      <4>1. Records(m) \in T
        BY <2>2
      <4> HIDE DEF fits
      <4> QED
        BY <4>1
    <3>2. PICK k \in T : \A j \in T : k <= j
      <4> HIDE DEF T
      <4> QED
        BY <3>1, Bytes!LeastNumber
    <3>3. k \in 0..Records(m) /\ fits(k)
      BY <3>2
    <3>4. ASSUME NEW j \in 0..(k - 1)
          PROVE  ~fits(j)
      <4>1. j \in 0..Records(m) /\ ~(k <= j)
        BY <2>2, <3>3
      <4>2. j \notin T
        BY <3>2, <4>1
      <4> HIDE DEF fits
      <4> QED
        BY <4>1, <4>2
    <3> HIDE DEF fits
    <3> QED
      BY <3>3, <3>4
  <2>4. count \in 0..Records(m) /\ smallest(count)
    <3> HIDE DEF smallest
    <3> QED
      BY <2>3, Zenon
  <2>5. count \in 0..Records(m) /\ (count = Records(m) \/ Size(Dropped(m, count)) <= max)
    BY <2>4
  <2>6. IsMessage(marked) /\ SameBut({"tc"}, m, marked) /\ marked.tc /\ SameSections(m, marked)
    BY MarkedMessage
  <2> HIDE DEF count, marked
  <2>7. Records(marked) = Records(m)
    BY <2>6 DEF SameSections, Records
  <2>8. /\ Fewer(marked, n) /\ n.tc = marked.tc
        /\ count = Records(m) => n.answer = <<>> /\ n.ns = <<>> /\ n.extra = <<>>
        /\ count > 0 /\ marked.answer # <<>> => Len(n.answer) < Len(marked.answer)
        /\ count > 0 /\ marked.answer = <<>> /\ marked.ns # <<>> => Len(n.ns) < Len(marked.ns)
    <3>1. Drops(marked, count, n)
      BY <2>1, <2>5, <2>6, <2>7, DroppedMessage
    <3> QED
      BY <2>7, <3>1 DEF Drops
  <2>9. Fewer(m, n)
    BY <2>6, <2>8 DEF Fewer, SameBut, SameSections
  <2>10. Size(n) = Size(Dropped(m, count))
    BY <2>1, <2>6, DroppedSections, SameSize
  <2>11. n.qname = m.qname
    BY <2>9 DEF Fewer, SameBut, MsgFields
  <2>12. Size(n) <= max
    <3>1. CASE count = Records(m)
      <4>1. Size(n) = BareSize(n) /\ BareSize(n) = BareSize(m)
        BY <2>8, <2>11, <3>1, EmptySize DEF BareSize
      <4> QED
        BY <4>1
    <3>2. CASE Size(Dropped(m, count)) <= max
      BY <2>10, <3>2
    <3> QED
      BY <2>5, <3>1, <3>2
  <2>13. count > 0
    <3> SUFFICES ASSUME count = 0 PROVE FALSE
      BY <2>2, <2>5
    <3>1. Dropped(m, count) = m
      BY <2>2, <2>5, DroppedMessage DEF Drops
    <3>2. Size(n) = Size(m)
      BY <2>10, <3>1
    <3> QED
      BY <1>2, <2>12, <3>2
  <2> QED
    BY <1>2, <2>6, <2>8, <2>9, <2>12, <2>13 DEF SameSections
<1> QED
  BY <1>1, <1>2

\* set-noedns: no OPT record, at most 512 bytes, and TC if records were dropped.
LEMMA WithoutEdnsMessage ==
    ASSUME NEW m, IsMessage(m), NameBytes(m.qname) \in 0..255, NEW n, n = WithoutEdns(m)
    PROVE  /\ IsMessage(n) /\ SameBut({"tc", "answer", "ns", "extra"}, m, n) /\ ~HasOpt(n)
           /\ IsPrefixOf(n.answer, m.answer) /\ IsPrefixOf(n.ns, m.ns)
           /\ \A i \in 1..Len(n.extra) : n.extra[i] \in Elements(m.extra)
           /\ Packs(n) => Size(n) <= 512
           /\ \/ n.tc = m.tc /\ n.answer = m.answer /\ n.ns = m.ns
              \/ /\ n.tc /\ Size(n) <= 512
                 /\ m.answer # <<>> => Len(n.answer) < Len(m.answer)
                 /\ m.answer = <<>> /\ m.ns # <<>> => Len(n.ns) < Len(m.ns)
<1> DEFINE kept == Only(m.extra, NotOpt)
           bare == [m EXCEPT !.extra = kept]
           max == 512
<1>1. /\ IsSection(kept)
      /\ \A i \in 1..Len(kept) : ~IsOpt(kept[i]) /\ kept[i] \in Elements(m.extra)
  BY BareSection DEF IsMessage
<1>2. n = truncateToUDPSize(bare, max)
  BY DEF WithoutEdns
<1> HIDE DEF kept
<1>3. /\ bare = [x \in MsgFields |-> bare[x]] /\ bare.answer = m.answer /\ bare.ns = m.ns
      /\ bare.extra = kept /\ bare.qname = m.qname /\ bare.tc = m.tc
      /\ SameBut({"extra"}, m, bare)
  BY DEF SameBut, IsMessage, MsgFields
<1> HIDE DEF bare
<1>4. IsMessage(bare)
  BY <1>1, <1>3 DEF IsMessage
<1>5. /\ max \in Nat /\ NameBytes(bare.qname) \in Nat /\ BareSize(bare) <= max /\ max = 512
  BY <1>3 DEF BareSize
<1> HIDE DEF max
<1>6. /\ Fewer(bare, n)
      /\ Packs(bare) => Size(n) <= max
      /\ n = bare \/ ( /\ Packs(bare) /\ n.tc
                       /\ bare.answer # <<>> => Len(n.answer) < Len(bare.answer)
                       /\ bare.answer = <<>> /\ bare.ns # <<>> => Len(n.ns) < Len(bare.ns))
  BY <1>2, <1>4, <1>5, TruncatedMessage
<1>7. /\ IsMessage(n) /\ SameBut({"tc", "answer", "ns", "extra"}, m, n)
      /\ IsPrefixOf(n.answer, m.answer) /\ IsPrefixOf(n.ns, m.ns) /\ IsPrefixOf(n.extra, kept)
  BY <1>3, <1>6 DEF Fewer, SameBut
<1>8. ~HasOpt(n) /\ \A i \in 1..Len(n.extra) : n.extra[i] \in Elements(m.extra)
  <2>1. DOMAIN n.extra = 1..Len(n.extra) /\ Len(n.extra) \in Nat /\ Len(kept) \in Nat
    BY <1>1, <1>7, Section DEF IsMessage
  <2>2. \A i \in 1..Len(n.extra) : i \in 1..Len(kept) /\ n.extra[i] = kept[i]
    BY <1>7, <2>1 DEF IsPrefixOf
  <2> QED
    BY <1>1, <2>1, <2>2 DEF HasOpt
<1>9. Packs(n) => Packs(bare)
  BY <1>6
<1> QED
  BY <1>3, <1>5, <1>6, <1>7, <1>8, <1>9

-----------------------------------------------------------------------------
(***************************************************************************)
(* Handle: the shape of what it returns.                                   *)
(***************************************************************************)
LEMMA EmptySection == IsSection(<<>>) /\ Len(<<>>) = 0 /\ Elements(<<>>) = {}
<1> DEFINE R == {}
<1>1. <<>> \in Seq(R) /\ Len(<<>>) = 0 /\ \A r \in R : IsRecord(r)
  OBVIOUS
<1> HIDE DEF R
<1> QED
  BY <1>1 DEF IsSection, Elements

LEMMA OneRecord ==
    ASSUME NEW rr, IsRecord(rr), NEW rrs, rrs = <<rr>>
    PROVE  IsSection(rrs) /\ Len(rrs) = 1 /\ Elements(rrs) = {rr}
<1> DEFINE R == {rr}
<1>1. rrs \in Seq(R) /\ Len(rrs) = 1 /\ rrs[1] = rr /\ \A r \in R : IsRecord(r)
  OBVIOUS
<1> HIDE DEF R
<1> QED
  BY <1>1 DEF IsSection, Elements

LEMMA JoinedSections ==
    ASSUME NEW a, IsSection(a), NEW b, IsSection(b), NEW c, c = a \o b
    PROVE  /\ IsSection(c) /\ Len(c) = Len(a) + Len(b) /\ (a # <<>> => c # <<>> /\ c[1] = a[1])
           /\ Elements(c) = Elements(a) \cup Elements(b)
<1>1. PICK A : a \in Seq(A) /\ \A r \in A : IsRecord(r)
  BY DEF IsSection
<1>2. PICK B : b \in Seq(B) /\ \A r \in B : IsRecord(r)
  BY DEF IsSection
<1> DEFINE C == A \cup B
<1>3. a \in Seq(C) /\ b \in Seq(C) /\ \A r \in C : IsRecord(r)
  BY <1>1, <1>2
<1> HIDE DEF C
<1>4. c \in Seq(C) /\ Len(c) = Len(a) + Len(b)
  BY <1>3
<1>5. a # <<>> => c # <<>> /\ c[1] = a[1]
  <2>1. Len(a) \in Nat /\ Len(b) \in Nat /\ (a # <<>> => Len(a) > 0)
    BY <1>3
  <2>2. a # <<>> => c # <<>>
    BY <1>4, <2>1
  <2>3. \A i \in 1..Len(a) : c[i] = a[i]
    BY <1>3
  <2> QED
    BY <2>1, <2>2, <2>3
<1>6. Elements(c) = Elements(a) \cup Elements(b)
  <2> DEFINE n == Len(a)
             k == Len(b)
  <2>1. /\ n \in Nat /\ k \in Nat /\ Len(c) = n + k
        /\ \A i \in 1..n : c[i] = a[i]
        /\ \A i \in 1..k : c[n + i] = b[i]
    BY <1>3
  <2>2. /\ Elements(a) = {a[i] : i \in 1..n} /\ Elements(b) = {b[i] : i \in 1..k}
        /\ Elements(c) = {c[i] : i \in 1..(n + k)}
    BY <2>1 DEF Elements
  <2> HIDE DEF n, k
  <2>3. ASSUME NEW i \in 1..(n + k)
        PROVE  i \in 1..n \/ \E j \in 1..k : i = n + j
    <3>1. i \in 1..n \/ (i - n \in 1..k /\ i = n + (i - n))
      BY <2>1
    <3> QED
      BY <3>1
  <2>4. \A i \in 1..n : i \in 1..(n + k)
    BY <2>1
  <2>5. \A j \in 1..k : n + j \in 1..(n + k)
    BY <2>1
  <2>6. ASSUME NEW rr \in Elements(c)
        PROVE  rr \in Elements(a) \cup Elements(b)
    <3>1. PICK i \in 1..(n + k) : rr = c[i]
      BY <2>2
    <3>2. CASE i \in 1..n
      BY <2>1, <2>2, <3>1, <3>2
    <3>3. CASE \E j \in 1..k : i = n + j
      BY <2>1, <2>2, <3>1, <3>3
    <3> QED
      BY <2>3, <3>2, <3>3
  <2>7. Elements(a) \cup Elements(b) \subseteq Elements(c)
    BY <2>1, <2>2, <2>4, <2>5
  <2> QED
    BY <2>6, <2>7
<1> QED
  BY <1>3, <1>4, <1>5, <1>6 DEF IsSection

LEMMA CopiesSection ==
    ASSUME NEW rr, IsRecord(rr), NEW n \in Nat
    PROVE  /\ IsSection(Copies(rr, n)) /\ Len(Copies(rr, n)) = n
           /\ Elements(Copies(rr, n)) \subseteq {rr}
<1> DEFINE rrs == Copies(rr, n)
<1>1. rrs = [i \in 1..n |-> rrs[i]] /\ \A i \in 1..n : rrs[i] = rr
  BY DEF Copies
<1> HIDE DEF rrs
<1>2. IsSection(rrs) /\ Len(rrs) = n
  BY <1>1, MakesSection
<1>3. Elements(rrs) \subseteq {rr}
  BY <1>1, <1>2 DEF Elements
<1> QED
  BY <1>2, <1>3 DEF rrs

\* The answers that may be too long for a string: a qname-min sequence, a hostname.
IsLong(q) ==
    \/ IsIn(q.labels, "qname-min") /\ q.qtype = "TXT"
    \/ q.zone = "hostname.bind" /\ HostnameBytes > 255
\* A record that packs, of the queried name or of the apex: the signer keeps it packing.
IsPlain(q, rr) == rr.packs /\ (rr.owner = q.labels \/ rr.owner = Apex)
ArePlain(q, rrs) == ~IsLong(q) => \A rr \in Elements(rrs) : IsPlain(q, rr)

\* A reply in the making: nothing is in its additional section yet.
Fresh(q, m) ==
    /\ IsMessage(m) /\ m.qname = q.labels /\ ~m.tc /\ m.rcode # BadVers /\ m.extra = <<>>
    /\ ArePlain(q, m.answer) /\ ArePlain(q, m.ns)

LEMMA PlainRecord ==
    ASSUME NEW q, NEW type, NEW owner, owner = q.labels \/ owner = Apex, NEW ttl, NEW rdata
    PROVE  IsPlain(q, RR(type, owner, ttl, rdata))
  BY DEF IsPlain, RR

LEMMA PlainTXT ==
    ASSUME NEW q, NEW ttl, NEW strings, \A i \in DOMAIN strings : strings[i] <= 255
    PROVE  IsPlain(q, TXT(q.labels, ttl, strings))
<1> DEFINE bytes == SumOf(strings) + Len(strings)
           packs == \A i \in DOMAIN strings : strings[i] <= 255
           rr == RR("TXT", q.labels, ttl, bytes)
           txt == [rr EXCEPT !.packs = packs]
<1>1. TXT(q.labels, ttl, strings) = txt
  BY DEF TXT
<1>2. rr = [x \in DOMAIN rr |-> rr[x]] /\ "packs" \in DOMAIN rr /\ rr.owner = q.labels
  <2> HIDE DEF bytes
  <2> QED
    BY DEF RR
<1> HIDE DEF rr
<1>3. packs
  OBVIOUS
<1> HIDE DEF packs
<1>4. txt.owner = q.labels /\ txt.packs = packs
  BY <1>2
<1> HIDE DEF txt
<1> QED
  BY <1>1, <1>3, <1>4 DEF IsPlain

LEMMA PlainNone == \A q : ArePlain(q, <<>>)
  BY EmptySection DEF ArePlain

\* The reply Handle starts with.
LEMMA FreshReply ==
    ASSUME NEW q, Len(q.labels) \in Nat
    PROVE  /\ Fresh(q, Reply(q.labels))
           /\ Reply(q.labels).answer = <<>> /\ Reply(q.labels).ns = <<>>
<1> DEFINE labels == q.labels
           m == Reply(labels)
           none == <<>>
           no == FALSE
<1>1. /\ m = [x \in MsgFields |-> m[x]] /\ m.answer = none /\ m.ns = none /\ m.extra = none
      /\ m.qname = labels /\ m.tc = no /\ m.rcode # BadVers
  <2> HIDE DEF none
  <2> QED
    BY DEF Reply, MsgFields, BadVers, NoError, none
<1>2. IsSection(none) /\ ArePlain(q, none)
  BY EmptySection, PlainNone
<1> HIDE DEF m
<1>3. IsMessage(m)
  BY <1>1, <1>2 DEF IsMessage
<1>4. Fresh(q, m)
  <2> HIDE DEF none
  <2> QED
    BY <1>1, <1>2, <1>3 DEF Fresh, none
<1> QED
  BY <1>1, <1>4 DEF m

Updated(m, a, s, code) ==
    [x \in MsgFields |-> IF x = "answer" THEN a ELSE IF x = "ns" THEN s
                         ELSE IF x = "rcode" THEN code ELSE m[x]]

\* Records and a response code for a reply keep it fresh...
LEMMA FreshWith ==
    ASSUME NEW q, NEW m, Fresh(q, m), NEW a, IsSection(a), NEW s, IsSection(s),
           ArePlain(q, a), ArePlain(q, s), NEW code, code # BadVers, NEW n, n = Updated(m, a, s, code)
    PROVE  Fresh(q, n) /\ n.answer = a /\ n.ns = s /\ n.rcode = code
<1>1. /\ n = [x \in MsgFields |-> n[x]] /\ n.answer = a /\ n.ns = s /\ n.rcode = code
      /\ n.extra = m.extra /\ n.qname = m.qname /\ n.tc = m.tc
  BY DEF MsgFields, Updated
<1>2. IsMessage(n)
  BY <1>1 DEF Fresh, IsMessage
<1> QED
  BY <1>1, <1>2 DEF Fresh

\* ... so each family of names gives a fresh reply: a denial, an answer, strings, addresses,
LEMMA SOAIsRecord == \A ttl : IsRecord(SOA(ttl))
<1> DEFINE bytes == SoaBytes
<1>1. bytes \in Nat
  BY MessagesAssumption DEF SoaBytes
<1>2. Len(Apex) \in Nat
  BY DEF Apex
<1>3. \A ttl : SOA(ttl) = RR("SOA", Apex, ttl, bytes)
  BY DEF SOA
<1> HIDE DEF bytes
<1> QED
  BY <1>1, <1>2, <1>3, RRIsRecord

LEMMA FreshDenial ==
    ASSUME NEW q, NEW m, Fresh(q, m)
    PROVE  Fresh(q, setNodataSOA(m)) /\ Fresh(q, NameError(m))
<1> DEFINE rr == SOA(0)
           s == <<rr>>
<1>1. IsRecord(rr) /\ IsPlain(q, rr)
  BY SOAIsRecord, PlainRecord DEF SOA
<1> HIDE DEF rr
<1>2. IsSection(s) /\ IsSection(m.answer) /\ ArePlain(q, s) /\ ArePlain(q, m.answer)
  BY <1>1, OneRecord DEF Fresh, IsMessage, ArePlain
<1> HIDE DEF s
<1>3. \A code : [m EXCEPT !.rcode = code, !.ns = s] = Updated(m, m.answer, s, code)
  BY DEF Fresh, IsMessage, MsgFields, Updated
<1>4. /\ setNodataSOA(m) = Updated(m, m.answer, s, NoError)
      /\ NameError(m) = Updated(m, m.answer, s, NXDomain)
  BY <1>3, Zenon DEF setNodataSOA, NameError, s, rr
<1>5. NoError # BadVers /\ NXDomain # BadVers
  BY DEF NoError, NXDomain, BadVers
<1> QED
  BY <1>2, <1>4, <1>5, FreshWith

LEMMA FreshAnswer ==
    ASSUME NEW q, NEW m, Fresh(q, m), NEW a, IsSection(a), ArePlain(q, a),
           NEW n, n = [m EXCEPT !.answer = a]
    PROVE  Fresh(q, n) /\ n.answer = a
<1>1. n = Updated(m, a, m.ns, m.rcode)
  BY DEF Fresh, IsMessage, MsgFields, Updated
<1>2. IsSection(m.ns) /\ m.rcode # BadVers /\ ArePlain(q, m.ns)
  BY DEF Fresh, IsMessage
<1> QED
  BY <1>1, <1>2, FreshWith

LEMMA FreshAnswering ==
    ASSUME NEW q, NEW m, Fresh(q, m), NEW rr, IsRecord(rr), ~IsLong(q) => IsPlain(q, rr)
    PROVE  Fresh(q, Answering(m, rr)) /\ Answering(m, rr).answer # <<>>
<1> DEFINE a == Append(m.answer, rr)
<1>1. /\ IsSection(a) /\ Len(a) = Len(m.answer) + 1 /\ Len(m.answer) \in Nat
      /\ ArePlain(q, a)
  <2>1. IsSection(m.answer) /\ ArePlain(q, m.answer)
    BY DEF Fresh, IsMessage
  <2>2. /\ IsSection(a) /\ Len(a) = Len(m.answer) + 1 /\ Len(m.answer) \in Nat
        /\ Elements(a) = Elements(m.answer) \cup {rr}
    BY <2>1, AppendedSection, Section
  <2> HIDE DEF a
  <2> QED
    BY <2>1, <2>2 DEF ArePlain
<1>2. Answering(m, rr) = [m EXCEPT !.answer = a]
  BY DEF Answering
<1> HIDE DEF a
<1>3. a # <<>>
  <2>1. Len(a) # 0
    BY <1>1
  <2> QED
    BY <2>1, EmptySection
<1> QED
  BY <1>1, <1>2, <1>3, FreshAnswer

LEMMA FreshTXT ==
    ASSUME NEW q, NEW m, Fresh(q, m), NEW ttl, NEW strings \in Seq(Nat),
           ~IsLong(q) => \A i \in DOMAIN strings : strings[i] <= 255
    PROVE  Fresh(q, appendTXT(m, ttl, strings)) /\ appendTXT(m, ttl, strings).answer # <<>>
<1> DEFINE rr == TXT(m.qname, ttl, strings)
<1>1. IsRecord(rr) /\ (~IsLong(q) => IsPlain(q, rr))
  BY TXTIsRecord, PlainTXT DEF Fresh, IsMessage
<1>2. appendTXT(m, ttl, strings) = Answering(m, rr)
  BY DEF appendTXT
<1> HIDE DEF rr
<1> QED
  BY <1>1, <1>2, FreshAnswering

LEMMA FreshAddresses ==
    ASSUME NEW q, NEW m, Fresh(q, m), NEW qtype
    PROVE  Fresh(q, addAaaaFromIPs(m, qtype)) /\ Fresh(q, OrNodata(addAaaaFromIPs(m, qtype)))
<1> DEFINE none == <<>>
           fours == Copies(RR("A", m.qname, 0, 4), IPv4s)
           sixes == Copies(RR("AAAA", m.qname, 0, 16), IPv6s)
           more == CASE qtype = "A" -> fours [] qtype = "AAAA" -> sixes [] OTHER -> none
           a == m.answer \o more
           n == addAaaaFromIPs(m, qtype)
<1>1. IsSection(fours) /\ IsSection(sixes) /\ ArePlain(q, fours) /\ ArePlain(q, sixes)
  <2> DEFINE four == RR("A", m.qname, 0, 4)
             six == RR("AAAA", m.qname, 0, 16)
  <2>1. IsRecord(four) /\ IsRecord(six)
    BY RRIsRecord DEF Fresh, IsMessage
  <2>2. IsPlain(q, four) /\ IsPlain(q, six)
    BY PlainRecord DEF Fresh
  <2> HIDE DEF four, six
  <2>3. Elements(Copies(four, IPv4s)) \subseteq {four} /\ Elements(Copies(six, IPv6s)) \subseteq {six}
        /\ IsSection(Copies(four, IPv4s)) /\ IsSection(Copies(six, IPv6s))
    BY <2>1, CopiesSection, AnswersAssumption
  <2>4. ArePlain(q, Copies(four, IPv4s)) /\ ArePlain(q, Copies(six, IPv6s))
    BY <2>2, <2>3 DEF ArePlain
  <2> QED
    BY <2>3, <2>4 DEF four, six
<1>2. IsSection(none) /\ ArePlain(q, none)
  BY EmptySection, PlainNone
<1>3. n = [m EXCEPT !.answer = a]
  BY DEF addAaaaFromIPs
<1> HIDE DEF fours, sixes, none, n
<1>4. IsSection(more) /\ ArePlain(q, more)
  BY <1>1, <1>2
<1> HIDE DEF more
<1>5. IsSection(a) /\ ArePlain(q, a)
  <2>1. IsSection(m.answer) /\ ArePlain(q, m.answer)
    BY DEF Fresh, IsMessage
  <2>2. IsSection(a) /\ Elements(a) = Elements(m.answer) \cup Elements(more)
    BY <1>4, <2>1, JoinedSections
  <2> HIDE DEF a
  <2> QED
    BY <1>4, <2>1, <2>2 DEF ArePlain
<1> HIDE DEF a
<1>6. Fresh(q, n)
  BY <1>3, <1>5, FreshAnswer
<1>7. Fresh(q, OrNodata(n))
  BY <1>6, FreshDenial DEF OrNodata
<1> QED
  BY <1>6, <1>7 DEF n

LEMMA FreshHosted ==
    ASSUME NEW q, NEW m, Fresh(q, m), NEW qtype, NEW types, NEW ttl,
           NEW length \in 0..255
    PROVE  Fresh(q, Hosted(m, qtype, types, ttl, length))
<1> DEFINE n == CASE qtype \in types /\ qtype = "TXT" -> appendTXT(m, ttl, <<length>>)
               [] qtype \in types /\ qtype # "TXT" -> addAaaaFromIPs(m, qtype)
               [] qtype \notin types                -> m
<1>1. n = appendTXT(m, ttl, <<length>>) \/ n = addAaaaFromIPs(m, qtype) \/ n = m
  BY Zenon
<1>2. Hosted(m, qtype, types, ttl, length) = OrNodata(n)
  BY DEF Hosted
<1> DEFINE strings == <<length>>
<1>3. strings \in Seq(Nat) /\ \A i \in DOMAIN strings : strings[i] <= 255
  OBVIOUS
<1> HIDE DEF n, strings
<1>4. Fresh(q, appendTXT(m, ttl, strings))
  BY <1>3, FreshTXT
<1>5. Fresh(q, n)
  BY <1>1, <1>4, FreshAddresses DEF strings
<1> QED
  BY <1>2, <1>5, FreshDenial DEF OrNodata

\* the name servers of the zone,
LEMMA NsRecordsSection ==
    /\ IsSection(NsRecords) /\ NsRecords # <<>>
    /\ \A rr \in Elements(NsRecords) : rr.packs /\ rr.owner = Apex
<1> DEFINE names == IF Nameservers = {} THEN <<Apex>> ELSE SetToSeq(Nameservers)
           record(name) == RR("NS", Apex, 0, NameBytes(name))
           rrs == [i \in DOMAIN names |-> record(names[i])]
<1>1. NsRecords = rrs
  BY DEF NsRecords
<1>2. \E n \in Nat : n # 0 /\ DOMAIN names = 1..n
  <2>1. CASE Nameservers = {}
    <3>1. DOMAIN <<Apex>> = 1..1
      OBVIOUS
    <3> QED
      BY <2>1, <3>1
  <2>2. CASE Nameservers # {}
    <3> DEFINE n == Cardinality(Nameservers)
    <3>1. n \in Nat /\ n # 0 /\ ExistsBijection(1..n, Nameservers)
      BY <2>2, AnswersAssumption, FS_CardinalityType, FS_EmptySet
    <3>2. \E f \in [1..n -> Nameservers] : IsInjective(f)
      BY <3>1 DEF ExistsBijection, Bijection, Injection
    <3>3. SetToSeq(Nameservers) \in [1..n -> Nameservers]
      BY <3>2, Zenon DEF SetToSeq
    <3>4. DOMAIN names = 1..n
      BY <2>2, <3>3
    <3> HIDE DEF n
    <3> QED
      BY <3>1, <3>4
  <2> QED
    BY <2>1, <2>2
<1>3. PICK n \in Nat : n # 0 /\ DOMAIN names = 1..n
  BY <1>2
<1>9. \A i \in 1..n : Len(names[i]) \in Nat
  <2>1. CASE Nameservers = {}
    <3>1. names = <<Apex>> /\ Len(Apex) \in Nat
      BY <2>1 DEF Apex
    <3> HIDE DEF names
    <3>2. 1..n = 1..1
      BY <1>3, <3>1
    <3>3. \A i \in 1..1 : names[i] = Apex
      BY <3>1
    <3> QED
      BY <3>1, <3>2, <3>3
  <2>2. CASE Nameservers # {}
    <3>1. Cardinality(Nameservers) \in Nat /\ ExistsBijection(1..Cardinality(Nameservers), Nameservers)
      BY AnswersAssumption, FS_CardinalityType
    <3>2. \E f \in [1..Cardinality(Nameservers) -> Nameservers] : IsInjective(f)
      BY <3>1 DEF ExistsBijection, Bijection, Injection
    <3>3. SetToSeq(Nameservers) \in [1..Cardinality(Nameservers) -> Nameservers]
      BY <3>2, Zenon DEF SetToSeq
    <3>4. names = SetToSeq(Nameservers)
      BY <2>2
    <3> HIDE DEF names
    <3>5. \A i \in 1..n : names[i] \in Nameservers
      BY <1>3, <3>3, <3>4
    <3> QED
      BY <3>5, AnswersAssumption
  <2> QED
    BY <2>1, <2>2
<1> HIDE DEF names
<1>4. ASSUME NEW name, Len(name) \in Nat
      PROVE  IsRecord(record(name)) /\ record(name).packs /\ record(name).owner = Apex
  <2> DEFINE bytes == NameBytes(name)
  <2>1. bytes \in Nat /\ Len(Apex) \in Nat
    BY <1>4, NameBytesNat DEF Apex
  <2> HIDE DEF bytes
  <2>2. IsRecord(RR("NS", Apex, 0, bytes))
    BY <2>1, RRIsRecord
  <2>3. record(name).packs /\ record(name).owner = Apex
    BY DEF RR
  <2> QED
    BY <2>2, <2>3 DEF bytes
<1> HIDE DEF record
<1>5. /\ rrs = [i \in 1..n |-> rrs[i]]
      /\ \A i \in 1..n : IsRecord(rrs[i]) /\ rrs[i].packs /\ rrs[i].owner = Apex
  BY <1>3, <1>4, <1>9
<1> HIDE DEF rrs
<1>6. IsSection(rrs) /\ Len(rrs) = n
  BY <1>5, MakesSection
<1>7. rrs # <<>>
  BY <1>3, <1>6, EmptySection
<1>8. \A rr \in Elements(rrs) : rr.packs /\ rr.owner = Apex
  BY <1>5, <1>6 DEF Elements
<1> QED
  BY <1>1, <1>6, <1>7, <1>8

\* the apex, the names that are to fail, the random ones, the delegation and qname-min.
LEMMA FreshApex ==
    ASSUME NEW q, NEW m, Fresh(q, m)
    PROVE  Fresh(q, handleApex(q, m))
<1> DEFINE n == handleApex(q, m)
<1>1. \/ n = Answering(m, SOA(0)) \/ n = [m EXCEPT !.answer = NsRecords]
      \/ n = Answering(m, RR("CDS", Apex, 0, 36)) \/ n = m
      \/ n = OrNodata(addAaaaFromIPs(m, q.qtype))
  BY Zenon DEF handleApex
<1> HIDE DEF n
<1>2. IsRecord(SOA(0)) /\ IsRecord(RR("CDS", Apex, 0, 36))
  <2>1. Len(Apex) \in Nat
    BY DEF Apex
  <2> QED
    BY <2>1, SOAIsRecord, RRIsRecord
<1>3. Fresh(q, Answering(m, SOA(0))) /\ Fresh(q, Answering(m, RR("CDS", Apex, 0, 36)))
  <2> DEFINE a == SOA(0)
             b == RR("CDS", Apex, 0, 36)
  <2>1. IsRecord(a) /\ IsRecord(b) /\ IsPlain(q, a) /\ IsPlain(q, b)
    BY <1>2, PlainRecord DEF SOA
  <2> HIDE DEF a, b
  <2>2. Fresh(q, Answering(m, a)) /\ Fresh(q, Answering(m, b))
    BY <2>1, FreshAnswering
  <2> QED
    BY <2>2 DEF a, b
<1>4. Fresh(q, [m EXCEPT !.answer = NsRecords])
  <2>1. ArePlain(q, NsRecords)
    BY NsRecordsSection DEF ArePlain, IsPlain
  <2> QED
    BY <2>1, NsRecordsSection, FreshAnswer
<1>5. Fresh(q, OrNodata(addAaaaFromIPs(m, q.qtype)))
  BY FreshAddresses
<1>6. Fresh(q, n)
  BY <1>1, <1>3, <1>4, <1>5, Zenon
<1> QED
  BY <1>6 DEF n

LEMMA FreshFailed ==
    ASSUME NEW q, NEW m, Fresh(q, m)
    PROVE  Fresh(q, handleDnssecFailed(q, m))
<1> DEFINE n == handleDnssecFailed(q, m)
           rr == RR("A", m.qname, 0, 4)
           strings == <<16>>
<1>1. n = Answering(m, rr) \/ n = appendTXT(m, 0, strings) \/ n = setNodataSOA(m)
  BY Zenon DEF handleDnssecFailed
<1>2. /\ IsRecord(rr) /\ IsPlain(q, rr)
      /\ strings \in Seq(Nat) /\ \A i \in DOMAIN strings : strings[i] <= 255
  BY RRIsRecord, PlainRecord DEF Fresh, IsMessage
<1> HIDE DEF n, rr, strings
<1>3. Fresh(q, n)
  BY <1>1, <1>2, FreshAnswering, FreshTXT, FreshDenial
<1> QED
  BY <1>3 DEF n

LEMMA FreshRandom ==
    ASSUME NEW q, NEW m, Fresh(q, m)
    PROVE  Fresh(q, randomReply(q, m))
<1> DEFINE n == randomReply(q, m)
           a == RR("A", m.qname, 0, 4)
           b == RR("AAAA", m.qname, 0, 16)
           strings == <<16>>
<1>1. \/ n = Answering(m, a) \/ n = Answering(m, b)
      \/ n = appendTXT(m, 0, strings) \/ n = setNodataSOA(m)
  BY Zenon DEF randomReply
<1>2. /\ IsRecord(a) /\ IsRecord(b) /\ IsPlain(q, a) /\ IsPlain(q, b)
      /\ strings \in Seq(Nat) /\ \A i \in DOMAIN strings : strings[i] <= 255
  BY RRIsRecord, PlainRecord DEF Fresh, IsMessage
<1> HIDE DEF n, a, b, strings
<1>3. Fresh(q, n)
  BY <1>1, <1>2, FreshAnswering, FreshTXT, FreshDenial
<1> QED
  BY <1>3 DEF n

LEMMA FreshReferral ==
    ASSUME NEW q, NEW m, Fresh(q, m)
    PROVE  Fresh(q, referral(m))
<1> DEFINE rr == RR("NS", m.qname, 60, NameBytes(m.qname) + LabelBytes)
           s == Copies(rr, 2)
<1>1. IsRecord(rr) /\ IsPlain(q, rr)
  <2> DEFINE bytes == NameBytes(m.qname) + LabelBytes
  <2>1. bytes \in Nat /\ Len(m.qname) \in Nat /\ m.qname = q.labels
    BY NameBytesNat, MessagesAssumption DEF Fresh, IsMessage
  <2> HIDE DEF bytes
  <2>2. IsRecord(RR("NS", m.qname, 60, bytes)) /\ IsPlain(q, RR("NS", m.qname, 60, bytes))
    BY <2>1, RRIsRecord, PlainRecord
  <2> QED
    BY <2>2 DEF bytes
<1>2. referral(m) = [m EXCEPT !.ns = s]
  BY DEF referral
<1> HIDE DEF rr
<1>3. IsSection(s) /\ ArePlain(q, s)
  BY <1>1, CopiesSection DEF ArePlain
<1> HIDE DEF s
<1>4. referral(m) = Updated(m, m.answer, s, m.rcode)
  BY <1>2 DEF Fresh, IsMessage, MsgFields, Updated
<1>5. IsSection(m.answer) /\ m.rcode # BadVers /\ ArePlain(q, m.answer)
  BY DEF Fresh, IsMessage
<1> QED
  BY <1>3, <1>4, <1>5, FreshWith

LEMMA FreshQnameMin ==
    ASSUME NEW q, NEW m, Fresh(q, m), NEW seen \in Nat
    PROVE  IsIn(q.labels, "qname-min") => Fresh(q, qnameMinReply(q, m, seen))
<1> DEFINE strings == <<16 + NameBytes(m.qname)>> \o
                         (IF seen = 0 THEN <<>> ELSE <<SequenceBytes(seen, m)>>)
           n == qnameMinReply(q, m, seen)
<1>1. n = setNodataSOA(m) \/ (q.qtype = "TXT" /\ n = appendTXT(m, 0, strings))
  BY Zenon DEF qnameMinReply
<1>3. strings \in Seq(Nat)
  <2> DEFINE name == NameBytes(m.qname)
             bytes == SequenceBytes(seen, m)
             none == <<>>
             one == <<bytes>>
             rest == IF seen = 0 THEN none ELSE one
  <2>1. name \in Nat
    BY NameBytesNat DEF Fresh, IsMessage
  <2>2. bytes = 37 + seen * (5 + name)
    BY DEF SequenceBytes
  <2> HIDE DEF name, bytes
  <2>3. bytes \in Nat
    <3> DEFINE each == 5 + name
    <3>1. each \in Nat
      BY <2>1
    <3> HIDE DEF each
    <3>2. seen * each \in Nat
      BY <3>1
    <3> QED
      BY <2>2, <3>2 DEF each
  <2>4. none \in Seq(Nat) /\ one \in Seq(Nat) /\ <<16 + name>> \in Seq(Nat)
    BY <2>1, <2>3
  <2>5. rest \in Seq(Nat)
    BY <2>4
  <2> HIDE DEF rest
  <2>6. <<16 + name>> \o rest \in Seq(Nat)
    BY <2>4, <2>5
  <2> QED
    BY <2>6 DEF rest, one, none, name, bytes
<1> HIDE DEF n, strings
<1>2. IsIn(q.labels, "qname-min") => Fresh(q, n)
  BY <1>1, <1>3, FreshTXT, FreshDenial DEF IsLong
<1> QED
  BY <1>2 DEF n

\* Only setednspad pads.
Unpadded(m) ==
    \A i \in 1..Len(m.extra) : IsOpt(m.extra[i]) => "PADDING" \notin m.extra[i].codes
\* What Handle hands on: records in the additional section go with an answer.
Built(q, m) ==
    /\ IsMessage(m) /\ m.qname = q.labels /\ ~m.tc /\ m.rcode # BadVers
    /\ m.extra # <<>> => m.answer # <<>>
    /\ ArePlain(q, m.answer) /\ ArePlain(q, m.ns) /\ ArePlain(q, m.extra)
    /\ Unpadded(m)
NoOpts(m) == \A i \in 1..Len(m.extra) : ~IsOpt(m.extra[i])

LEMMA FreshIsBuilt ==
    ASSUME NEW q, NEW m, Fresh(q, m)
    PROVE  Built(q, m) /\ NoOpts(m)
<1>1. Len(m.extra) = 0
  BY EmptySection DEF Fresh
<1>2. NoOpts(m) /\ Unpadded(m)
  BY <1>1 DEF NoOpts, Unpadded
<1> QED
  BY <1>2, PlainNone DEF Fresh, Built

\* The other family's address of a myip answer.
LEMMA BuiltMyip ==
    ASSUME NEW q, NEW m, Fresh(q, m)
    PROVE  Built(q, myipReply(q, m)) /\ NoOpts(myipReply(q, m))
<1> DEFINE n == myipReply(q, m)
           a == RR("A", m.qname, 0, 4)
           b == RR("AAAA", m.qname, 0, 16)
           strings == <<9>>
<1>1. a = RR("A", m.qname, 0, 4) /\ b = RR("AAAA", m.qname, 0, 16)
  OBVIOUS
<1>2. /\ IsRecord(a) /\ IsRecord(b) /\ ~IsOpt(a) /\ ~IsOpt(b)
      /\ IsPlain(q, a) /\ IsPlain(q, b)
      /\ strings \in Seq(Nat) /\ \A i \in DOMAIN strings : strings[i] <= 255
  <2>1. /\ IsRecord(a) /\ IsRecord(b) /\ IsPlain(q, a) /\ IsPlain(q, b)
        /\ strings \in Seq(Nat) /\ \A i \in DOMAIN strings : strings[i] <= 255
    BY RRIsRecord, PlainRecord DEF Fresh, IsMessage
  <2> QED
    BY <2>1 DEF IsOpt, RR
<1>3. \/ n = [m EXCEPT !.rcode = ServFail]
      \/ n = appendTXT(m, 0, strings)
      \/ n = [Answering(m, a) EXCEPT !.extra = <<b>>]
      \/ n = [Answering(m, b) EXCEPT !.extra = <<a>>]
      \/ n = setNodataSOA(m)
  <2> HIDE DEF a, b
  <2> QED
    BY <1>1, Zenon DEF myipReply
<1> HIDE DEF n, a, b, strings
<1>4. ASSUME n = [m EXCEPT !.rcode = ServFail]
      PROVE  Fresh(q, n)
  <2>1. n = Updated(m, m.answer, m.ns, ServFail)
    BY <1>4 DEF Fresh, IsMessage, MsgFields, Updated
  <2>2. /\ IsSection(m.answer) /\ IsSection(m.ns) /\ ServFail # BadVers
        /\ ArePlain(q, m.answer) /\ ArePlain(q, m.ns)
    BY DEF Fresh, IsMessage, ServFail, BadVers
  <2> QED
    BY <2>1, <2>2, FreshWith
<1>5. ASSUME NEW f, IsRecord(f), IsPlain(q, f), NEW g, IsRecord(g), IsPlain(q, g), ~IsOpt(g),
             n = [Answering(m, f) EXCEPT !.extra = <<g>>]
      PROVE  Built(q, n) /\ NoOpts(n)
  <2> DEFINE start == Answering(m, f)
             e == <<g>>
  <2>1. Fresh(q, start) /\ start.answer # <<>>
    BY <1>5, FreshAnswering
  <2>2. n = [start EXCEPT !.extra = e]
    BY <1>5
  <2>3. IsSection(e) /\ Len(e) = 1 /\ e[1] = g /\ ArePlain(q, e)
    BY <1>5, OneRecord DEF ArePlain
  <2> HIDE DEF start, e
  <2>4. /\ n = [x \in MsgFields |-> n[x]] /\ n.answer = start.answer /\ n.ns = start.ns
        /\ n.extra = e /\ n.qname = start.qname /\ n.tc = start.tc /\ n.rcode = start.rcode
    BY <2>1, <2>2 DEF Fresh, IsMessage, MsgFields
  <2>5. IsMessage(n)
    BY <2>1, <2>3, <2>4 DEF Fresh, IsMessage
  <2>7. NoOpts(n) /\ Unpadded(n)
    BY <1>5, <2>3, <2>4 DEF NoOpts, Unpadded
  <2>6. Built(q, n)
    BY <2>1, <2>3, <2>4, <2>5, <2>7 DEF Fresh, Built
  <2> QED
    BY <2>6, <2>7
<1>6. Fresh(q, appendTXT(m, 0, strings)) /\ Fresh(q, setNodataSOA(m))
  BY <1>2, FreshTXT, FreshDenial
<1>7. Built(q, n) /\ NoOpts(n)
  <2>1. CASE n = [Answering(m, a) EXCEPT !.extra = <<b>>]
    BY <1>2, <1>5, <2>1
  <2>2. CASE n = [Answering(m, b) EXCEPT !.extra = <<a>>]
    BY <1>2, <1>5, <2>2
  <2>3. CASE Fresh(q, n)
    BY <2>3, FreshIsBuilt
  <2> QED
    BY <1>3, <1>4, <1>6, <2>1, <2>2, <2>3
<1> QED
  BY <1>7 DEF n

\* The loop of size-N ends at n or, if what is missing is no multiple of the 256 bytes of
\* a string, one byte after it.
LEMMA SizedToIs ==
    ASSUME NEW n \in Nat, NEW len \in Nat, len <= n
    PROVE  SizedTo(len, n) \in {n, n + 1}
<1> DEFINE IsLoop(f) == f = [l \in 0..(n + 1) |-> IF l >= n THEN l ELSE f[l + 1 + Least(n - l, 255)]]
           last(l) == IF l >= n THEN l ELSE IF (n - l) % 256 = 0 THEN n ELSE n + 1
           witness == [l \in 0..(n + 1) |-> last(l)]
           grown == CHOOSE f : IsLoop(f)
<1>1. ASSUME NEW l \in 0..(n + 1)
      PROVE  /\ l < n => l + 1 + Least(n - l, 255) \in (l + 1)..(n + 1)
             /\ last(l) = IF l >= n THEN l ELSE last(l + 1 + Least(n - l, 255))
  <2>1. CASE l >= n
    BY <2>1
  <2>2. CASE l < n /\ n - l < 255
    <3>1. l + 1 + Least(n - l, 255) = n + 1
      BY <2>2 DEF Least
    <3> QED
      BY <2>2, <3>1
  <2>3. CASE n - l >= 255
    <3>1. l + 1 + Least(n - l, 255) = l + 256
      BY <2>3 DEF Least
    <3> QED
      BY <2>3, <3>1
  <2> QED
    BY <2>1, <2>2, <2>3
<1> HIDE DEF last
<1>2. ASSUME NEW l \in 0..(n + 1)
      PROVE  witness[l] = IF l >= n THEN l ELSE witness[l + 1 + Least(n - l, 255)]
  <2>1. witness[l] = last(l)
    OBVIOUS
  <2>2. CASE l >= n
    BY <1>1, <2>1, <2>2
  <2>3. CASE l < n
    <3> DEFINE k == l + 1 + Least(n - l, 255)
    <3>1. k \in 0..(n + 1)
      BY <1>1, <2>3
    <3>2. last(l) = last(k)
      BY <1>1, <2>3
    <3> HIDE DEF k
    <3>3. witness[k] = last(k)
      BY <3>1
    <3> QED
      BY <2>1, <2>3, <3>2, <3>3 DEF k
  <2> QED
    BY <2>2, <2>3
<1>3. IsLoop(witness)
  <2>1. witness = [l \in 0..(n + 1) |-> witness[l]]
    OBVIOUS
  <2> HIDE DEF witness
  <2> QED
    BY <1>2, <2>1, Zenon
<1>4. IsLoop(grown)
  <2> HIDE DEF IsLoop, witness
  <2> QED
    BY <1>3
<1>5. \A l \in 0..(n + 1) : grown[l] = IF l >= n THEN l ELSE grown[l + 1 + Least(n - l, 255)]
  <2> HIDE DEF grown
  <2> QED
    BY <1>4
<1>6. SizedTo(len, n) = IF len >= n THEN len ELSE grown[len]
  BY Zenon DEF SizedTo
<1> HIDE DEF grown, witness
<1> DEFINE T == {k \in 0..n : \A j \in 0..k : grown[n - j] \in {n, n + 1}}
<1>7. 0 \in T
  <2>1. n \in 0..(n + 1) /\ n >= n /\ n - 0 = n
    OBVIOUS
  <2>2. grown[n] = n
    BY <1>5, <2>1
  <2> QED
    BY <2>1, <2>2
<1>8. ASSUME NEW k \in 0..(n - 1), k \in T
      PROVE  k + 1 \in T
  <2> DEFINE l == n - (k + 1)
             next == l + 1 + Least(n - l, 255)
  <2>1. l \in 0..(n + 1) /\ l < n /\ next \in (l + 1)..(n + 1)
    BY <1>1
  <2>2. grown[l] = grown[next]
    BY <1>5, <2>1
  <2>3. grown[next] \in {n, n + 1}
    <3>1. CASE next = n + 1
      <4>1. n + 1 \in 0..(n + 1) /\ n + 1 >= n
        OBVIOUS
      <4> QED
        BY <1>5, <3>1, <4>1
    <3>2. CASE next <= n
      <4> DEFINE j == n - next
      <4>1. j \in 0..k /\ n - j = next
        BY <2>1, <3>2
      <4> HIDE DEF j, l, next
      <4> QED
        BY <1>8, <4>1
    <3> QED
      BY <2>1, <3>1, <3>2
  <2>4. \A j \in 0..(k + 1) : j \in 0..k \/ j = k + 1
    OBVIOUS
  <2>5. \A j \in 0..(k + 1) : grown[n - j] \in {n, n + 1}
    BY <1>8, <2>2, <2>3, <2>4
  <2> QED
    BY <2>5
<1>9. n \in T
  <2> HIDE DEF T
  <2>1. \A k \in 0..n : k \in T
    BY <1>7, <1>8, Pick!Induct
  <2> QED
    BY <2>1
<1>10. n - len \in 0..n /\ n - (n - len) = len
  OBVIOUS
<1>11. grown[len] \in {n, n + 1}
  BY <1>9, <1>10
<1> QED
  BY <1>6, <1>11

\* size-N: an answer that is grown, and an OPT record.
LEMMA GrownSection ==
    ASSUME NEW rrs, IsSection(rrs), Len(rrs) > 0, NEW bytes \in Nat,
           NEW grown, grown = [rrs EXCEPT ![1].bytes = bytes]
    PROVE  /\ IsSection(grown) /\ Len(grown) = Len(rrs)
           /\ \A i \in 1..Len(rrs) : grown[i].packs = rrs[i].packs /\ grown[i].owner = rrs[i].owner
<1>1. /\ Len(rrs) \in Nat /\ DOMAIN rrs = 1..Len(rrs) /\ 1 \in 1..Len(rrs)
      /\ \A i \in 1..Len(rrs) : IsRecord(rrs[i])
  BY Section
<1> DEFINE first == [rrs[1] EXCEPT !.bytes = bytes]
<1>2. grown = [rrs EXCEPT ![1] = first]
  OBVIOUS
<1>3. IsRecord(first) /\ first.packs = rrs[1].packs /\ first.owner = rrs[1].owner
  <2> DEFINE rr == rrs[1]
  <2>1. IsRecord(rr) /\ first = [rr EXCEPT !.bytes = bytes]
    BY <1>1
  <2> HIDE DEF rr, first
  <2>2. first = [x \in DOMAIN rr |-> IF x = "bytes" THEN bytes ELSE rr[x]]
    BY <2>1 DEF IsRecord
  <2>3. DOMAIN first = DOMAIN rr /\ \A x \in DOMAIN rr : x # "bytes" => first[x] = rr[x]
    BY <2>2
  <2>4. {"type", "owner", "packs", "bytes"} \subseteq DOMAIN rr /\ first.bytes = bytes
    BY <2>1, <2>2 DEF IsRecord
  <2>5. first.type = rr.type /\ first.owner = rr.owner /\ first.packs = rr.packs
    BY <2>3, <2>4
  <2>6. first = [x \in DOMAIN first |-> first[x]]
    BY <2>2
  <2>7. IsRecord(first)
    BY <2>1, <2>3, <2>4, <2>5, <2>6 DEF IsRecord, IsOpt
  <2> QED
    BY <2>5, <2>7 DEF rr
<1> HIDE DEF first
<1>4. /\ grown = [i \in 1..Len(rrs) |-> grown[i]]
      /\ \A i \in 1..Len(rrs) : grown[i] = IF i = 1 THEN first ELSE rrs[i]
  BY <1>1, <1>2
<1>5. \A i \in 1..Len(rrs) : IsRecord(grown[i])
  BY <1>1, <1>3, <1>4
<1> DEFINE k == Len(rrs)
<1>6. k \in Nat /\ grown = [i \in 1..k |-> grown[i]] /\ \A i \in 1..k : IsRecord(grown[i])
  BY <1>1, <1>4, <1>5
<1> HIDE DEF k
<1>7. IsSection(grown) /\ Len(grown) = k
  BY <1>6, MakesSection
<1>8. \A i \in 1..Len(rrs) : grown[i].packs = rrs[i].packs /\ grown[i].owner = rrs[i].owner
  BY <1>3, <1>4
<1> QED
  BY <1>7, <1>8 DEF k

LEMMA BuiltSize ==
    ASSUME NEW q, NEW m, Fresh(q, m), NEW size \in Nat
    PROVE  /\ Built(q, sizeReply(m, size))
           /\ sizeReply(m, size).answer # <<>> /\ sizeReply(m, size).rcode = m.rcode
<1> DEFINE e == EnsureOpt(m)
           strings == <<8>>
           rr == TXT(e.qname, 0, strings)
           a == Append(e.answer, rr)
           start == [e EXCEPT !.answer = a]
           bytes == a[1].bytes + SizedTo(Size(start), size) - Size(start)
           grown == [a EXCEPT ![1].bytes = bytes]
           n == sizeReply(m, size)
<1>1. IsMessage(e) /\ SameBut({"extra"}, m, e)
  BY EnsureOptHas DEF Fresh
<1>2. start = appendTXT(EnsureOpt(m), 0, <<8>>)
  BY DEF appendTXT, Answering
<1>3. start.answer = a
  BY <1>1 DEF IsMessage, MsgFields
<1>4. n = [start EXCEPT !.answer[1].bytes = @ + SizedTo(Size(start), size) - Size(start)]
  <2> HIDE DEF start
  <2> QED
    BY <1>2 DEF sizeReply
<1>5. n = [start EXCEPT !.answer = grown]
  <2> HIDE DEF a
  <2>1. n = [start EXCEPT !.answer[1].bytes = bytes]
    <3> HIDE DEF start
    <3> QED
      BY <1>3, <1>4
  <2> HIDE DEF bytes
  <2>2. n = [start EXCEPT !.answer = [start.answer EXCEPT ![1].bytes = bytes]]
    <3> HIDE DEF start
    <3> QED
      BY <2>1
  <2> HIDE DEF start
  <2> QED
    BY <1>3, <2>2
<1>6. IsRecord(rr) /\ IsPlain(q, rr)
  <2>1. strings \in Seq(Nat) /\ \A i \in DOMAIN strings : strings[i] <= 255
    OBVIOUS
  <2>2. e.qname = q.labels /\ Len(e.qname) \in Nat
    BY <1>1 DEF SameBut, MsgFields, Fresh, IsMessage
  <2> HIDE DEF strings, e
  <2> QED
    BY <2>1, <2>2, TXTIsRecord, PlainTXT
<1> HIDE DEF rr
<1>7. /\ IsSection(a) /\ Len(a) = Len(e.answer) + 1 /\ Len(e.answer) \in Nat
      /\ Elements(a) = Elements(e.answer) \cup {rr}
  BY <1>1, <1>6, AppendedSection, Section DEF IsMessage
<1>13. ArePlain(q, a) /\ ArePlain(q, e.ns)
  <2> HIDE DEF e
  <2>1. e.answer = m.answer /\ e.ns = m.ns
    BY <1>1 DEF SameBut, MsgFields
  <2> QED
    BY <1>6, <1>7, <2>1 DEF ArePlain, Fresh
<1>16. IsMessage(start)
  <2> HIDE DEF a
  <2>1. start = [x \in MsgFields |-> IF x = "answer" THEN a ELSE e[x]]
    BY <1>1 DEF IsMessage, MsgFields
  <2> HIDE DEF start
  <2>2. /\ start = [x \in MsgFields |-> start[x]] /\ start.answer = a /\ start.ns = e.ns
        /\ start.extra = e.extra /\ start.qname = e.qname
    BY <2>1 DEF MsgFields
  <2> QED
    BY <1>1, <1>7, <2>2 DEF IsMessage
<1>17. bytes \in Nat
  <2> DEFINE len == Size(start)
             first == a[1].bytes
             final == SizedTo(len, size)
  <2>1. len \in Nat
    <3> HIDE DEF start
    <3> QED
      BY <1>16, SizeNat
  <2>2. first \in Nat
    <3> HIDE DEF a
    <3>1. 1 \in 1..Len(a)
      BY <1>7
    <3> QED
      BY <1>7, <3>1, Section DEF IsRecord
  <2>3. final \in Nat /\ len <= final
    <3> HIDE DEF len
    <3>1. CASE len <= size
      BY <2>1, <3>1, SizedToIs
    <3>2. CASE ~(len <= size)
      <4>1. len >= size
        BY <2>1, <3>2
      <4>2. final = len
        BY <4>1, Zenon DEF SizedTo
      <4> QED
        BY <2>1, <4>2
    <3> QED
      BY <3>1, <3>2
  <2>4. bytes = first + final - len
    OBVIOUS
  <2> HIDE DEF len, first, final, bytes
  <2> QED
    BY <2>1, <2>2, <2>3, <2>4
<1> HIDE DEF a, bytes
<1>8. IsSection(grown) /\ Len(grown) > 0
  <2>1. Len(a) > 0 /\ IsSection(a) /\ grown = [a EXCEPT ![1].bytes = bytes]
    BY <1>7
  <2> HIDE DEF grown
  <2>2. IsSection(grown) /\ Len(grown) = Len(a)
    BY <1>17, <2>1, GrownSection
  <2> QED
    BY <2>1, <2>2
<1>14. ArePlain(q, grown)
  <2>1. Len(a) > 0
    BY <1>7
  <2>2. /\ Len(grown) = Len(a)
        /\ \A i \in 1..Len(a) : grown[i].packs = a[i].packs /\ grown[i].owner = a[i].owner
    BY <1>7, <1>17, <2>1, GrownSection
  <2> HIDE DEF grown
  <2> QED
    BY <1>13, <2>2 DEF ArePlain, IsPlain, Elements
<1>15. ArePlain(q, e.extra) /\ Unpadded(e)
  <2>1. e.extra = m.extra \/ e.extra = Append(m.extra, EmptyOpt)
    BY EnsureOptHas DEF Fresh
  <2>2. m.extra = <<>>
    BY DEF Fresh
  <2> HIDE DEF e
  <2> DEFINE opt == EmptyOpt
             one == <<opt>>
  <2>3. IsRecord(opt) /\ IsPlain(q, opt) /\ opt.codes = {}
    BY OptIsRecord DEF EmptyOpt, Opt, IsPlain, Apex
  <2>4. e.extra = <<>> \/ e.extra = one
    BY <2>1, <2>2
  <2> HIDE DEF opt
  <2>5. ArePlain(q, one)
    BY <2>3, OneRecord DEF ArePlain
  <2>6. Unpadded(e)
    <3>1. Len(one) = 1 /\ one[1] = opt /\ Len(<<>>) = 0
      OBVIOUS
    <3> HIDE DEF one
    <3> QED
      BY <2>3, <2>4, <3>1 DEF Unpadded
  <2> QED
    BY <2>4, <2>5, <2>6, PlainNone
<1> HIDE DEF grown
<1>9. n = [x \in MsgFields |-> IF x = "answer" THEN grown ELSE e[x]]
  <2> HIDE DEF e
  <2>1. start = [x \in MsgFields |-> IF x = "answer" THEN a ELSE e[x]]
    BY <1>1 DEF IsMessage, MsgFields
  <2> HIDE DEF start
  <2> QED
    BY <1>5, <2>1 DEF MsgFields
<1> HIDE DEF n, e
<1>10. /\ n = [x \in MsgFields |-> n[x]] /\ n.answer = grown /\ n.ns = e.ns /\ n.extra = e.extra
       /\ n.qname = m.qname /\ n.tc = m.tc /\ n.rcode = m.rcode
  BY <1>1, <1>9 DEF SameBut, MsgFields
<1>11. IsMessage(n) /\ n.answer # <<>>
  BY <1>1, <1>8, <1>10, EmptySection DEF IsMessage
<1>12. Built(q, n)
  BY <1>10, <1>11, <1>13, <1>14, <1>15 DEF Built, Fresh, Unpadded
<1> QED
  BY <1>10, <1>11, <1>12 DEF n

LEMMA SizesAreNumbers == ValidArgs("size") \subseteq Nat
  BY DEF ValidArgs, minSizeN, maxSizeN

\* The gadgets: only size-N has an OPT record.
LEMMA BuiltGadget ==
    ASSUME NEW q, NEW m, Fresh(q, m), NEW g, g.kind \in Gadgets, g.arg \in ValidArgs(g.kind)
    PROVE  /\ Built(q, handleGadget(g, q, m))
           /\ NoOpts(handleGadget(g, q, m)) \/ (g.kind = "size" /\ q.qtype = "TXT")
<1> DEFINE n == handleGadget(g, q, m)
           strings == <<16>>
<1>1. \/ n = myipReply(q, m)
      \/ n = randomReply(q, m)
      \/ n = handleDnssecFailed(q, m)
      \/ n = setNodataSOA(m)
      \/ n = sizeReply(m, g.arg) /\ g.kind = "size" /\ q.qtype = "TXT"
      \/ n = appendTXT(m, GadgetTtl(g), strings)
  BY DEF handleGadget, Gadgets, TxtGadgets
<1>4. strings \in Seq(Nat) /\ \A i \in DOMAIN strings : strings[i] <= 255
  OBVIOUS
<1>5. ASSUME g.kind = "size"
      PROVE  g.arg \in Nat
  BY <1>5, SizesAreNumbers
<1> HIDE DEF n, strings
<1>2. \/ Fresh(q, n)
      \/ n = myipReply(q, m)
      \/ n = sizeReply(m, g.arg) /\ g.kind = "size" /\ q.qtype = "TXT"
  BY <1>1, <1>4, FreshRandom, FreshFailed, FreshDenial, FreshTXT
<1>3. Built(q, n) /\ (NoOpts(n) \/ (g.kind = "size" /\ q.qtype = "TXT"))
  BY <1>2, <1>5, FreshIsBuilt, BuiltMyip, BuiltSize
<1> QED
  BY <1>3 DEF n

LEMMA BuiltGadgetOrNot ==
    ASSUME NEW q, NEW m, Fresh(q, m), NEW g
    PROVE  /\ Built(q, GadgetOrNameError(g, q, m))
           /\ NoOpts(GadgetOrNameError(g, q, m)) \/ (g.kind = "size" /\ q.qtype = "TXT")
<1>1. CASE GadgetExists(g, q)
  <2>1. /\ GadgetOrNameError(g, q, m) = handleGadget(g, q, m)
        /\ g.kind \in Gadgets /\ g.arg \in ValidArgs(g.kind)
    BY <1>1 DEF GadgetOrNameError, GadgetExists
  <2> QED
    BY <2>1, BuiltGadget
<1>2. CASE ~GadgetExists(g, q)
  <2>1. GadgetOrNameError(g, q, m) = NameError(m)
    BY <1>2 DEF GadgetOrNameError
  <2> QED
    BY <2>1, FreshDenial, FreshIsBuilt
<1> QED
  BY <1>1, <1>2

SizeOf(q) == q.qtype = "TXT" /\ Parsed(q.labels).gadget.kind = "size"

\* Whatever the name, the reply of the zone is built so.
LEMMA BuiltZoneReply ==
    ASSUME NEW q, NEW m, Fresh(q, m), NEW seen \in Nat,
           NEW n, n = ZoneReply(q, m, seen)
    PROVE  Built(q, n) /\ (NoOpts(n) \/ SizeOf(q))
<1> DEFINE addresses == {"A", "AAAA"}
           all == {"TXT", "A", "AAAA"}
           text == {"TXT"}
<1>1. /\ Fresh(q, handleApex(q, m))
      /\ Fresh(q, Hosted(m, q.qtype, addresses, 0, 0))
      /\ Fresh(q, Hosted(m, q.qtype, all, 0, 60))
      /\ Fresh(q, Hosted(m, q.qtype, text, 3600, 30))
      /\ Fresh(q, Hosted(m, q.qtype, text, 0, 20))
      /\ Fresh(q, referral(m))
      /\ IsIn(q.labels, "qname-min") => Fresh(q, qnameMinReply(q, m, seen))
      /\ Fresh(q, IF dnssecFailedExists(q) THEN handleDnssecFailed(q, m) ELSE NameError(m))
  BY FreshApex, FreshHosted, FreshReferral, FreshQnameMin, FreshFailed, FreshDenial
<1>2. \/ Fresh(q, n)
      \/ n = DiagReply(q, m) /\ IsUnder(q.labels, "diag")
      \/ n = TopLevelReply(q, m) /\ ~IsUnder(q.labels, "diag")
  BY <1>1, SMT DEF ZoneReply
<1> HIDE DEF addresses, all, text
<1>3. CASE Fresh(q, n)
  BY <1>3, FreshIsBuilt
<1>4. CASE n = DiagReply(q, m) /\ IsUnder(q.labels, "diag")
  <2> DEFINE g == parseDiag(q.labels).gadget
  <2>1. g = Parsed(q.labels).gadget
    BY <1>4 DEF Parsed
  <2>2. \/ n = Hosted(m, q.qtype, all, 0, 60)
        \/ n = GadgetOrNameError(g, q, m)
    BY <1>4 DEF DiagReply, all
  <2> HIDE DEF g
  <2>3. Fresh(q, n) \/ n = GadgetOrNameError(g, q, m)
    BY <2>2, FreshHosted
  <2>4. Built(q, n) /\ (NoOpts(n) \/ (g.kind = "size" /\ q.qtype = "TXT"))
    BY <2>3, FreshIsBuilt, BuiltGadgetOrNot
  <2> QED
    BY <2>1, <2>4 DEF SizeOf
<1>5. CASE n = TopLevelReply(q, m) /\ ~IsUnder(q.labels, "diag")
  <2> DEFINE parsed == parseTopLevel(q.labels)
             g == parsed.gadget
  <2>1. g = Parsed(q.labels).gadget
    BY <1>5 DEF Parsed
  <2>2. \/ n = setNodataSOA(m) \/ n = NameError(m)
        \/ n = GadgetOrNameError(g, q, m)
    BY <1>5, Zenon DEF TopLevelReply, setOptionsOnly
  <2> HIDE DEF g
  <2>3. Fresh(q, n) \/ n = GadgetOrNameError(g, q, m)
    BY <2>2, FreshDenial
  <2>4. Built(q, n) /\ (NoOpts(n) \/ (g.kind = "size" /\ q.qtype = "TXT"))
    BY <2>3, FreshIsBuilt, BuiltGadgetOrNot
  <2> QED
    BY <2>1, <2>4 DEF SizeOf
<1> QED
  BY <1>2, <1>3, <1>4, <1>5

-----------------------------------------------------------------------------
(***************************************************************************)
(* SignResponse.  FlattenSeq of the community modules is a function on     *)
(* indices: here it is shown to exist.                                     *)
(***************************************************************************)
Joined(a, b) == a \o b
Join == INSTANCE Folding WITH Step <- Joined

IsFlattening(f, n, ss) ==
    f = [i \in 1..n |-> IF i = 1 THEN ss[i] ELSE f[i - 1] \o ss[i]]

\* The function FlattenSeq chooses exists, and its value is a section if those it joins
\* are.
LEMMA FlatteningExists ==
    ASSUME NEW n \in Nat, NEW ss, DOMAIN ss = 1..n, \A i \in 1..n : IsSection(ss[i])
    PROVE  \E f : IsFlattening(f, n, ss)
<1>1. PICK F : Join!IsFold(F, n, ss, <<>>)
  BY Join!Unrolled
<1>2. F[0] = <<>> /\ \A i \in 1..n : F[i] = F[i - 1] \o ss[i]
  BY <1>1, Zenon DEF Join!IsFold, Joined
<1> DEFINE f == [i \in 1..n |-> F[i]]
<1>3. ASSUME NEW i \in 1..n
      PROVE  f[i] = IF i = 1 THEN ss[i] ELSE f[i - 1] \o ss[i]
  <2>1. CASE i = 1
    <3>2. PICK R : ss[1] \in Seq(R)
      BY <2>1 DEF IsSection
    <3>3. F[1] = <<>> \o ss[1]
      <4>1. 1 \in 1..n /\ 1 - 1 = 0
        BY <2>1
      <4>2. F[1] = F[1 - 1] \o ss[1]
        BY <1>2, <4>1
      <4> QED
        BY <1>2, <4>1, <4>2
    <3> QED
      BY <2>1, <3>2, <3>3
  <2>2. CASE i # 1
    <3>1. i - 1 \in 1..n
      BY <2>2
    <3> QED
      BY <1>2, <2>2, <3>1
  <2> QED
    BY <2>1, <2>2
<1>4. f = [i \in 1..n |-> f[i]]
  OBVIOUS
<1> HIDE DEF f
<1>5. f = [i \in 1..n |-> IF i = 1 THEN ss[i] ELSE f[i - 1] \o ss[i]]
  BY <1>3, <1>4, Zenon
<1> QED
  BY <1>5, Zenon DEF IsFlattening

LEMMA FlattenedSections ==
    ASSUME NEW n \in Nat, NEW ss, ss = [i \in 1..n |-> ss[i]],
           \A i \in 1..n : IsSection(ss[i]) /\ ss[i] # <<>>
    PROVE  /\ IsSection(FlattenSeq(ss))
           /\ n # 0 => FlattenSeq(ss) # <<>> /\ FlattenSeq(ss)[1] = ss[1][1]
           /\ \A rr \in Elements(FlattenSeq(ss)) : \E i \in 1..n : rr \in Elements(ss[i])
           /\ \A i \in 1..n : Elements(ss[i]) \subseteq Elements(FlattenSeq(ss))
<1>1. DOMAIN ss = 1..n /\ Len(ss) = n
  OBVIOUS
<1>2. CASE n = 0
  <2>1. FlattenSeq(ss) = ss /\ Len(ss) = 0
    BY <1>1, <1>2 DEF FlattenSeq
  <2>2. ss = <<>>
    BY <1>2
  <2>3. Elements(FlattenSeq(ss)) = {}
    BY <2>1, <2>2, EmptySection
  <2> QED
    BY <1>2, <2>1, <2>2, <2>3, EmptySection
<1>3. CASE n # 0
  <2> DEFINE f == CHOOSE f : IsFlattening(f, n, ss)
  <2>1. IsFlattening(f, n, ss)
    BY <1>1, FlatteningExists
  <2>2. FlattenSeq(ss) = f[n]
    BY <1>1, <1>3, Zenon DEF FlattenSeq, IsFlattening
  <2> HIDE DEF f
  <2>3. \A i \in 1..n : f[i] = IF i = 1 THEN ss[i] ELSE f[i - 1] \o ss[i]
    BY <2>1, Zenon DEF IsFlattening
  <2> DEFINE From(k) == \A rr \in Elements(f[k]) : \E i \in 1..n : rr \in Elements(ss[i])
             Into(k) == \A i \in 1..k : Elements(ss[i]) \subseteq Elements(f[k])
             First(k) == f[k][1] = ss[1][1]
             T == {k \in 0..n : k > 0 => /\ IsSection(f[k]) /\ f[k] # <<>>
                                        /\ From(k) /\ Into(k) /\ First(k)}
  <2>4. 0 \in T
    OBVIOUS
  <2>5. ASSUME NEW k \in 0..(n - 1), k \in T
        PROVE  k + 1 \in T
    <3>1. k + 1 \in 1..n /\ k + 1 \in 0..n /\ (k + 1) - 1 = k
      OBVIOUS
    <3>2. CASE k = 0
      <4>1. f[k + 1] = ss[k + 1]
        BY <2>3, <3>1, <3>2
      <4>2. IsSection(f[k + 1]) /\ f[k + 1] # <<>>
        BY <3>1, <4>1
      <4>3. From(k + 1)
        BY <3>1, <4>1
      <4>4. Into(k + 1) /\ First(k + 1)
        <5>1. k + 1 = 1 /\ \A i \in 1..1 : i = 1
          BY <3>2
        <5> QED
          BY <4>1, <5>1
      <4> QED
        BY <3>1, <4>2, <4>3, <4>4
    <3>3. CASE k # 0
      <4> DEFINE j == k + 1
      <4>0. j \in 1..n /\ j # 1 /\ j - 1 = k
        BY <3>1, <3>3
      <4>1. f[j] = f[k] \o ss[j]
        <5> HIDE DEF j
        <5> QED
          BY <2>3, <4>0
      <4>2. IsSection(f[k]) /\ f[k] # <<>> /\ From(k) /\ Into(k) /\ First(k)
        BY <2>5, <3>3
      <4>3. /\ IsSection(f[j]) /\ f[j] # <<>> /\ f[j][1] = f[k][1]
            /\ Elements(f[j]) = Elements(f[k]) \cup Elements(ss[j])
        <5> DEFINE a == f[k]
                   b == ss[j]
                   c == f[j]
        <5>1. IsSection(a) /\ a # <<>> /\ IsSection(b) /\ c = a \o b
          <6> HIDE DEF j
          <6> QED
            BY <4>0, <4>1, <4>2
        <5> HIDE DEF a, b, c
        <5>2. IsSection(c) /\ c # <<>> /\ c[1] = a[1] /\ Elements(c) = Elements(a) \cup Elements(b)
          BY <5>1, JoinedSections
        <5> QED
          BY <5>2 DEF a, b, c
      <4>4. From(j)
        BY <4>0, <4>2, <4>3
      <4>5. Into(j)
        <5>1. \A i \in 1..j : i = j \/ i \in 1..k
          OBVIOUS
        <5> HIDE DEF j
        <5> QED
          BY <4>2, <4>3, <5>1
      <4>6. First(j)
        BY <4>2, <4>3
      <4> QED
        BY <3>1, <4>3, <4>4, <4>5, <4>6
    <3> QED
      BY <3>2, <3>3
  <2>6. n \in T
    <3>1. n \in 0..n
      OBVIOUS
    <3> HIDE DEF T
    <3> QED
      BY <2>4, <2>5, <3>1, Join!Induct
  <2> QED
    BY <1>3, <2>2, <2>6
<1> QED
  BY <1>2, <1>3

\* The signer adds a signature after each set of records.
LEMMA PacksRecord ==
    ASSUME NEW rr, IsRecord(rr), NEW packs, NEW made, made = [rr EXCEPT !.packs = packs]
    PROVE  IsRecord(made)
<1>1. made = [x \in DOMAIN rr |-> IF x = "packs" THEN packs ELSE rr[x]]
  BY DEF IsRecord
<1> QED
  BY <1>1 DEF IsRecord, IsOpt

LEMMA RrsigIsRecord ==
    ASSUME NEW set, Len(set.owner) \in Nat
    PROVE  IsRecord(Rrsig(set))
<1> DEFINE bytes == SigBytes
           owner == SignedOwner(set)
           rr == RR("RRSIG", owner, set.ttl, bytes)
           packs == ~(FailNamed(set.owner, "sig-fail") /\ set.type # "NSEC")
<1>3. bytes \in Nat
  BY MessagesAssumption DEF SigBytes
<1>4. Len(owner) \in Nat
  BY DEF SignedOwner, Apex
<1> HIDE DEF bytes, owner
<1>1. IsRecord(rr)
  BY <1>3, <1>4, RRIsRecord
<1> USE DEF bytes, owner
<1>2. Rrsig(set) = [rr EXCEPT !.packs = packs]
  BY DEF Rrsig
<1> HIDE DEF rr, packs
<1> QED
  BY <1>1, <1>2, PacksRecord

LEMMA SignedSection ==
    ASSUME NEW rrs, IsSection(rrs)
    PROVE  /\ IsSection(signSection(rrs))
           /\ rrs # <<>> => signSection(rrs) # <<>> /\ signSection(rrs)[1] = rrs[1]
           /\ \A x \in Elements(signSection(rrs)) :
                 x \in Elements(rrs) \/ \E rr \in Elements(rrs) : x = Rrsig(rr)
           /\ \A i \in 1..Len(rrs) :
                 (i < Len(rrs) /\ SameSet(rrs[i], rrs[i + 1])) \/ FailNamed(rrs[i].owner, "rrsig-missing")
                    \/ Rrsig(rrs[i]) \in Elements(signSection(rrs))
<1> DEFINE sigs(i) == IF i < Len(rrs) /\ SameSet(rrs[i], rrs[i + 1]) THEN <<>> ELSE SignaturesOf(rrs[i])
           ss == [i \in DOMAIN rrs |-> <<rrs[i]>> \o sigs(i)]
<1>1. signSection(rrs) = FlattenSeq(ss)
  BY Zenon DEF signSection
<1>2. /\ Len(rrs) \in Nat /\ DOMAIN rrs = 1..Len(rrs)
      /\ \A i \in 1..Len(rrs) : IsRecord(rrs[i])
  BY Section
<1>3. ASSUME NEW rr, IsRecord(rr)
      PROVE  /\ IsSection(SignaturesOf(rr)) /\ Elements(SignaturesOf(rr)) \subseteq {Rrsig(rr)}
             /\ FailNamed(rr.owner, "rrsig-missing") \/ Rrsig(rr) \in Elements(SignaturesOf(rr))
  <2> DEFINE sig == Rrsig(rr)
             none == <<>>
             one == <<sig>>
             two == Copies(sig, 2)
  <2>1. IsRecord(sig)
    BY <1>3, RrsigIsRecord DEF IsRecord
  <2>2. \/ SignaturesOf(rr) = none /\ FailNamed(rr.owner, "rrsig-missing")
        \/ SignaturesOf(rr) = one \/ SignaturesOf(rr) = two
    BY DEF SignaturesOf
  <2> HIDE DEF sig
  <2>3. /\ IsSection(none) /\ IsSection(one) /\ IsSection(two)
        /\ Elements(none) = {} /\ Elements(one) = {sig} /\ Elements(two) \subseteq {sig}
    BY <2>1, EmptySection, OneRecord, CopiesSection
  <2>5. sig \in Elements(two)
    <3>1. two[1] = sig
      BY DEF Copies
    <3>2. Len(two) = 2
      BY <2>1, CopiesSection
    <3> QED
      BY <3>1, <3>2 DEF Elements
  <2> HIDE DEF none, one, two
  <2>4. /\ IsSection(SignaturesOf(rr)) /\ Elements(SignaturesOf(rr)) \subseteq {sig}
        /\ FailNamed(rr.owner, "rrsig-missing") \/ sig \in Elements(SignaturesOf(rr))
    BY <2>2, <2>3, <2>5
  <2> QED
    BY <2>4 DEF sig
<1>4. ASSUME NEW i \in 1..Len(rrs)
      PROVE  /\ IsSection(sigs(i)) /\ Elements(sigs(i)) \subseteq {Rrsig(rrs[i])}
             /\ (i < Len(rrs) /\ SameSet(rrs[i], rrs[i + 1])) \/ FailNamed(rrs[i].owner, "rrsig-missing")
                   \/ Rrsig(rrs[i]) \in Elements(sigs(i))
  <2> DEFINE rest == SignaturesOf(rrs[i])
             none == <<>>
  <2>1. /\ IsSection(rest) /\ IsSection(none)
        /\ Elements(rest) \subseteq {Rrsig(rrs[i])} /\ Elements(none) = {}
        /\ FailNamed(rrs[i].owner, "rrsig-missing") \/ Rrsig(rrs[i]) \in Elements(rest)
    <3>1. IsSection(none) /\ Elements(none) = {}
      BY EmptySection
    <3>2. /\ IsSection(rest) /\ Elements(rest) \subseteq {Rrsig(rrs[i])}
          /\ FailNamed(rrs[i].owner, "rrsig-missing") \/ Rrsig(rrs[i]) \in Elements(rest)
      BY <1>2, <1>3
    <3> QED
      BY <3>1, <3>2
  <2>2. sigs(i) = rest \/ (sigs(i) = none /\ i < Len(rrs) /\ SameSet(rrs[i], rrs[i + 1]))
    BY Zenon
  <2> HIDE DEF rest, none, sigs
  <2> QED
    BY <2>1, <2>2
<1> HIDE DEF sigs
<1>5. ASSUME NEW i \in 1..Len(rrs)
      PROVE  /\ IsSection(ss[i]) /\ ss[i] # <<>> /\ Elements(ss[i]) \subseteq {rrs[i], Rrsig(rrs[i])}
             /\ ss[i][1] = rrs[i] /\ Elements(sigs(i)) \subseteq Elements(ss[i])
  <2> DEFINE first == <<rrs[i]>>
             rest == sigs(i)
  <2>1. IsSection(first) /\ Len(first) = 1 /\ Elements(first) = {rrs[i]}
    BY <1>2, OneRecord
  <2>2. first # <<>> /\ first[1] = rrs[i]
    BY <2>1, EmptySection
  <2>3. ss[i] = first \o rest
    BY <1>2
  <2>4. IsSection(rest) /\ Elements(rest) \subseteq {Rrsig(rrs[i])}
    BY <1>4
  <2> DEFINE both == ss[i]
  <2>5. both = first \o rest
    BY <2>3
  <2> HIDE DEF first, rest, ss, both
  <2>6. /\ IsSection(both) /\ both # <<>> /\ Elements(both) = Elements(first) \cup Elements(rest)
        /\ both[1] = rrs[i]
    BY <2>1, <2>2, <2>4, <2>5, JoinedSections
  <2> QED
    BY <2>1, <2>4, <2>6 DEF both, rest
<1>6. ss = [i \in 1..Len(rrs) |-> ss[i]]
  BY <1>2
<1> HIDE DEF ss
<1> DEFINE n == Len(rrs)
<1>7. n \in Nat /\ ss = [i \in 1..n |-> ss[i]] /\ \A i \in 1..n : IsSection(ss[i]) /\ ss[i] # <<>>
  BY <1>2, <1>5, <1>6
<1>8. rrs # <<>> => n # 0
  BY DEF IsSection
<1> HIDE DEF n
<1>9. /\ IsSection(FlattenSeq(ss)) /\ (n # 0 => FlattenSeq(ss) # <<>> /\ FlattenSeq(ss)[1] = ss[1][1])
      /\ \A x \in Elements(FlattenSeq(ss)) : \E i \in 1..n : x \in Elements(ss[i])
      /\ \A i \in 1..n : Elements(ss[i]) \subseteq Elements(FlattenSeq(ss))
  BY <1>7, FlattenedSections
<1>11. n # 0 => FlattenSeq(ss)[1] = rrs[1]
  BY <1>5, <1>7, <1>9 DEF n
<1>12. ASSUME NEW i \in 1..n
       PROVE  \/ (i < Len(rrs) /\ SameSet(rrs[i], rrs[i + 1])) \/ FailNamed(rrs[i].owner, "rrsig-missing")
              \/ Rrsig(rrs[i]) \in Elements(FlattenSeq(ss))
  BY <1>4, <1>5, <1>9 DEF n
<1>10. ASSUME NEW x \in Elements(FlattenSeq(ss))
       PROVE  x \in Elements(rrs) \/ \E rr \in Elements(rrs) : x = Rrsig(rr)
  <2>1. PICK i \in 1..n : x \in Elements(ss[i])
    BY <1>9
  <2>2. rrs[i] \in Elements(rrs)
    BY <2>1 DEF Elements, n
  <2>3. x = rrs[i] \/ x = Rrsig(rrs[i])
    BY <1>5, <2>1 DEF n
  <2> QED
    BY <2>2, <2>3
<1> QED
  BY <1>1, <1>8, <1>9, <1>10, <1>11, <1>12 DEF n

\* Records that pack.
ArePacked(rrs) == \A rr \in Elements(rrs) : rr.packs
\* The replies that may have a record that does not pack: a long text and a corrupted
\* signature.
IsCorrupt(q) == FailNamed(q.labels, "sig-fail") /\ wantDNSSEC(q)
Excused(q) == IsLong(q) \/ IsCorrupt(q)

LEMMA RrsigPacks ==
    \A set : Rrsig(set).packs <=> ~(FailNamed(set.owner, "sig-fail") /\ set.type # "NSEC")
<1> TAKE set
<1> DEFINE rr == RR("RRSIG", SignedOwner(set), set.ttl, SigBytes)
           packs == ~(FailNamed(set.owner, "sig-fail") /\ set.type # "NSEC")
<1>1. rr = [x \in DOMAIN rr |-> rr[x]] /\ "packs" \in DOMAIN rr
  BY DEF RR
<1>2. Rrsig(set) = [rr EXCEPT !.packs = packs]
  BY DEF Rrsig
<1> HIDE DEF rr
<1>3. Rrsig(set).packs = packs
  <2> HIDE DEF packs
  <2> QED
    BY <1>1, <1>2
<1> QED
  BY <1>3

\* A signature of a plain record packs, but for those of sig-fail.
LEMMA SignedPacks ==
    ASSUME NEW q, ~FailNamed(q.labels, "sig-fail"), NEW rr, IsPlain(q, rr)
    PROVE  Rrsig(rr).packs
<1>1. ~FailNamed(Apex, "sig-fail")
  BY DEF FailNamed, Apex
<1>2. rr.owner = q.labels \/ rr.owner = Apex
  BY DEF IsPlain
<1> QED
  BY <1>1, <1>2, RrsigPacks

\* The NSEC records of a denial.
IsSpan(span) == Len(span.owner) \in Nat /\ Len(span.next) \in Nat

LEMMA NsecIsRecord ==
    ASSUME NEW span, IsSpan(span)
    PROVE  /\ IsRecord(NSEC(span)) /\ NSEC(span).packs /\ NSEC(span).type = "NSEC"
           /\ NSEC(span).owner = span.owner
<1> DEFINE bytes == NameBytes(span.owner) + 10 + NameBytes(span.next) + NsecTypeBytes
<1>2. bytes \in Nat /\ Len(span.owner) \in Nat
  BY NameBytesNat DEF IsSpan, NsecTypeBytes
<1>1. NSEC(span) = [type |-> "NSEC", owner |-> span.owner, ttl |-> 300, packs |-> TRUE,
                    next |-> span.next, types |-> span.types, bytes |-> bytes]
  BY DEF NSEC
<1> HIDE DEF bytes
<1> QED
  BY <1>1, <1>2 DEF IsRecord, IsOpt

\* The names of the chain around a name are sequences of labels.
IsChained(name) ==
    /\ Len(name) \in Nat /\ Len(WrongNext(name)) \in Nat
    /\ ~IsListed(name) => Len(Prev(name)) \in Nat /\ Len(NextOrSame(name)) \in Nat
AreChained(labels) == IsChained(labels) /\ IsChained(Wildcard) /\ ~IsListed(Wildcard)

\* So are those of the records that deny one.
LEMMA DenyingSpans ==
    ASSUME NEW labels, AreChained(labels), NEW qtype, NEW nodata
    PROVE  /\ \E S : /\ nsecForName(labels, qtype, nodata) \in Seq(S)
                     /\ \A span \in S : IsSpan(span)
           /\ IsSpan(nsecForWildcard)
<1>1. \A owner, next, types : Len(owner) \in Nat /\ Len(next) \in Nat => IsSpan(Span(owner, next, types))
  BY DEF IsSpan, Span
<1>2. ASSUME NEW span, IsSpan(span)
      PROVE  \E S : <<>> \in Seq(S) /\ <<span>> \in Seq(S) /\ \A s \in S : IsSpan(s)
  <2> DEFINE R == {span}
  <2>1. <<>> \in Seq(R) /\ <<span>> \in Seq(R) /\ \A s \in R : IsSpan(s)
    BY <1>2
  <2> HIDE DEF R
  <2> QED
    BY <2>1
<1>4. IsSpan(nsecForWildcard)
  <2> DEFINE types == {"NSEC", "RRSIG"}
             owner == <<Plain("!")>>
  <2>1. Len(owner) \in Nat /\ Len(NextOrSame(Wildcard)) \in Nat
    BY DEF AreChained, IsChained
  <2>2. nsecForWildcard = Span(owner, NextOrSame(Wildcard), types)
    BY DEF nsecForWildcard
  <2> HIDE DEF owner, types
  <2> QED
    BY <1>1, <2>1, <2>2
<1>3. CASE nodata \/ IsListed(labels)
  <2> DEFINE types == typesAtName(labels) \ {qtype}
             span == Span(labels, WrongNext(labels), types)
  <2>1. nsecForName(labels, qtype, nodata) = <<>> \/ nsecForName(labels, qtype, nodata) = <<span>>
    BY <1>3, Zenon DEF nsecForName, SpanAt
  <2>2. IsSpan(span)
    <3> HIDE DEF types
    <3> QED
      BY <1>1 DEF AreChained, IsChained
  <2> HIDE DEF span
  <2> QED
    BY <1>2, <2>1, <2>2, <1>4
<1>5. CASE ~(nodata \/ IsListed(labels))
  <2> DEFINE types == typesAtName(Prev(labels))
             span == Span(Prev(labels), NextOrSame(labels), types)
  <2>1. nsecForName(labels, qtype, nodata) = <<span>>
    BY <1>5, Zenon DEF nsecForName
  <2>2. IsSpan(span)
    <3> HIDE DEF types
    <3> QED
      BY <1>1, <1>5 DEF AreChained, IsChained
  <2> HIDE DEF span
  <2> QED
    BY <1>2, <2>1, <2>2, <1>4
<1> QED
  BY <1>3, <1>4, <1>5

LEMMA NsecsSection ==
    ASSUME NEW q, AreChained(q.labels), NEW m
    PROVE  /\ IsSection(NsecsOf(q, m))
           /\ IsSection([i \in DOMAIN NsecsOf(q, m) |-> Rrsig(NsecsOf(q, m)[i])])
           /\ ArePacked(NsecsOf(q, m))
           /\ ArePacked([i \in DOMAIN NsecsOf(q, m) |-> Rrsig(NsecsOf(q, m)[i])])
<1> DEFINE name == nsecForName(q.labels, q.qtype, isNoData(m))
           wild == IF m.rcode = NXDomain THEN <<nsecForWildcard>> ELSE <<>>
           spans == name \o wild
           nsecs == [i \in DOMAIN spans |-> NSEC(spans[i])]
           sigs == [i \in DOMAIN nsecs |-> Rrsig(nsecs[i])]
<1>1. \E S : name \in Seq(S) /\ \A span \in S : IsSpan(span)
  BY DenyingSpans
<1>2. \E S : wild \in Seq(S) /\ \A span \in S : IsSpan(span)
  <2> DEFINE span == nsecForWildcard
             R == {span}
  <2>1. wild = <<>> \/ wild = <<span>>
    BY Zenon
  <2>3. IsSpan(span)
    BY DenyingSpans
  <2> HIDE DEF span, wild
  <2>2. <<>> \in Seq(R) /\ <<span>> \in Seq(R) /\ \A s \in R : IsSpan(s)
    BY <2>3
  <2> HIDE DEF R
  <2> QED
    BY <2>1, <2>2
<1>3. NsecsOf(q, m) = nsecs
  BY Zenon DEF NsecsOf
<1> HIDE DEF name, wild
<1>4. \E n \in Nat : DOMAIN spans = 1..n /\ \A i \in 1..n : IsSpan(spans[i])
  <2>1. PICK S : name \in Seq(S) /\ \A span \in S : IsSpan(span)
    BY <1>1
  <2>2. PICK T : wild \in Seq(T) /\ \A span \in T : IsSpan(span)
    BY <1>2
  <2> DEFINE U == S \cup T
  <2>3. name \in Seq(U) /\ wild \in Seq(U) /\ \A span \in U : IsSpan(span)
    BY <2>1, <2>2
  <2> HIDE DEF U
  <2>4. spans \in Seq(U)
    BY <2>3
  <2> HIDE DEF spans
  <2>5. /\ Len(spans) \in Nat /\ DOMAIN spans = 1..Len(spans)
        /\ \A i \in 1..Len(spans) : spans[i] \in U
    BY <2>4
  <2> QED
    BY <2>3, <2>5
<1>5. PICK n \in Nat : DOMAIN spans = 1..n /\ \A i \in 1..n : IsSpan(spans[i])
  BY <1>4
<1> HIDE DEF spans
<1>6. /\ nsecs = [i \in 1..n |-> nsecs[i]]
      /\ \A i \in 1..n : /\ IsRecord(nsecs[i]) /\ nsecs[i].packs /\ nsecs[i].type = "NSEC"
                         /\ Len(nsecs[i].owner) \in Nat
  BY <1>5, NsecIsRecord DEF IsSpan
<1> HIDE DEF nsecs
<1>7. IsSection(nsecs) /\ Len(nsecs) = n /\ DOMAIN nsecs = 1..n
  BY <1>6, MakesSection
<1>8. /\ sigs = [i \in 1..n |-> sigs[i]]
      /\ \A i \in 1..n : IsRecord(sigs[i]) /\ sigs[i].packs
  BY <1>6, <1>7, RrsigIsRecord, RrsigPacks
<1>9. sigs = [i \in DOMAIN NsecsOf(q, m) |-> Rrsig(NsecsOf(q, m)[i])]
  BY <1>3
<1> HIDE DEF sigs
<1>10. IsSection(sigs) /\ Len(sigs) = n
  BY <1>8, MakesSection
<1>11. ArePacked(nsecs) /\ ArePacked(sigs)
  BY <1>6, <1>7, <1>8, <1>10 DEF ArePacked, Elements
<1> QED
  BY <1>3, <1>7, <1>9, <1>10, <1>11

LEMMA DenialSection ==
    ASSUME NEW q, AreChained(q.labels), NEW m
    PROVE  IsSection(Denial(q, m)) /\ ArePacked(Denial(q, m))
<1> DEFINE nsecs == NsecsOf(q, m)
           sigs == [i \in DOMAIN nsecs |-> Rrsig(nsecs[i])]
           nsec3 == RR("NSEC3", <<Plain("0")>>, 300, Nsec3Bytes)
           none == <<>>
           one == <<nsec3>>
           both == nsecs \o sigs
<1>1. IsSection(nsecs) /\ IsSection(sigs) /\ ArePacked(nsecs) /\ ArePacked(sigs)
  BY NsecsSection
<1>2. IsRecord(nsec3) /\ nsec3.packs
  <2> DEFINE owner == <<Plain("0")>>
  <2>1. Len(owner) \in Nat /\ Nsec3Bytes \in Nat
    BY DEF Nsec3Bytes
  <2> HIDE DEF owner
  <2>2. IsRecord(RR("NSEC3", owner, 300, Nsec3Bytes)) /\ RR("NSEC3", owner, 300, Nsec3Bytes).packs
    BY <2>1, RRIsRecord DEF RR
  <2> QED
    BY <2>2 DEF owner
<1>3. Denial(q, m) = none \/ Denial(q, m) = one \/ Denial(q, m) = both
  BY DEF Denial
<1> HIDE DEF nsecs, sigs, nsec3
<1>4. /\ IsSection(none) /\ Elements(none) = {}
      /\ IsSection(one) /\ Elements(one) = {nsec3}
      /\ IsSection(both) /\ Elements(both) = Elements(nsecs) \cup Elements(sigs)
  BY <1>1, <1>2, EmptySection, OneRecord, JoinedSections
<1>5. ArePacked(none) /\ ArePacked(one) /\ ArePacked(both)
  BY <1>1, <1>2, <1>4 DEF ArePacked
<1> HIDE DEF none, one, both
<1> QED
  BY <1>3, <1>4, <1>5

\* m and n agree on all but the answer and the authority; n has an answer if m has.
Extends(m, n) ==
    /\ IsMessage(n) /\ SameBut({"answer", "ns"}, m, n)
    /\ m.answer # <<>> => n.answer # <<>>

\* SignResponse: more records in the answer and in the authority, nothing else.
LEMMA ExtendedMessage ==
    ASSUME NEW m, IsMessage(m), NEW a, IsSection(a), NEW s, IsSection(s), m.answer # <<>> => a # <<>>,
           NEW n, n = [m EXCEPT !.answer = a, !.ns = s]
    PROVE  Extends(m, n)
<1>1. n = [x \in MsgFields |-> IF x = "answer" THEN a ELSE IF x = "ns" THEN s ELSE m[x]]
  BY DEF IsMessage, MsgFields
<1>2. /\ n = [x \in MsgFields |-> n[x]] /\ n.answer = a /\ n.ns = s /\ n.extra = m.extra
      /\ n.qname = m.qname /\ SameBut({"answer", "ns"}, m, n)
  BY <1>1 DEF SameBut, MsgFields
<1>3. IsMessage(n)
  BY <1>2 DEF IsMessage
<1> QED
  BY <1>2, <1>3 DEF Extends

LEMMA KeyedMessage ==
    ASSUME NEW m, IsMessage(m), NEW q, NEW n, n = WithKeys(q, m)
    PROVE  /\ Extends(m, n)
           /\ ArePlain(q, m.answer) => ArePlain(q, n.answer)
           /\ ArePlain(q, m.ns) => ArePlain(q, n.ns)
<1> DEFINE key == RR("DNSKEY", Apex, 3600, KeyBytes)
           keys == Keys
           answer == m.answer \o keys
           ns == m.ns \o keys
<1>1. IsSection(keys) /\ ArePlain(q, keys)
  <2>1. IsRecord(key) /\ IsPlain(q, key)
    <3>1. Len(Apex) \in Nat /\ KeyBytes \in Nat
      BY DEF Apex, KeyBytes
    <3> QED
      BY <3>1, RRIsRecord, PlainRecord
  <2>2. Keys = Copies(key, 2)
    BY DEF Keys
  <2> HIDE DEF key
  <2>3. IsSection(keys) /\ Elements(keys) \subseteq {key}
    BY <2>1, <2>2, CopiesSection
  <2> QED
    BY <2>1, <2>3 DEF ArePlain
<1>2. n = [m EXCEPT !.answer = answer] \/ n = [m EXCEPT !.ns = ns] \/ n = m
  BY DEF WithKeys
<1> HIDE DEF keys
<1>3. /\ IsSection(m.answer) /\ IsSection(m.ns)
      /\ IsSection(answer) /\ IsSection(ns) /\ (m.answer # <<>> => answer # <<>>)
      /\ Elements(answer) = Elements(m.answer) \cup Elements(keys)
      /\ Elements(ns) = Elements(m.ns) \cup Elements(keys)
  BY <1>1, JoinedSections DEF IsMessage
<1>9. /\ ArePlain(q, m.answer) => ArePlain(q, answer)
      /\ ArePlain(q, m.ns) => ArePlain(q, ns)
  BY <1>1, <1>3 DEF ArePlain
<1> HIDE DEF answer, ns
<1>4. CASE n = [m EXCEPT !.answer = answer]
  <2>1. n = [m EXCEPT !.answer = answer, !.ns = m.ns]
    BY <1>4 DEF IsMessage, MsgFields
  <2>2. n.answer = answer /\ n.ns = m.ns
    BY <2>1 DEF IsMessage, MsgFields
  <2> QED
    BY <1>3, <1>9, <2>1, <2>2, ExtendedMessage
<1>5. CASE n = [m EXCEPT !.ns = ns]
  <2>1. n = [m EXCEPT !.answer = m.answer, !.ns = ns]
    BY <1>5 DEF IsMessage, MsgFields
  <2>2. n.answer = m.answer /\ n.ns = ns
    BY <2>1 DEF IsMessage, MsgFields
  <2> QED
    BY <1>3, <1>9, <2>1, <2>2, ExtendedMessage
<1>6. CASE n = m
  BY <1>6 DEF Extends, SameBut
<1> QED
  BY <1>2, <1>4, <1>5, <1>6

\* What is signed packs if all of it was plain and the name is not sig-fail.
LEMMA PackedSection ==
    ASSUME NEW q, ~Excused(q), wantDNSSEC(q), NEW rrs, IsSection(rrs), ArePlain(q, rrs)
    PROVE  ArePacked(signSection(rrs))
<1>1. ~IsLong(q) /\ ~FailNamed(q.labels, "sig-fail")
  BY DEF Excused, IsCorrupt
<1>2. \A rr \in Elements(rrs) : rr.packs /\ Rrsig(rr).packs
  BY <1>1, SignedPacks DEF ArePlain, IsPlain
<1> QED
  BY <1>2, SignedSection DEF ArePacked

LEMMA SignedMessage ==
    ASSUME NEW m, IsMessage(m), NEW q, AreChained(q.labels), NEW n, n = SignResponse(q, m)
    PROVE  /\ Extends(m, n)
           /\ ~Excused(q) /\ ArePlain(q, m.answer) /\ ArePlain(q, m.ns) =>
                 ArePacked(n.answer) /\ ArePacked(n.ns)
<1> DEFINE keyed == WithKeys(q, m)
           denial == Denial(q, m)
           answer == signSection(keyed.answer)
           signed == signSection(keyed.ns)
           ns == signed \o denial
<1>1. n = m \/ (wantDNSSEC(q) /\ n = [keyed EXCEPT !.answer = answer, !.ns = ns])
  BY DEF SignResponse
<1>2. /\ Extends(m, keyed)
      /\ ArePlain(q, m.answer) => ArePlain(q, keyed.answer)
      /\ ArePlain(q, m.ns) => ArePlain(q, keyed.ns)
  BY KeyedMessage
<1>3. IsSection(denial) /\ ArePacked(denial)
  BY DenialSection
<1> HIDE DEF keyed, denial
<1>4. IsSection(keyed.answer) /\ IsSection(keyed.ns) /\ IsMessage(keyed)
  BY <1>2 DEF Extends, IsMessage
<1>5. IsSection(answer) /\ IsSection(signed) /\ (keyed.answer # <<>> => answer # <<>>)
  BY <1>4, SignedSection
<1>9. ASSUME ~Excused(q), wantDNSSEC(q), ArePlain(q, m.answer), ArePlain(q, m.ns)
      PROVE  ArePacked(answer) /\ ArePacked(signed)
  BY <1>2, <1>4, <1>9, PackedSection
<1> HIDE DEF answer, signed
<1>6. IsSection(ns) /\ Elements(ns) = Elements(signed) \cup Elements(denial)
  BY <1>3, <1>5, JoinedSections
<1>10. ArePacked(signed) => ArePacked(ns)
  BY <1>3, <1>6 DEF ArePacked
<1> HIDE DEF ns
<1>7. CASE n = m
  <2>1. ~Excused(q) /\ ArePlain(q, m.answer) /\ ArePlain(q, m.ns) =>
           ArePacked(m.answer) /\ ArePacked(m.ns)
    BY DEF Excused, ArePlain, ArePacked, IsPlain
  <2> QED
    BY <1>7, <2>1 DEF Extends, SameBut
<1>8. CASE wantDNSSEC(q) /\ n = [keyed EXCEPT !.answer = answer, !.ns = ns]
  <2>1. Extends(keyed, n)
    BY <1>4, <1>5, <1>6, <1>8, ExtendedMessage
  <2>2. n.answer = answer /\ n.ns = ns
    BY <1>4, <1>8 DEF IsMessage, MsgFields
  <2>3. ~Excused(q) /\ ArePlain(q, m.answer) /\ ArePlain(q, m.ns) =>
           ArePacked(n.answer) /\ ArePacked(n.ns)
    BY <1>8, <1>9, <1>10, <2>2
  <2>4. Extends(m, n)
    BY <1>2, <2>1 DEF Extends, SameBut
  <2> QED
    BY <2>3, <2>4
<1> QED
  BY <1>1, <1>7, <1>8

\* The same of a reply that may be signed: its records pack, with these exceptions.
Packed(m) == ArePacked(m.answer) /\ ArePacked(m.ns) /\ ArePacked(m.extra)
PacksUnless(q, m) == ~Excused(q) => Packed(m)
Sealed(q, m) ==
    /\ IsMessage(m) /\ m.qname = q.labels /\ ~m.tc /\ m.rcode # BadVers
    /\ m.extra # <<>> => m.answer # <<>>
    /\ PacksUnless(q, m) /\ Unpadded(m)

LEMMA BuiltIsSealed ==
    ASSUME NEW q, NEW m, Built(q, m)
    PROVE  Sealed(q, m)
  BY DEF Built, Sealed, PacksUnless, Packed, Excused, ArePlain, ArePacked, IsPlain

LEMMA SignedIsSealed ==
    ASSUME NEW q, AreChained(q.labels), NEW m, Built(q, m), NEW n, n = SignResponse(q, m)
    PROVE  Sealed(q, n) /\ n.extra = m.extra
<1>1. /\ Extends(m, n)
      /\ ~Excused(q) => ArePacked(n.answer) /\ ArePacked(n.ns)
  BY SignedMessage DEF Built
<1>2. n.extra = m.extra /\ n.qname = m.qname /\ n.tc = m.tc /\ n.rcode = m.rcode
  BY <1>1 DEF Extends, SameBut, MsgFields
<1>3. ~Excused(q) => ArePacked(n.extra)
  BY <1>2, BuiltIsSealed DEF Sealed, PacksUnless, Packed
<1> QED
  BY <1>1, <1>2, <1>3 DEF Built, Sealed, PacksUnless, Packed, Extends, Unpadded

-----------------------------------------------------------------------------
\* The answers of class CH.
LEMMA FreshChaos ==
    ASSUME NEW q, NEW m, Fresh(q, m)
    PROVE  Fresh(q, Chaos(q, m))
<1> DEFINE n == Chaos(q, m)
           a == <<HostnameBytes>>
           b == <<24, 51>>
<1>1. \/ q.zone = "hostname.bind" /\ n = appendTXT(m, 0, a)
      \/ n = appendTXT(m, 0, b) \/ n = m
  BY Zenon DEF Chaos
<1>3. b \in Seq(Nat) /\ \A i \in DOMAIN b : b[i] <= 255
  OBVIOUS
<1>5. a \in Seq(Nat)
  BY AnswersAssumption
<1>4. q.zone = "hostname.bind" /\ ~IsLong(q) => \A i \in DOMAIN a : a[i] <= 255
  BY AnswersAssumption DEF IsLong
<1> HIDE DEF n, a, b
<1>2. Fresh(q, n)
  BY <1>1, <1>3, <1>4, <1>5, FreshTXT
<1> QED
  BY <1>2 DEF n

AllOpts(m) == \A i \in 1..Len(m.extra) : IsOpt(m.extra[i])

\* What Handle returns: no TC; records in the additional section only with an answer or
\* if they are OPT records; no OPT record unless in a BADVERS or size-N reply; no record
\* that does not pack but for these exceptions.
Handled(q, m) ==
    /\ IsMessage(m) /\ m.qname = q.labels /\ ~m.tc
    /\ m.answer = <<>> => AllOpts(m)
    /\ NoOpts(m) \/ m.rcode = BadVers
         \/ (q.asked /\ q.class # "CH" /\ q.zone = "in"
             /\ ~(q.edns.present /\ q.edns.version # 0) /\ SizeOf(q))
    /\ m.rcode = BadVers <=> (q.edns.present /\ q.edns.version # 0)
    /\ PacksUnless(q, m) /\ Unpadded(m)

LEMMA HandledReply ==
    ASSUME NEW q, AreChained(q.labels), NEW seen \in Nat, NEW n, n = Handle(q, seen)
    PROVE  Handled(q, n)
<1> DEFINE m == Reply(q.labels)
<1>1. Fresh(q, m) /\ m.answer = <<>> /\ m.ns = <<>>
  BY FreshReply DEF AreChained, IsChained
<1>2. m = Reply(q.labels)
  OBVIOUS
<1> HIDE DEF m
<1>3. CASE q.edns.present /\ q.edns.version # 0
  <2> DEFINE bad == [m EXCEPT !.rcode = BadVers]
             no == FALSE
             opt == Opt(4096, no)
  <2>1. n = SetEdns0(bad, 4096, no)
    BY <1>2, <1>3 DEF Handle
  <2>2. /\ IsMessage(bad) /\ bad.extra = <<>> /\ bad.qname = q.labels /\ bad.tc = m.tc
        /\ bad.rcode = BadVers /\ bad.answer = <<>> /\ bad.ns = <<>>
    <3>1. bad = [x \in MsgFields |-> IF x = "rcode" THEN BadVers ELSE m[x]]
      BY <1>1 DEF Fresh, IsMessage, MsgFields
    <3> HIDE DEF bad
    <3>2. /\ bad = [x \in MsgFields |-> bad[x]] /\ bad.answer = m.answer /\ bad.ns = m.ns
          /\ bad.extra = m.extra /\ bad.qname = m.qname /\ bad.tc = m.tc /\ bad.rcode = BadVers
      BY <3>1 DEF MsgFields
    <3> QED
      BY <1>1, <3>2 DEF Fresh, IsMessage
  <2> HIDE DEF bad, no
  <2>3. IsMessage(n) /\ SameBut({"extra"}, bad, n) /\ n.extra = Append(bad.extra, opt)
    BY <2>1, <2>2, SetEdns0Appends
  <2>4. IsRecord(opt) /\ IsOpt(opt)
    BY OptIsRecord
  <2> HIDE DEF opt
  <2>5. Len(n.extra) = 1 /\ n.extra[1] = opt
    BY <2>2, <2>3
  <2>10. opt.codes = {}
    BY DEF opt, Opt
  <2>6. AllOpts(n) /\ Unpadded(n)
    BY <2>4, <2>5, <2>10 DEF AllOpts, Unpadded
  <2>7. /\ n.qname = q.labels /\ n.tc = m.tc /\ n.rcode = BadVers
        /\ n.answer = <<>> /\ n.ns = <<>>
    BY <2>2, <2>3 DEF SameBut, MsgFields
  <2>8. opt.packs
    BY DEF opt, Opt
  <2>9. ArePacked(n.answer) /\ ArePacked(n.ns) /\ ArePacked(n.extra)
    <3>1. Elements(n.answer) = {} /\ Elements(n.ns) = {} /\ Elements(n.extra) = {opt}
      <4>1. Elements(n.extra) = {n.extra[i] : i \in 1..1}
        BY <2>5 DEF Elements
      <4> QED
        BY <2>5, <2>7, <4>1, EmptySection
    <3> QED
      BY <2>8, <3>1 DEF ArePacked
  <2> QED
    BY <1>1, <1>3, <2>3, <2>6, <2>7, <2>9 DEF Handled, Fresh, PacksUnless, Packed
<1>4. CASE ~(q.edns.present /\ q.edns.version # 0)
  <2> DEFINE zone == ZoneReply(q, m, seen)
             reaches == q.asked /\ q.class # "CH" /\ q.zone = "in"
             formErr == [m EXCEPT !.rcode = FormErr]
             refused == [m EXCEPT !.rcode = Refused]
  <2>1. Fresh(q, formErr) /\ Fresh(q, refused)
    <3>1. /\ formErr = Updated(m, m.answer, m.ns, FormErr)
          /\ refused = Updated(m, m.answer, m.ns, Refused)
      BY <1>1 DEF Fresh, IsMessage, MsgFields, Updated
    <3>2. /\ IsSection(m.answer) /\ IsSection(m.ns)
          /\ ArePlain(q, m.answer) /\ ArePlain(q, m.ns)
      BY <1>1 DEF Fresh, IsMessage
    <3>3. FormErr # BadVers /\ Refused # BadVers
      BY DEF FormErr, Refused, BadVers
    <3> QED
      BY <1>1, <3>1, <3>2, <3>3, FreshWith
  <2>2. Fresh(q, Chaos(q, m))
    BY <1>1, FreshChaos
  <2>3. n = IF ~q.asked THEN formErr
            ELSE IF q.class = "CH" THEN Chaos(q, m)
            ELSE IF q.zone # "in" THEN refused
            ELSE SignResponse(q, zone)
    <3> DEFINE bad == SetEdns0([m EXCEPT !.rcode = BadVers], 4096, FALSE)
               early == q.edns.present /\ q.edns.version # 0
    <3>1. Handle(q, seen) =
             IF early THEN bad
             ELSE IF ~q.asked THEN formErr
             ELSE IF q.class = "CH" THEN Chaos(q, m)
             ELSE IF q.zone # "in" THEN refused
             ELSE SignResponse(q, zone)
      BY Zenon DEF Handle, m
    <3>2. ~early
      BY <1>4
    <3> HIDE DEF bad, early, formErr, refused, zone
    <3> QED
      BY <3>1, <3>2
  <2> HIDE DEF formErr, refused, zone
  <2>4. Fresh(q, n) \/ (reaches /\ n = SignResponse(q, zone))
    BY <2>1, <2>2, <2>3
  <2> USE DEF zone
  <2>5. Built(q, zone) /\ (NoOpts(zone) \/ SizeOf(q))
    BY <1>1, BuiltZoneReply
  <2> HIDE DEF zone
  <2>6. Sealed(q, n) /\ (NoOpts(n) \/ (reaches /\ SizeOf(q)))
    <3>1. CASE Fresh(q, n)
      BY <3>1, FreshIsBuilt, BuiltIsSealed
    <3>2. CASE reaches /\ n = SignResponse(q, zone)
      <4>1. Sealed(q, n) /\ n.extra = zone.extra
        BY <2>5, <3>2, SignedIsSealed
      <4> QED
        BY <2>5, <3>2, <4>1 DEF NoOpts
    <3> QED
      BY <2>4, <3>1, <3>2
  <2>7. n.answer = <<>> => AllOpts(n)
    <3>1. n.extra = <<>> => AllOpts(n)
      BY EmptySection DEF AllOpts
    <3> QED
      BY <2>6, <3>1 DEF Sealed
  <2> QED
    BY <1>4, <2>6, <2>7 DEF Handled, Sealed
<1> QED
  BY <1>3, <1>4

-----------------------------------------------------------------------------
(***************************************************************************)
(* The set-options of a name.                                              *)
(***************************************************************************)
\* The set-options of a query's name are labels of the name.
LEMMA OptionsAreLabels ==
    ASSUME NEW L, NEW q, q.labels \in Seq(L)
    PROVE  OptionsOf(q) \in Seq(L)
<1> DEFINE labels == q.labels
           outer == SubSeq(labels, 1, Len(labels) - 2)
           none == <<>>
<1>1. labels \in Seq(L) /\ none \in Seq(L)
  OBVIOUS
<1>2. IsUnder(labels, "diag") => outer \in Seq(L)
  <2> SUFFICES ASSUME Len(labels) > 1 PROVE outer \in Seq(L)
    BY DEF IsUnder
  <2>1. Len(labels) \in Nat
    BY <1>1
  <2>2. Len(labels) - 2 \in 0..Len(labels)
    BY <2>1
  <2> QED
    BY <1>1, <2>2
<1>3. \/ OptionsOf(q) = none
      \/ OptionsOf(q) = Only(labels, isSetOption)
      \/ IsUnder(labels, "diag") /\ OptionsOf(q) = Only(outer, isSetOption)
  BY DEF OptionsOf, Parsed, parseDiag, parseTopLevel
<1> HIDE DEF labels, outer, none
<1> QED
  BY <1>1, <1>2, <1>3, OnlyOptions

\* A name without set-options asks for nothing.
LEMMA NoOptionsNoneValid ==
    ASSUME NEW kind
    PROVE  ValidOptions(<<>>, kind) = <<>>
<1> DEFINE S == {}
           none == <<>>
           some == ValidOptions(none, kind)
           P == {i \in 1..Len(none) : (none[i].kind = kind /\ isValidSetOption(none[i]))}
<1>1. none \in Seq(S) /\ P = {}
  OBVIOUS
<1>2. some \in Seq(S) /\ Picks(some, none, P)
  <2> HIDE DEF S
  <2> QED
    BY <1>1, OnlyOfKind
<1> HIDE DEF some, none, P
<1>3. PICK e : Enumerates(e, some, none, P)
  BY <1>2 DEF Picks
<1>4. Len(some) = 0
  <2>1. Len(some) \in Nat
    BY <1>2
  <2>2. 1 \notin 1..Len(some)
    BY <1>1, <1>3 DEF Enumerates
  <2> QED
    BY <2>1, <2>2
<1>5. some = <<>>
  BY <1>2, <1>4
<1> QED
  BY <1>5 DEF some, none

LEMMA NoOptionsNoAnswer ==
    ASSUME NEW m, NEW labels, NEW qtype
    PROVE  applySetAnswer(m, <<>>, labels, qtype) = m
<1> DEFINE addresses == ValidOptions(<<>>, "set-answer")
           strings == ValidOptions(<<>>, "set-answer-txt")
           first == Replaced(m, [i \in DOMAIN addresses |-> RR("A", labels, 0, 4)])
           second == Replaced(m, <<TXT(labels, 0, [i \in DOMAIN strings |-> strings[i].arg])>>)
<1>1. applySetAnswer(m, <<>>, labels, qtype) =
          CASE qtype = "A" /\ addresses # <<>> -> first
            [] qtype = "TXT" /\ strings # <<>> -> second
            [] OTHER -> m
  BY Zenon DEF applySetAnswer
<1>2. addresses = <<>> /\ strings = <<>>
  BY NoOptionsNoneValid, Zenon
<1> HIDE DEF addresses, strings, first, second
<1> QED
  BY <1>1, <1>2

\* The records set-answer leaves depend on nothing but the answer and the authority.
LEMMA SetAnswerRecords ==
    ASSUME NEW m, IsMessage(m), NEW n, IsMessage(n), m.answer = n.answer, m.ns = n.ns,
           NEW S, NEW options \in Seq(S), NEW labels, Len(labels) \in Nat, NEW qtype,
           NEW a, a = applySetAnswer(m, options, labels, qtype),
           NEW b, b = applySetAnswer(n, options, labels, qtype)
    PROVE  a.answer = b.answer /\ a.ns = b.ns
<1> DEFINE addresses == ValidOptions(options, "set-answer")
           strings == ValidOptions(options, "set-answer-txt")
           first == [i \in DOMAIN addresses |-> RR("A", labels, 0, 4)]
           second == <<TXT(labels, 0, [i \in DOMAIN strings |-> strings[i].arg])>>
<1>1. /\ a = CASE qtype = "A" /\ addresses # <<>> -> Replaced(m, first)
               [] qtype = "TXT" /\ strings # <<>> -> Replaced(m, second)
               [] OTHER -> m
      /\ b = CASE qtype = "A" /\ addresses # <<>> -> Replaced(n, first)
               [] qtype = "TXT" /\ strings # <<>> -> Replaced(n, second)
               [] OTHER -> n
  BY Zenon DEF applySetAnswer
<1> HIDE DEF first, second
<1>2. \A rrs : /\ Replaced(m, rrs).answer = rrs /\ Replaced(m, rrs).ns = <<>>
               /\ Replaced(n, rrs).answer = rrs /\ Replaced(n, rrs).ns = <<>>
  BY DEF Replaced, IsMessage, MsgFields
<1>3. "A" # "TXT"
  OBVIOUS
<1> QED
  BY <1>1, <1>2, <1>3

-----------------------------------------------------------------------------
\* Additional sections of OPT records alone stay so.
LEMMA AppendedOpts ==
    ASSUME NEW m, IsMessage(m), AllOpts(m), NEW udp, NEW do, NEW n, n.extra = Append(m.extra, Opt(udp, do))
    PROVE  AllOpts(n)
<1>1. IsRecord(Opt(udp, do)) /\ IsOpt(Opt(udp, do)) /\ IsSection(m.extra)
  BY OptIsRecord DEF IsMessage
<1>2. Len(m.extra) \in Nat
  BY <1>1, Section
<1>3. /\ Len(n.extra) = Len(m.extra) + 1 /\ n.extra[Len(m.extra) + 1] = Opt(udp, do)
      /\ \A i \in 1..Len(m.extra) : n.extra[i] = m.extra[i]
  BY <1>1, AppendedSection
<1> QED
  BY <1>1, <1>2, <1>3 DEF AllOpts

\* So EnsureOpt, options, modifiers, padding and NSID keep them.
LEMMA EnsuredOpts ==
    ASSUME NEW m, IsMessage(m), AllOpts(m)
    PROVE  AllOpts(EnsureOpt(m))
<1>1. CASE HasOpt(m)
  BY <1>1, EnsureOptHas
<1>2. CASE ~HasOpt(m)
  <2> DEFINE n == EnsureOpt(m)
             no == FALSE
             size == 4096
  <2>1. n.extra = Append(m.extra, Opt(size, no))
    <3>1. EmptyOpt = Opt(size, no)
      BY Zenon DEF EmptyOpt
    <3>2. n.extra = Append(m.extra, EmptyOpt)
      BY <1>2, EnsureOptHas
    <3> HIDE DEF n, no, size
    <3> QED
      BY <3>1, <3>2
  <2> HIDE DEF n, no, size
  <2>2. AllOpts(n)
    BY <2>1, AppendedOpts
  <2> QED
    BY <2>2 DEF n
<1> QED
  BY <1>1, <1>2

LEMMA AddedOpts ==
    ASSUME NEW m, IsMessage(m), AllOpts(m), HasOpt(m), NEW code, NEW length \in Nat,
           NEW n, n = AddOption(m, code, length)
    PROVE  AllOpts(n)
<1>1. /\ Len(n.extra) = Len(m.extra)
      /\ \A i \in 1..Len(m.extra) : n.extra[i] =
            IF i = OptIndex(m) THEN WithOption(m.extra[i], code, length) ELSE m.extra[i]
  BY AddOptionToLast
<1>2. \A i \in 1..Len(m.extra) : IsRecord(m.extra[i]) /\ IsOpt(m.extra[i])
  BY Section DEF AllOpts, IsMessage
<1>3. \A i \in 1..Len(m.extra) : IsOpt(WithOption(m.extra[i], code, length))
  BY <1>2, WithOptionIsOpt
<1> QED
  BY <1>1, <1>2, <1>3 DEF AllOpts

LEMMA ModifiedOpts ==
    ASSUME NEW S, NEW options \in Seq(S), NEW m, IsMessage(m), AllOpts(m),
           NEW n, n = applySetModifiers(m, options)
    PROVE  AllOpts(n)
<1> DEFINE all == ValidIn(options)
<1>1. PICK F : IsRun(F, m, all, n)
  BY ModifiersRun
<1>2. all \in Seq(S)
  BY OnlyValid DEF ValidIn
<1> HIDE DEF all
<1>3. \A k \in 0..Len(all) : IsMessage(F[k])
  BY <1>1, <1>2, ModifiersKeep
<1>4. Len(all) \in Nat /\ Len(all) \in 0..Len(all) /\ F[0] = m /\ F[Len(all)] = n
  BY <1>1, <1>2 DEF IsRun
<1> DEFINE T == {k \in 0..Len(all) : AllOpts(F[k])}
<1>5. 0 \in T
  BY <1>4
<1>6. ASSUME NEW k \in 0..(Len(all) - 1), k \in T
      PROVE  k + 1 \in T
  <2>1. k + 1 \in 1..Len(all) /\ (k + 1) - 1 = k /\ k + 1 \in 0..Len(all) /\ k \in 0..Len(all)
    BY <1>4
  <2> DEFINE f == F[k]
             g == F[k + 1]
             o == all[k + 1]
  <2>2. g = Modified(f, o) /\ IsMessage(f) /\ AllOpts(f) /\ HasLength(o)
    BY <1>1, <1>3, <1>6, <2>1 DEF IsRun
  <2> HIDE DEF f, g, o
  <2>3. Turn(f, o, g)
    BY <2>2, ModifiedMessage
  <2>4. o.kind \notin OptionKinds => AllOpts(g)
    BY <2>2, <2>3 DEF Turn, AllOpts
  <2>5. ASSUME o.kind \in OptionKinds
        PROVE  AllOpts(g)
    <3>1. g = AddOption(EnsureOpt(f), CodeOf(o.kind), o.arg)
      BY <2>3, <2>5 DEF Turn
    <3>2. IsMessage(EnsureOpt(f)) /\ HasOpt(EnsureOpt(f)) /\ AllOpts(EnsureOpt(f))
      BY <2>2, EnsureOptHas, EnsuredOpts
    <3>3. o.arg \in Nat
      BY <2>2, <2>5 DEF HasLength
    <3> QED
      BY <3>1, <3>2, <3>3, AddedOpts
  <2>6. AllOpts(g)
    BY <2>4, <2>5
  <2> QED
    BY <2>1, <2>6 DEF g
<1>7. Len(all) \in T
  <2> HIDE DEF T
  <2> QED
    BY <1>4, <1>5, <1>6, Loop!Induct
<1> QED
  BY <1>4, <1>7

LEMMA PaddedOpts ==
    ASSUME NEW m, IsMessage(m), AllOpts(m), NEW S, NEW options \in Seq(S),
           NEW n, n = applySetEdnsPad(m, options)
    PROVE  AllOpts(n)
<1> DEFINE padded == EnsureOpt(m)
<1>1. n = m \/ n = padded \/ \E need \in Nat : n = AddOption(padded, "PADDING", need)
  BY PadCases
<1>2. IsMessage(padded) /\ HasOpt(padded) /\ AllOpts(padded)
  BY EnsureOptHas, EnsuredOpts
<1> HIDE DEF padded
<1> QED
  BY <1>1, <1>2, AddedOpts

LEMMA NsidOpts ==
    ASSUME NEW m, IsMessage(m), AllOpts(m), NEW length \in Nat, NEW n, n = DefaultNsid(m, length)
    PROVE  AllOpts(n)
<1>1. n = m \/ (HasOpt(m) /\ n = AddOption(m, "NSID", length))
  BY DEF DefaultNsid
<1> QED
  BY <1>1, AddedOpts

\* With nothing but OPT records to drop, set-noedns need not truncate.
LEMMA NothingToDrop ==
    ASSUME NEW m, IsMessage(m), AllOpts(m), m.answer = <<>>, m.ns = <<>>,
           NameBytes(m.qname) \in 0..255, NEW n, n = WithoutEdns(m)
    PROVE  n.tc = m.tc
<1> DEFINE kept == Only(m.extra, NotOpt)
           bare == [m EXCEPT !.extra = kept]
           P == {i \in 1..Len(m.extra) : NotOpt(m.extra[i])}
<1>1. PICK R : m.extra \in Seq(R)
  BY DEF IsMessage, IsSection
<1>2. kept \in Seq(R) /\ Picks(kept, m.extra, P) /\ P = {}
  BY <1>1, OnlyNotOpt DEF AllOpts, NotOpt
<1>3. n = truncateToUDPSize(bare, 512)
  BY DEF WithoutEdns
<1> HIDE DEF kept, P
<1>4. kept = <<>>
  <2>1. PICK e : Enumerates(e, kept, m.extra, P)
    BY <1>2 DEF Picks
  <2>2. Len(kept) \in Nat /\ 1 \notin 1..Len(kept)
    BY <1>2, <2>1 DEF Enumerates
  <2>3. Len(kept) = 0
    BY <2>2
  <2> QED
    BY <1>2, <2>3
<1>5. /\ bare.answer = <<>> /\ bare.ns = <<>> /\ bare.extra = <<>> /\ bare.tc = m.tc
      /\ bare.qname = m.qname
  BY <1>4 DEF IsMessage, MsgFields
<1> HIDE DEF bare
<1>6. Size(bare) = BareSize(bare) /\ BareSize(bare) <= 512
  <2>1. NameBytes(bare.qname) \in 0..255
    BY <1>5
  <2>2. \A b \in 0..255 : b \in Nat /\ 12 + b + 4 <= 512
    OBVIOUS
  <2> QED
    BY <1>5, <2>1, <2>2, EmptySize DEF BareSize
<1>7. n = bare
  BY <1>3, <1>6 DEF truncateToUDPSize
<1> QED
  BY <1>5, <1>7

-----------------------------------------------------------------------------
(***************************************************************************)
(* FinalizeResponse, one step after the other.                             *)
(***************************************************************************)
Mirrors(q, m) == q.edns.present /\ m.rcode # BadVers
WithEdns(q, m) == IF Mirrors(q, m) THEN SetEdns0(m, UdpSize(q.edns), q.edns.do) ELSE m
IsMarked(q, m) == IsApexDnskey(q) /\ (~Mirrors(q, m) \/ UdpSize(q.edns) <= 512)
Marked(q, m) ==
    IF IsMarked(q, m) THEN [WithEdns(q, m) EXCEPT !.tc = TRUE] ELSE WithEdns(q, m)
Changed(q, m) == applySetOptions(Marked(q, m), OptionsOf(q), q.labels, q.qtype)
WithNsid(q, m, length) ==
    IF q.edns.present /\ q.edns.nsid THEN DefaultNsid(Changed(q, m), length) ELSE Changed(q, m)
Bare(q, m, length) ==
    IF HasOption(OptionsOf(q), "set-noedns")
    THEN WithoutEdns(WithNsid(q, m, length)) ELSE WithNsid(q, m, length)

\* FinalizeResponse consists of these steps.
LEMMA FinalizeSteps ==
    ASSUME NEW q, NEW m, NEW length
    PROVE  FinalizeResponse(q, m, length) =
               IF ~q.asked THEN WithEdns(q, m)
               ELSE IF HasOption(OptionsOf(q), "set-nocompress")
                    THEN [Bare(q, m, length) EXCEPT !.compress = FALSE]
               ELSE Bare(q, m, length)
  BY Zenon DEF FinalizeResponse, Mirrors, WithEdns, IsMarked, Marked, Changed, WithNsid, Bare

\* EDNS is mirrored in the additional section.
LEMMA WithEdnsMessage ==
    ASSUME NEW q, NEW m, IsMessage(m), NEW n, n = WithEdns(q, m)
    PROVE  /\ IsMessage(n) /\ SameBut({"extra"}, m, n) /\ (AllOpts(m) => AllOpts(n))
           /\ Mirrors(q, m) => n.extra = Append(m.extra, Opt(UdpSize(q.edns), q.edns.do))
<1>1. CASE Mirrors(q, m)
  <2> DEFINE size == UdpSize(q.edns)
             do == q.edns.do
  <2>1. n = SetEdns0(m, size, do)
    BY <1>1 DEF WithEdns
  <2> HIDE DEF size, do
  <2>2. /\ IsMessage(n) /\ SameBut({"extra"}, m, n) /\ n.extra = Append(m.extra, Opt(size, do))
    BY <2>1, SetEdns0Appends
  <2>3. AllOpts(m) => AllOpts(n)
    BY <2>2, AppendedOpts
  <2> QED
    BY <2>2, <2>3 DEF size, do
<1>2. CASE ~Mirrors(q, m)
  BY <1>2 DEF WithEdns, SameBut
<1> QED
  BY <1>1, <1>2

\* Before the set-options: EDNS in the additional section, maybe TC, and nothing else.
LEMMA MarkedReply ==
    ASSUME NEW q, NEW m, IsMessage(m), NEW n, n = Marked(q, m)
    PROVE  /\ IsMessage(n) /\ SameBut({"extra", "tc"}, m, n)
           /\ AllOpts(m) => AllOpts(n)
           /\ n.tc => m.tc \/ IsMarked(q, m)
           /\ Mirrors(q, m) => n.extra = Append(m.extra, Opt(UdpSize(q.edns), q.edns.do))
<1> DEFINE edns == WithEdns(q, m)
<1>1. /\ IsMessage(edns) /\ SameBut({"extra"}, m, edns) /\ (AllOpts(m) => AllOpts(edns))
      /\ Mirrors(q, m) => edns.extra = Append(m.extra, Opt(UdpSize(q.edns), q.edns.do))
  BY WithEdnsMessage
<1>2. n = IF IsMarked(q, m) THEN [edns EXCEPT !.tc = TRUE] ELSE edns
  BY Zenon DEF Marked
<1> HIDE DEF edns
<1>3. CASE IsMarked(q, m)
  <2>1. IsMessage(n) /\ SameBut({"tc"}, edns, n) /\ SameSections(edns, n)
    BY <1>1, <1>2, <1>3, MarkedMessage
  <2> QED
    BY <1>1, <1>3, <2>1 DEF SameBut, SameSections, AllOpts
<1>4. CASE ~IsMarked(q, m)
  <2>1. n.tc = m.tc
    BY <1>1, <1>2, <1>4 DEF SameBut, MsgFields
  <2> QED
    BY <1>1, <1>2, <1>4, <2>1 DEF SameBut
<1> QED
  BY <1>3, <1>4

\* What the set-options make of m: g is m with the records of set-answer.
Applied(options, m, g, n) ==
    /\ IsMessage(n) /\ n.qname = m.qname
    /\ Len(n.answer) = Len(g.answer) /\ Len(n.ns) = Len(g.ns)
    /\ AllOpts(m) => AllOpts(n)
    /\ ValidOptions(options, "set-flags") = <<>> => (n.tc <=> m.tc)
    /\ ValidOptions(options, "set-flags") # <<>> =>
           (n.tc <=> Bit(Last(ValidOptions(options, "set-flags")).arg, 9))
    /\ ValidOptions(options, "set-ttl") # <<>> =>
           HasTtl(n, Last(ValidOptions(options, "set-ttl")).arg)

LEMMA AppliedOptions ==
    ASSUME NEW m, IsMessage(m), NEW S, NEW options \in Seq(S),
           NEW labels, Len(labels) \in Nat, NEW qtype,
           NEW g, g = applySetAnswer(m, options, labels, qtype),
           NEW n, n = applySetOptions(m, options, labels, qtype)
    PROVE  Applied(options, m, g, n)
<1>1. CASE options = <<>>
  <2>1. n = m /\ g = m
    BY <1>1, NoOptionsNoAnswer DEF applySetOptions
  <2>2. ValidOptions(options, "set-flags") = <<>> /\ ValidOptions(options, "set-ttl") = <<>>
    BY <1>1, NoOptionsNoneValid
  <2> QED
    BY <2>1, <2>2 DEF Applied
<1>2. CASE options # <<>>
  <2> DEFINE f == applySetModifiers(g, options)
             flags == ValidOptions(options, "set-flags")
             ttls == ValidOptions(options, "set-ttl")
  <2>1. n = applySetEdnsPad(f, options)
    BY <1>2, Zenon DEF applySetOptions
  <2>2. IsMessage(g) /\ SameBut({"answer", "ns", "rcode"}, m, g)
    BY SetAnswerMessage
  <2>3. /\ IsMessage(f) /\ f.qname = g.qname
        /\ Len(f.answer) = Len(g.answer) /\ Len(f.ns) = Len(g.ns)
        /\ flags = <<>> => (f.tc <=> g.tc)
        /\ flags # <<>> => (f.tc <=> Bit(Last(flags).arg, 9))
    BY <2>2, ModifiersTc
  <2>4. ttls # <<>> => HasTtl(f, Last(ttls).arg)
    BY <2>2, ModifiersTtl
  <2>5. AllOpts(m) => AllOpts(f)
    <3>1. g.extra = m.extra
      BY <2>2 DEF SameBut, MsgFields
    <3> SUFFICES ASSUME AllOpts(m) PROVE AllOpts(f)
      OBVIOUS
    <3>2. AllOpts(g)
      BY <3>1 DEF AllOpts
    <3> QED
      BY <2>2, <3>2, ModifiedOpts
  <2> HIDE DEF f, flags, ttls
  <2>6. IsMessage(n) /\ SameBut({"extra"}, f, n) /\ (AllOpts(f) => AllOpts(n))
    BY <2>1, <2>3, EdnsPadMessage, PaddedOpts
  <2>7. /\ n.qname = f.qname /\ n.answer = f.answer /\ n.ns = f.ns /\ n.tc = f.tc
        /\ g.qname = m.qname /\ g.tc = m.tc
    BY <2>2, <2>6 DEF SameBut, MsgFields
  <2>8. ttls # <<>> => HasTtl(n, Last(ttls).arg)
    BY <2>4, <2>7 DEF HasTtl
  <2>9. /\ flags = <<>> => (n.tc <=> m.tc)
        /\ flags # <<>> => (n.tc <=> Bit(Last(flags).arg, 9))
    BY <2>3, <2>7
  <2> QED
    BY <2>3, <2>5, <2>6, <2>7, <2>8, <2>9 DEF Applied, flags, ttls
<1> QED
  BY <1>1, <1>2

\* They add options to the OPT record, and an NSID only for a set-nsid that parses.
LEMMA AppliedOpt ==
    ASSUME NEW m, IsMessage(m), NEW j, OneOpt(m, j), "NSID" \notin m.extra[j].codes,
           NEW S, NEW options \in Seq(S), NEW labels, Len(labels) \in Nat, NEW qtype,
           NEW n, n = applySetOptions(m, options, labels, qtype)
    PROVE  /\ SameOpt(m, n, j)
           /\ "NSID" \in n.extra[j].codes <=> ValidOptions(options, "set-nsid") # <<>>
<1>1. CASE options = <<>>
  <2>1. n = m /\ ValidOptions(options, "set-nsid") = <<>>
    BY <1>1, NoOptionsNoneValid DEF applySetOptions
  <2> QED
    BY <2>1 DEF SameOpt
<1>2. CASE options # <<>>
  <2> DEFINE g == applySetAnswer(m, options, labels, qtype)
             f == applySetModifiers(g, options)
             nsids == ValidOptions(options, "set-nsid")
  <2>1. n = applySetEdnsPad(f, options)
    BY <1>2, Zenon DEF applySetOptions
  <2>2. IsMessage(g) /\ SameBut({"answer", "ns", "rcode"}, m, g)
    BY SetAnswerMessage
  <2>3. IsMessage(f)
    BY <2>2, ModifiersTc
  <2>4. f = applySetModifiers(g, options) /\ nsids = ValidOptions(options, "set-nsid")
    OBVIOUS
  <2> HIDE DEF g, f, nsids
  <2>5. g.extra = m.extra
    BY <2>2 DEF SameBut, MsgFields
  <2>6. OneOpt(g, j) /\ "NSID" \notin g.extra[j].codes
    BY <2>5 DEF OneOpt
  <2>7. SameOpt(g, f, j) /\ ("NSID" \in f.extra[j].codes <=> nsids # <<>>)
    BY <2>2, <2>4, <2>6, ModifiersOpt
  <2>8. SameOpt(f, n, j) /\ ("NSID" \in n.extra[j].codes <=> "NSID" \in f.extra[j].codes)
    BY <2>1, <2>3, <2>7, EdnsPadOpt DEF SameOpt
  <2> QED
    BY <2>5, <2>7, <2>8 DEF SameOpt, nsids
<1> QED
  BY <1>1, <1>2

-----------------------------------------------------------------------------
(***************************************************************************)
(* Nothing FinalizeResponse does makes a record that does not pack.        *)
(***************************************************************************)
\* OPT records pack, whatever options they get...
LEMMA AppendedPacks ==
    ASSUME NEW rrs, IsSection(rrs), ArePacked(rrs), NEW udp, NEW do
    PROVE  ArePacked(Append(rrs, Opt(udp, do)))
<1> DEFINE opt == Opt(udp, do)
<1>1. IsRecord(opt) /\ opt.packs
  BY OptIsRecord DEF Opt
<1> HIDE DEF opt
<1>2. Elements(Append(rrs, opt)) = Elements(rrs) \cup {opt}
  BY <1>1, AppendedSection
<1>3. ArePacked(Append(rrs, opt))
  BY <1>1, <1>2 DEF ArePacked
<1> QED
  BY <1>3 DEF opt

LEMMA EnsuredPacks ==
    ASSUME NEW m, IsMessage(m), Packed(m)
    PROVE  Packed(EnsureOpt(m))
<1> DEFINE n == EnsureOpt(m)
<1>1. SameBut({"extra"}, m, n) /\ (n = m \/ n.extra = Append(m.extra, EmptyOpt))
  BY EnsureOptHas
<1>2. n.answer = m.answer /\ n.ns = m.ns
  BY <1>1 DEF SameBut, MsgFields
<1>3. ArePacked(Append(m.extra, EmptyOpt))
  <2> DEFINE no == FALSE
  <2>1. IsSection(m.extra) /\ ArePacked(m.extra)
    BY DEF Packed, IsMessage
  <2>2. EmptyOpt = Opt(4096, no)
    BY DEF EmptyOpt
  <2> HIDE DEF no
  <2> QED
    BY <2>1, <2>2, AppendedPacks
<1> HIDE DEF n
<1>4. Packed(n)
  BY <1>1, <1>2, <1>3 DEF Packed
<1> QED
  BY <1>4 DEF n

LEMMA AddedPacks ==
    ASSUME NEW m, IsMessage(m), Packed(m), HasOpt(m), NEW code, NEW length \in Nat,
           NEW n, n = AddOption(m, code, length)
    PROVE  Packed(n)
<1>1. /\ SameBut({"extra"}, m, n) /\ Len(n.extra) = Len(m.extra)
      /\ \A i \in 1..Len(m.extra) : n.extra[i] =
            IF i = OptIndex(m) THEN WithOption(m.extra[i], code, length) ELSE m.extra[i]
  BY AddOptionToLast
<1>2. /\ IsOpt(m.extra[OptIndex(m)])
      /\ \A i \in 1..Len(m.extra) : IsRecord(m.extra[i]) /\ m.extra[i].packs
  BY LastOpt, Section DEF IsMessage, Packed, ArePacked, Elements
<1>3. ASSUME NEW i \in 1..Len(m.extra)
      PROVE  n.extra[i].packs
  <2>1. CASE i = OptIndex(m)
    BY <1>1, <1>2, <2>1, WithOptionIsOpt
  <2>2. CASE i # OptIndex(m)
    BY <1>1, <1>2, <2>2
  <2> QED
    BY <2>1, <2>2
<1>4. ArePacked(n.extra)
  BY <1>1, <1>3 DEF ArePacked, Elements
<1>5. n.answer = m.answer /\ n.ns = m.ns
  BY <1>1 DEF SameBut, MsgFields
<1> QED
  BY <1>4, <1>5 DEF Packed

\* ... and a TTL is no matter.
LEMMA WithTtlPacks ==
    ASSUME NEW rrs, IsSection(rrs), ArePacked(rrs), NEW ttl
    PROVE  ArePacked(WithTtl(rrs, ttl))
  BY WithTtlSection DEF ArePacked, Elements

\* The strings of set-answer-txt are parts of labels: they are short enough.
LEMMA SetAnswerPacks ==
    ASSUME NEW m, IsMessage(m), Packed(m), NEW S, NEW options \in Seq(S),
           NEW labels, Len(labels) \in Nat, NEW qtype,
           NEW n, n = applySetAnswer(m, options, labels, qtype)
    PROVE  Packed(n)
<1> DEFINE addresses == ValidOptions(options, "set-answer")
           strings == ValidOptions(options, "set-answer-txt")
           rrs == [i \in DOMAIN addresses |-> RR("A", labels, 0, 4)]
           lengths == [i \in DOMAIN strings |-> strings[i].arg]
           txt == TXT(labels, 0, lengths)
           texts == <<txt>>
<1>1. \/ n = Replaced(m, rrs) \/ n = Replaced(m, texts) \/ n = m
  BY Zenon DEF applySetAnswer
<1>2. IsSection(rrs) /\ ArePacked(rrs)
  <2> DEFINE kind == "set-answer"
             a == RR("A", labels, 0, 4)
  <2>1. addresses \in Seq(S)
    <3>1. addresses = ValidOptions(options, kind)
      OBVIOUS
    <3> HIDE DEF kind
    <3> QED
      BY <3>1, OnlyOfKind
  <2> HIDE DEF addresses
  <2>2. Len(addresses) \in Nat /\ DOMAIN addresses = 1..Len(addresses)
    BY <2>1
  <2>3. IsRecord(a) /\ a.packs
    BY RRIsRecord DEF RR
  <2>4. rrs = [i \in 1..Len(addresses) |-> rrs[i]] /\ \A i \in 1..Len(addresses) : rrs[i] = a
    BY <2>2
  <2> HIDE DEF rrs, a
  <2>5. IsSection(rrs) /\ Len(rrs) = Len(addresses)
    BY <2>2, <2>3, <2>4, MakesSection
  <2> QED
    BY <2>3, <2>4, <2>5 DEF ArePacked, Elements
<1>3. IsSection(texts) /\ ArePacked(texts)
  <2> DEFINE q == [labels |-> labels]
  <2>1. lengths \in Seq(Nat) /\ \A i \in DOMAIN lengths : lengths[i] <= 255
    <3>1. lengths \in Seq(Nat) /\ \A i \in DOMAIN lengths : lengths[i] \in 0..MaxLabel
      <4> HIDE DEF lengths, strings
      <4>1. strings = ValidOptions(options, "set-answer-txt")
        BY DEF strings
      <4>2. lengths = [i \in DOMAIN strings |-> strings[i].arg]
        BY DEF lengths
      <4> QED
        BY <4>1, <4>2, StringsOfOptions
    <3> HIDE DEF lengths
    <3>2. \A k \in 0..MaxLabel : k <= 255
      BY DEF MaxLabel
    <3> QED
      BY <3>1, <3>2
  <2> HIDE DEF lengths
  <2>2. q.labels = labels
    OBVIOUS
  <2> HIDE DEF q
  <2>3. IsPlain(q, TXT(q.labels, 0, lengths))
    BY <2>1, PlainTXT
  <2>4. IsRecord(txt) /\ txt.packs
    BY <2>1, <2>2, <2>3, TXTIsRecord DEF IsPlain
  <2> HIDE DEF txt
  <2>5. IsSection(texts) /\ Elements(texts) = {txt}
    BY <2>4, OneRecord
  <2> QED
    BY <2>4, <2>5 DEF ArePacked
<1> HIDE DEF rrs, texts
<1>4. ASSUME NEW some, IsSection(some), ArePacked(some), n = Replaced(m, some)
      PROVE  Packed(n)
  <2>1. n.answer = some /\ n.ns = <<>> /\ SameBut({"answer", "ns", "rcode"}, m, n)
    BY <1>4, ReplacedMessage
  <2>2. n.extra = m.extra
    BY <2>1 DEF SameBut, MsgFields
  <2> QED
    BY <1>4, <2>1, <2>2, EmptySection DEF Packed, ArePacked
<1> QED
  BY <1>1, <1>2, <1>3, <1>4

\* One turn of applySetModifiers, and all of them.
LEMMA ModifiedPacks ==
    ASSUME NEW m, IsMessage(m), Packed(m), NEW o, HasLength(o), NEW n, n = Modified(m, o)
    PROVE  Packed(n)
<1>1. Turn(m, o, n)
  BY ModifiedMessage
<1>2. CASE o.kind \in OptionKinds
  <2>1. n = AddOption(EnsureOpt(m), CodeOf(o.kind), o.arg)
    BY <1>1, <1>2 DEF Turn
  <2>2. IsMessage(EnsureOpt(m)) /\ HasOpt(EnsureOpt(m)) /\ Packed(EnsureOpt(m))
    BY EnsureOptHas, EnsuredPacks
  <2>3. o.arg \in Nat
    BY <1>2 DEF HasLength
  <2> QED
    BY <2>1, <2>2, <2>3, AddedPacks
<1>3. CASE o.kind \notin OptionKinds
  <2>1. n.extra = m.extra
    BY <1>1, <1>3 DEF Turn
  <2>2. ArePacked(WithTtl(m.answer, o.arg)) /\ ArePacked(WithTtl(m.ns, o.arg))
    BY WithTtlPacks DEF IsMessage, Packed
  <2>3. ArePacked(n.answer) /\ ArePacked(n.ns)
    BY <1>1, <2>2 DEF Turn, Packed
  <2> QED
    BY <2>1, <2>3 DEF Packed
<1> QED
  BY <1>2, <1>3

LEMMA ModifiersPack ==
    ASSUME NEW S, NEW options \in Seq(S), NEW m, IsMessage(m), Packed(m),
           NEW n, n = applySetModifiers(m, options)
    PROVE  Packed(n)
<1> DEFINE all == ValidIn(options)
<1>1. PICK F : IsRun(F, m, all, n)
  BY ModifiersRun
<1>2. all \in Seq(S)
  BY OnlyValid DEF ValidIn
<1> HIDE DEF all
<1>3. \A k \in 0..Len(all) : IsMessage(F[k])
  BY <1>1, <1>2, ModifiersKeep
<1>4. Len(all) \in Nat /\ Len(all) \in 0..Len(all) /\ F[0] = m /\ F[Len(all)] = n
  BY <1>1, <1>2 DEF IsRun
<1> DEFINE T == {k \in 0..Len(all) : Packed(F[k])}
<1>5. 0 \in T
  BY <1>4
<1>6. ASSUME NEW k \in 0..(Len(all) - 1), k \in T
      PROVE  k + 1 \in T
  <2>1. k + 1 \in 1..Len(all) /\ (k + 1) - 1 = k /\ k + 1 \in 0..Len(all) /\ k \in 0..Len(all)
    BY <1>4
  <2> DEFINE f == F[k]
             g == F[k + 1]
             o == all[k + 1]
  <2>2. g = Modified(f, o) /\ IsMessage(f) /\ Packed(f) /\ HasLength(o)
    BY <1>1, <1>3, <1>6, <2>1 DEF IsRun
  <2> HIDE DEF f, g, o
  <2>3. Packed(g)
    BY <2>2, ModifiedPacks
  <2> QED
    BY <2>1, <2>3 DEF g
<1>7. Len(all) \in T
  <2> HIDE DEF T
  <2> QED
    BY <1>4, <1>5, <1>6, Loop!Induct
<1> QED
  BY <1>4, <1>7

LEMMA PaddedPacks ==
    ASSUME NEW m, IsMessage(m), Packed(m), NEW S, NEW options \in Seq(S),
           NEW n, n = applySetEdnsPad(m, options)
    PROVE  Packed(n)
<1> DEFINE padded == EnsureOpt(m)
<1>1. n = m \/ n = padded \/ \E need \in Nat : n = AddOption(padded, "PADDING", need)
  BY PadCases
<1>2. IsMessage(padded) /\ HasOpt(padded) /\ Packed(padded)
  BY EnsureOptHas, EnsuredPacks
<1> HIDE DEF padded
<1> QED
  BY <1>1, <1>2, AddedPacks

LEMMA AppliedPacks ==
    ASSUME NEW m, IsMessage(m), Packed(m), NEW S, NEW options \in Seq(S),
           NEW labels, Len(labels) \in Nat, NEW qtype,
           NEW n, n = applySetOptions(m, options, labels, qtype)
    PROVE  Packed(n)
<1> DEFINE g == applySetAnswer(m, options, labels, qtype)
           f == applySetModifiers(g, options)
<1>1. n = m \/ n = applySetEdnsPad(f, options)
  BY Zenon DEF applySetOptions
<1>2. IsMessage(g) /\ Packed(g)
  BY SetAnswerMessage, SetAnswerPacks
<1>3. IsMessage(f) /\ Packed(f)
  <2> HIDE DEF g
  <2> QED
    BY <1>2, ModifiersTc, ModifiersPack
<1> HIDE DEF f
<1> QED
  BY <1>1, <1>3, PaddedPacks

\* A section without some of its records.
LEMMA PrefixPacks ==
    ASSUME NEW rrs, IsSection(rrs), ArePacked(rrs), NEW kept, IsSection(kept), IsPrefixOf(kept, rrs)
    PROVE  ArePacked(kept)
<1>1. Len(kept) \in Nat /\ Len(rrs) \in Nat
  BY Section
<1>2. Elements(kept) \subseteq Elements(rrs)
  BY <1>1 DEF IsPrefixOf, Elements
<1> QED
  BY <1>2 DEF ArePacked

LEMMA BarePacks ==
    ASSUME NEW m, IsMessage(m), Packed(m), NameBytes(m.qname) \in 0..255, NEW n, n = WithoutEdns(m)
    PROVE  Packed(n)
<1>1. /\ IsMessage(n)
      /\ IsPrefixOf(n.answer, m.answer) /\ IsPrefixOf(n.ns, m.ns)
      /\ \A i \in 1..Len(n.extra) : n.extra[i] \in Elements(m.extra)
  BY WithoutEdnsMessage
<1>2. ArePacked(n.extra)
  BY <1>1 DEF Packed, ArePacked, Elements
<1> QED
  BY <1>1, <1>2, PrefixPacks DEF IsMessage, Packed

\* FinalizeResponse as a whole.
LEMMA FinalizedPacks ==
    ASSUME NEW L, NEW q, q.labels \in Seq(L), NameBytes(q.labels) \in 0..255,
           NEW m, IsMessage(m), m.qname = q.labels, Packed(m), NEW length \in Nat,
           NEW n, n = FinalizeResponse(q, m, length)
    PROVE  Packed(n)
<1> DEFINE options == OptionsOf(q)
           edns == WithEdns(q, m)
           marked == Marked(q, m)
           changed == Changed(q, m)
           nsid == WithNsid(q, m, length)
           bare == Bare(q, m, length)
<1>1. options \in Seq(L)
  BY OptionsAreLabels
<1>2. IsMessage(edns) /\ Packed(edns)
  <2>1. /\ IsMessage(edns) /\ SameBut({"extra"}, m, edns)
        /\ Mirrors(q, m) => edns.extra = Append(m.extra, Opt(UdpSize(q.edns), q.edns.do))
    BY WithEdnsMessage
  <2>2. edns.answer = m.answer /\ edns.ns = m.ns
    BY <2>1 DEF SameBut, MsgFields
  <2>3. ~Mirrors(q, m) => edns = m
    BY DEF WithEdns
  <2>4. ArePacked(Append(m.extra, Opt(UdpSize(q.edns), q.edns.do)))
    BY AppendedPacks DEF IsMessage, Packed
  <2> HIDE DEF edns
  <2> QED
    BY <2>1, <2>2, <2>3, <2>4 DEF Packed
<1>3. IsMessage(marked) /\ marked.qname = q.labels /\ Packed(marked)
  <2>1. IsMessage(marked) /\ SameBut({"extra", "tc"}, m, marked)
    BY MarkedReply
  <2>2. marked.answer = m.answer /\ marked.ns = m.ns /\ marked.qname = m.qname
    BY <2>1 DEF SameBut, MsgFields
  <2>3. marked = edns \/ marked = [edns EXCEPT !.tc = TRUE]
    BY DEF Marked
  <2> HIDE DEF edns, marked
  <2>4. marked.extra = edns.extra
    BY <1>2, <2>3 DEF IsMessage, MsgFields
  <2> QED
    BY <1>2, <2>1, <2>2, <2>4 DEF Packed
<1>4. changed = applySetOptions(marked, options, q.labels, q.qtype)
  BY Zenon DEF Changed
<1> HIDE DEF options, edns, marked, changed
<1>5. IsMessage(changed) /\ changed.qname = q.labels /\ Packed(changed)
  <2> DEFINE g == applySetAnswer(marked, options, q.labels, q.qtype)
  <2>1. Applied(options, marked, g, changed)
    BY <1>1, <1>3, <1>4, AppliedOptions
  <2>2. Packed(changed)
    BY <1>1, <1>3, <1>4, AppliedPacks
  <2> QED
    BY <1>3, <2>1, <2>2 DEF Applied
<1>6. IsMessage(nsid) /\ nsid.qname = q.labels /\ Packed(nsid)
  <2>1. nsid = changed \/ nsid = DefaultNsid(changed, length)
    BY DEF WithNsid, changed
  <2>2. \/ nsid = changed
        \/ HasOpt(changed) /\ nsid = AddOption(changed, "NSID", length)
    BY <2>1 DEF DefaultNsid
  <2> HIDE DEF nsid
  <2>3. CASE HasOpt(changed) /\ nsid = AddOption(changed, "NSID", length)
    <3>1. IsMessage(nsid) /\ SameBut({"extra"}, changed, nsid) /\ Packed(nsid)
      BY <1>5, <2>3, AddOptionToLast, AddedPacks
    <3> QED
      BY <1>5, <3>1 DEF SameBut, MsgFields
  <2> QED
    BY <1>5, <2>2, <2>3
<1>7. bare = nsid \/ bare = WithoutEdns(nsid)
  BY DEF Bare
<1> HIDE DEF nsid
<1>8. IsMessage(bare) /\ Packed(bare)
  <2> HIDE DEF bare
  <2> QED
    BY <1>6, <1>7, BarePacks, WithoutEdnsMessage
<1>9. n = edns \/ n = bare \/ n = [bare EXCEPT !.compress = FALSE]
  BY FinalizeSteps DEF edns
<1> HIDE DEF bare
<1>10. CASE n = [bare EXCEPT !.compress = FALSE]
  <2>1. n.answer = bare.answer /\ n.ns = bare.ns /\ n.extra = bare.extra
    BY <1>8, <1>10 DEF IsMessage, MsgFields
  <2> QED
    BY <1>8, <2>1 DEF Packed
<1> QED
  BY <1>2, <1>8, <1>9, <1>10

-----------------------------------------------------------------------------
(***************************************************************************)
(* setednspad-N: how long the padded reply is.                             *)
(***************************************************************************)
\* One more OPT record, and one more option of another kind, is no padding.
LEMMA AppendedUnpadded ==
    ASSUME NEW m, IsMessage(m), Unpadded(m), NEW udp, NEW do, NEW n, n.extra = Append(m.extra, Opt(udp, do))
    PROVE  Unpadded(n)
<1>1. IsRecord(Opt(udp, do)) /\ IsSection(m.extra)
  BY OptIsRecord DEF IsMessage
<1>2. Opt(udp, do).codes = {}
  BY DEF Opt
<1>3. Len(m.extra) \in Nat
  BY <1>1, Section
<1>4. /\ Len(n.extra) = Len(m.extra) + 1 /\ n.extra[Len(m.extra) + 1] = Opt(udp, do)
      /\ \A i \in 1..Len(m.extra) : n.extra[i] = m.extra[i]
  BY <1>1, AppendedSection
<1> QED
  BY <1>2, <1>3, <1>4 DEF Unpadded

LEMMA EnsuredUnpadded ==
    ASSUME NEW m, IsMessage(m), Unpadded(m)
    PROVE  Unpadded(EnsureOpt(m))
<1>1. CASE HasOpt(m)
  BY <1>1, EnsureOptHas
<1>2. CASE ~HasOpt(m)
  <2> DEFINE n == EnsureOpt(m)
             no == FALSE
             size == 4096
  <2>1. n.extra = Append(m.extra, Opt(size, no))
    <3>1. EmptyOpt = Opt(size, no)
      BY Zenon DEF EmptyOpt
    <3>2. n.extra = Append(m.extra, EmptyOpt)
      BY <1>2, EnsureOptHas
    <3> HIDE DEF n, no, size
    <3> QED
      BY <3>1, <3>2
  <2> HIDE DEF n, no, size
  <2>2. Unpadded(n)
    BY <2>1, AppendedUnpadded
  <2> QED
    BY <2>2 DEF n
<1> QED
  BY <1>1, <1>2

LEMMA AddedUnpadded ==
    ASSUME NEW m, IsMessage(m), Unpadded(m), HasOpt(m), NEW code, code # "PADDING", NEW length \in Nat,
           NEW n, n = AddOption(m, code, length)
    PROVE  Unpadded(n)
<1>1. /\ Len(n.extra) = Len(m.extra)
      /\ \A i \in 1..Len(m.extra) : n.extra[i] =
            IF i = OptIndex(m) THEN WithOption(m.extra[i], code, length) ELSE m.extra[i]
  BY AddOptionToLast
<1>2. /\ IsOpt(m.extra[OptIndex(m)])
      /\ \A i \in 1..Len(m.extra) : IsRecord(m.extra[i])
  BY LastOpt, Section DEF IsMessage
<1>3. ASSUME NEW i \in 1..Len(m.extra), IsOpt(n.extra[i])
      PROVE  "PADDING" \notin n.extra[i].codes
  <2>1. CASE i = OptIndex(m)
    <3> DEFINE rr == m.extra[i]
    <3>1. n.extra[i] = WithOption(rr, code, length) /\ IsRecord(rr) /\ IsOpt(rr)
      BY <1>1, <1>2, <2>1
    <3>2. "PADDING" \notin rr.codes
      BY <3>1 DEF Unpadded
    <3> HIDE DEF rr
    <3>3. n.extra[i].codes = rr.codes \cup {code}
      BY <3>1, WithOptionIsOpt
    <3> QED
      BY <3>2, <3>3
  <2>2. CASE i # OptIndex(m)
    BY <1>1, <1>3, <2>2 DEF Unpadded
  <2> QED
    BY <2>1, <2>2
<1> QED
  BY <1>1, <1>3 DEF Unpadded

LEMMA ModifiedUnpadded ==
    ASSUME NEW m, IsMessage(m), Unpadded(m), NEW o, HasLength(o), NEW n, n = Modified(m, o)
    PROVE  Unpadded(n)
<1>1. Turn(m, o, n)
  BY ModifiedMessage
<1>2. CASE o.kind \in OptionKinds
  <2> DEFINE code == CodeOf(o.kind)
  <2>1. n = AddOption(EnsureOpt(m), code, o.arg) /\ code # "PADDING"
    BY <1>1, <1>2 DEF Turn, CodeOf, OptionKinds
  <2>2. IsMessage(EnsureOpt(m)) /\ HasOpt(EnsureOpt(m)) /\ Unpadded(EnsureOpt(m))
    BY EnsureOptHas, EnsuredUnpadded
  <2>3. o.arg \in Nat
    BY <1>2 DEF HasLength
  <2> HIDE DEF code
  <2> QED
    BY <2>1, <2>2, <2>3, AddedUnpadded
<1>3. CASE o.kind \notin OptionKinds
  BY <1>1, <1>3 DEF Turn, Unpadded
<1> QED
  BY <1>2, <1>3

LEMMA ModifiersUnpadded ==
    ASSUME NEW S, NEW options \in Seq(S), NEW m, IsMessage(m), Unpadded(m),
           NEW n, n = applySetModifiers(m, options)
    PROVE  Unpadded(n)
<1> DEFINE all == ValidIn(options)
<1>1. PICK F : IsRun(F, m, all, n)
  BY ModifiersRun
<1>2. all \in Seq(S)
  BY OnlyValid DEF ValidIn
<1> HIDE DEF all
<1>3. \A k \in 0..Len(all) : IsMessage(F[k])
  BY <1>1, <1>2, ModifiersKeep
<1>4. Len(all) \in Nat /\ Len(all) \in 0..Len(all) /\ F[0] = m /\ F[Len(all)] = n
  BY <1>1, <1>2 DEF IsRun
<1> DEFINE T == {k \in 0..Len(all) : Unpadded(F[k])}
<1>5. 0 \in T
  BY <1>4
<1>6. ASSUME NEW k \in 0..(Len(all) - 1), k \in T
      PROVE  k + 1 \in T
  <2>1. k + 1 \in 1..Len(all) /\ (k + 1) - 1 = k /\ k + 1 \in 0..Len(all) /\ k \in 0..Len(all)
    BY <1>4
  <2> DEFINE f == F[k]
             g == F[k + 1]
             o == all[k + 1]
  <2>2. g = Modified(f, o) /\ IsMessage(f) /\ Unpadded(f) /\ HasLength(o)
    BY <1>1, <1>3, <1>6, <2>1 DEF IsRun
  <2> HIDE DEF f, g, o
  <2>3. Unpadded(g)
    BY <2>2, ModifiedUnpadded
  <2> QED
    BY <2>1, <2>3 DEF g
<1>7. Len(all) \in T
  <2> HIDE DEF T
  <2> QED
    BY <1>4, <1>5, <1>6, Loop!Induct
<1> QED
  BY <1>4, <1>7

\* If the library can pack a message with one more option, it could without.
LEMMA PackedBefore ==
    ASSUME NEW m, IsMessage(m), HasOpt(m), NEW code, NEW length \in Nat,
           NEW n, n = AddOption(m, code, length), Packs(n)
    PROVE  Packs(m)
<1>1. /\ SameBut({"extra"}, m, n) /\ Len(n.extra) = Len(m.extra) /\ IsMessage(n)
      /\ \A i \in 1..Len(m.extra) : n.extra[i] =
            IF i = OptIndex(m) THEN WithOption(m.extra[i], code, length) ELSE m.extra[i]
  BY AddOptionToLast
<1>2. /\ IsOpt(m.extra[OptIndex(m)])
      /\ DOMAIN m.extra = 1..Len(m.extra) /\ DOMAIN n.extra = 1..Len(n.extra)
      /\ \A i \in 1..Len(m.extra) : IsRecord(m.extra[i])
  BY <1>1, LastOpt, Section DEF IsMessage
<1>3. n.answer = m.answer /\ n.ns = m.ns /\ n.rcode = m.rcode
  BY <1>1 DEF SameBut, MsgFields
<1>4. ASSUME NEW i \in DOMAIN m.extra
      PROVE  m.extra[i].packs
  <2>1. n.extra[i].packs
    BY <1>1, <1>2 DEF Packs
  <2>2. CASE i = OptIndex(m)
    <3> DEFINE rr == m.extra[i]
    <3>1. n.extra[i] = WithOption(rr, code, length) /\ IsRecord(rr) /\ IsOpt(rr)
      BY <1>1, <1>2, <2>2
    <3> HIDE DEF rr
    <3>2. n.extra[i].packs = rr.packs
      BY <3>1, WithOptionIsOpt
    <3> QED
      BY <2>1, <3>2 DEF rr
  <2>3. CASE i # OptIndex(m)
    BY <1>1, <1>2, <2>1, <2>3
  <2> QED
    BY <2>2, <2>3
<1> QED
  BY <1>3, <1>4 DEF Packs

\* The padded message has the asked-for size; one that was not padded lacks at most
\* the four bytes of an option's header.
LEMMA PaddedSize ==
    ASSUME NEW m, IsMessage(m), Unpadded(m), NEW S, NEW options \in Seq(S),
           NEW pads, pads = ValidOptions(options, "setednspad"), pads # <<>>,
           NEW n, n = applySetEdnsPad(m, options), Packs(n)
    PROVE  /\ IsMessage(n) /\ HasOpt(n) /\ Last(pads).arg \in Nat
           /\ Size(n) >= Last(pads).arg - 4
           /\ "PADDING" \in OptOf(n).codes => Size(n) = Last(pads).arg
<1> DEFINE padded == EnsureOpt(m)
           target == Last(pads).arg
           size == Size(padded)
           need == target - size - 4
<1>1. n = IF Packs(padded) /\ need > 0 THEN AddOption(padded, "PADDING", need) ELSE padded
  BY Zenon DEF applySetEdnsPad
<1>2. target \in Nat
  BY PadTarget
<1>3. IsMessage(padded) /\ HasOpt(padded) /\ Unpadded(padded) /\ size \in Nat
  BY EnsureOptHas, EnsuredUnpadded, SizeNat
<1> HIDE DEF padded
<1>4. CASE Packs(padded) /\ need > 0
  <2>1. need \in Nat
    <3> HIDE DEF target, size
    <3> QED
      BY <1>2, <1>3, <1>4
  <2>2. n = AddOption(padded, "PADDING", need)
    BY <1>1, <1>4
  <2> HIDE DEF need
  <2>3. IsMessage(n) /\ HasOpt(n) /\ Size(n) = size + 4 + need
    BY <1>3, <2>1, <2>2, AddOptionToLast
  <2>4. Size(n) = target /\ Size(n) >= target - 4
    <3> HIDE DEF target, size
    <3> QED
      BY <1>2, <1>3, <2>3 DEF need
  <2> QED
    BY <1>2, <2>3, <2>4
<1>5. CASE ~(Packs(padded) /\ need > 0)
  <2>1. n = padded
    BY <1>1, <1>5
  <2>2. ~(need > 0)
    BY <1>5, <2>1
  <2>3. Size(n) >= target - 4
    <3>1. Size(n) = size
      BY <2>1
    <3> HIDE DEF target, size
    <3> QED
      BY <1>2, <1>3, <2>2, <3>1
  <2>4. "PADDING" \notin OptOf(n).codes
    BY <1>3, <2>1, LastOpt DEF Unpadded, OptOf
  <2> QED
    BY <1>2, <1>3, <2>1, <2>3, <2>4
<1> QED
  BY <1>4, <1>5

\* FinalizeResponse as a whole.
LEMMA FinalizedSize ==
    ASSUME NEW L, NEW q, q.labels \in Seq(L), Len(q.labels) \in Nat,
           NEW m, IsMessage(m), Unpadded(m), NEW length \in Nat,
           NEW pads, pads = ValidOptions(OptionsOf(q), "setednspad"), pads # <<>>,
           ~HasOption(OptionsOf(q), "set-noedns"),
           NEW n, n = FinalizeResponse(q, m, length), Packs(n)
    PROVE  /\ Size(n) >= Last(pads).arg - 4
           /\ "PADDING" \in OptOf(n).codes /\ ~(q.edns.present /\ q.edns.nsid) =>
                  Size(n) = Last(pads).arg
<1> DEFINE options == OptionsOf(q)
           marked == Marked(q, m)
           changed == Changed(q, m)
           g == applySetAnswer(marked, options, q.labels, q.qtype)
           f == applySetModifiers(g, options)
           nsid == WithNsid(q, m, length)
           target == Last(pads).arg
<1>1. options \in Seq(L) /\ options # <<>>
  <2>1. options \in Seq(L)
    BY OptionsAreLabels
  <2>2. options # <<>>
    BY NoOptionsNoneValid
  <2> QED
    BY <2>1, <2>2
<1>2. q.asked
  BY <1>1 DEF OptionsOf
<1>3. /\ n = nsid \/ n = [nsid EXCEPT !.compress = FALSE]
      /\ nsid = IF q.edns.present /\ q.edns.nsid THEN DefaultNsid(changed, length) ELSE changed
  BY <1>2, FinalizeSteps, Zenon DEF Bare, WithNsid
<1>4. changed = applySetEdnsPad(f, options)
  BY <1>1, Zenon DEF Changed, applySetOptions
<1>5. IsMessage(marked) /\ Unpadded(marked)
  <2> DEFINE edns == WithEdns(q, m)
  <2>1. IsMessage(marked) /\ IsMessage(edns)
    BY MarkedReply, WithEdnsMessage
  <2>2. Unpadded(edns)
    <3>1. CASE Mirrors(q, m)
      <4> DEFINE size == UdpSize(q.edns)
                 do == q.edns.do
      <4>1. edns.extra = Append(m.extra, Opt(size, do))
        BY <3>1, WithEdnsMessage
      <4> HIDE DEF size, do, edns
      <4> QED
        BY <4>1, AppendedUnpadded
    <3>2. CASE ~Mirrors(q, m)
      BY <3>2 DEF WithEdns
    <3> QED
      BY <3>1, <3>2
  <2>3. marked = edns \/ marked = [edns EXCEPT !.tc = TRUE]
    BY DEF Marked
  <2> HIDE DEF edns, marked
  <2>4. marked.extra = edns.extra
    BY <2>1, <2>3 DEF IsMessage, MsgFields
  <2> QED
    BY <2>1, <2>2, <2>4 DEF Unpadded
<1>6. IsMessage(g) /\ Unpadded(g)
  <2> HIDE DEF marked, options
  <2>1. IsMessage(g) /\ SameBut({"answer", "ns", "rcode"}, marked, g)
    BY <1>1, <1>5, SetAnswerMessage
  <2>2. g.extra = marked.extra
    BY <2>1 DEF SameBut, MsgFields
  <2> HIDE DEF g
  <2> QED
    BY <1>5, <2>1, <2>2 DEF Unpadded
<1>7. IsMessage(f) /\ Unpadded(f)
  <2> HIDE DEF g, options
  <2> QED
    BY <1>1, <1>6, ModifiersTc, ModifiersUnpadded
<1> HIDE DEF f, g, changed, nsid, marked
<1>8. IsMessage(changed)
  <2> HIDE DEF options
  <2> QED
    BY <1>1, <1>4, <1>7, EdnsPadMessage
<1>9. nsid = changed \/ (HasOpt(changed) /\ nsid = AddOption(changed, "NSID", length))
  BY <1>3 DEF DefaultNsid
<1>10. IsMessage(nsid)
  BY <1>8, <1>9, AddOptionToLast
<1>11. Packs(nsid) /\ SameSections(nsid, n)
  <2>1. CASE n = [nsid EXCEPT !.compress = FALSE]
    <3>1. /\ n.answer = nsid.answer /\ n.ns = nsid.ns /\ n.extra = nsid.extra /\ n.rcode = nsid.rcode
          /\ n.qname = nsid.qname
      BY <1>10, <2>1 DEF IsMessage, MsgFields
    <3> QED
      BY <3>1 DEF Packs, HasOpt, SameSections
  <2>2. CASE n = nsid
    BY <2>2 DEF SameSections
  <2> QED
    BY <1>3, <2>1, <2>2
<1>12. Packs(changed)
  BY <1>8, <1>9, <1>11, PackedBefore
<1>13. /\ target \in Nat /\ Size(changed) >= target - 4
       /\ "PADDING" \in OptOf(changed).codes => Size(changed) = target
  <2>1. pads = ValidOptions(options, "setednspad")
    OBVIOUS
  <2> HIDE DEF options
  <2> QED
    BY <1>1, <1>4, <1>7, <1>12, <2>1, PaddedSize
<1> HIDE DEF target
<1>14. Size(n) = Size(nsid) /\ OptOf(n) = OptOf(nsid)
  BY <1>11, SameSize DEF SameSections, OptOf, OptIndex
<1>15. Size(changed) \in Nat
  BY <1>8, SizeNat
<1>16. nsid = changed \/ Size(nsid) = Size(changed) + 4 + length
  BY <1>8, <1>9, AddOptionToLast
<1>17. Size(n) >= target - 4
  BY <1>13, <1>14, <1>15, <1>16
<1>18. ~(q.edns.present /\ q.edns.nsid) => nsid = changed
  BY <1>3
<1> QED
  BY <1>13, <1>14, <1>17, <1>18 DEF target

-----------------------------------------------------------------------------
(***************************************************************************)
(* size-N: which names get it, and how long its reply is.                  *)
(***************************************************************************)
\* The labels that are no set-options are picked like the set-options.
LEMMA OnlyGadgets ==
    ASSUME NEW S, NEW s \in Seq(S)
    PROVE  /\ Only(s, isNotOption) \in Seq(S)
           /\ Picks(Only(s, isNotOption), s, {i \in 1..Len(s) : isNotOption(s[i])})
<1> DEFINE P == {i \in 1..Len(s) : isNotOption(s[i])}
           IsTable(f) ==
               f = [I \in SUBSET (DOMAIN s) |->
                       IF I = {} THEN <<>>
                       ELSE IF isNotOption(s[Max(I)])
                            THEN Append(f[I \ {Max(I)}], s[Max(I)])
                            ELSE f[I \ {Max(I)}]]
           chosen == CHOOSE f : IsTable(f)
<1>1. DOMAIN s = 1..Len(s) /\ Len(s) \in Nat /\ P \in SUBSET (1..Len(s))
  OBVIOUS
<1>2. ASSUME NEW I \in SUBSET (DOMAIN s), I # {}
      PROVE  Max(I) \in P <=> isNotOption(s[Max(I)])
  <2>1. Max(I) \in 1..Len(s)
    BY <1>1, <1>2, MaxOfIndices
  <2> QED
    BY <2>1
<1>3. Only(s, isNotOption) = chosen[DOMAIN s]
  BY Zenon DEF Only, FoldLeft, MapThenFoldSet
<1> HIDE DEF P
<1>4. \A f : IsTable(f) <=> IsPickTable(f, s, P)
  BY <1>2, Zenon DEF IsPickTable
<1>5. IsPickTable(chosen, s, P)
  BY <1>4, PickTableExists
<1> HIDE DEF chosen, IsTable
<1> QED
  BY <1>1, <1>3, <1>5, PickTablePicks DEF P

\* A last label that is no set-option is what parse.go takes for the gadget.
LEMMA GadgetIsLast ==
    ASSUME NEW L, NEW labels \in Seq(L), labels # <<>>, ~isSetOption(Last(labels))
    PROVE  parseTopLevel(labels).gadget = Last(labels)
<1> DEFINE rest == Only(labels, isNotOption)
           n == Len(labels)
           P == {i \in 1..n : isNotOption(labels[i])}
<1>1. rest \in Seq(L) /\ Picks(rest, labels, P)
  BY OnlyGadgets
<1>2. n \in 1..n /\ Last(labels) = labels[n]
  BY DEF Last
<1>3. n \in P
  BY <1>2 DEF isNotOption
<1>4. parseTopLevel(labels).gadget = IF rest = <<>> THEN NoLabel ELSE Last(rest)
  BY DEF parseTopLevel
<1>5. P \subseteq 1..n /\ n \in Nat
  OBVIOUS
<1> HIDE DEF rest, P, n
<1>6. PICK e : Enumerates(e, rest, labels, P)
  BY <1>1 DEF Picks
<1>7. PICK i \in 1..Len(rest) : e[i] = n
  BY <1>3, <1>6, Zenon DEF Enumerates
<1>8. Len(rest) \in Nat /\ Len(rest) \in 1..Len(rest) /\ rest # <<>>
  BY <1>1, <1>7
<1>9. e[Len(rest)] \in P /\ rest[Len(rest)] = labels[e[Len(rest)]]
  BY <1>6, <1>8 DEF Enumerates
<1>10. e[Len(rest)] = n
  <2>1. i < Len(rest) => e[i] < e[Len(rest)]
    BY <1>6, <1>7, <1>8 DEF Enumerates
  <2>2. e[Len(rest)] \in 1..n
    BY <1>5, <1>9
  <2>3. ~(e[i] < e[Len(rest)])
    BY <1>5, <1>7, <2>2
  <2>4. i = Len(rest)
    BY <1>7, <1>8, <2>1, <2>3
  <2> QED
    BY <1>7, <2>4
<1>11. Last(rest) = labels[n]
  BY <1>9, <1>10 DEF Last
<1> QED
  BY <1>2, <1>4, <1>8, <1>11

\* The apex has no gadget.
LEMMA NoGadget == parseTopLevel(<<>>).gadget = NoLabel
<1> DEFINE rest == Only(<<>>, isNotOption)
           P == {i \in 1..Len(<<>>) : isNotOption(<<>>[i])}
<1>1. rest \in Seq({}) /\ Picks(rest, <<>>, P)
  <2>1. <<>> \in Seq({})
    OBVIOUS
  <2> QED
    BY <2>1, OnlyGadgets
<1>2. P = {}
  OBVIOUS
<1>3. parseTopLevel(<<>>).gadget = IF rest = <<>> THEN NoLabel ELSE Last(rest)
  BY DEF parseTopLevel
<1>4. rest = <<>>
  BY <1>1
<1> QED
  BY <1>3, <1>4

\* The families whose last label decides are none of size-N's names.
LEMMA NotSized ==
    ASSUME NEW L, NEW labels \in Seq(L), labels # <<>>, NEW kind,
           kind \in Families \cup {"txt-test"}, Last(labels) = Plain(kind)
    PROVE  parseTopLevel(labels).gadget.kind # "size"
<1>1. kind \notin SetKinds /\ kind # "size"
  BY DEF Families, SetKinds
<1>2. Plain(kind).kind = kind
  BY DEF Plain
<1>3. ~isSetOption(Last(labels))
  BY <1>1, <1>2 DEF isSetOption
<1>4. parseTopLevel(labels).gadget = Last(labels)
  BY <1>3, GadgetIsLast
<1> QED
  BY <1>1, <1>2, <1>4

\* The last labels of the names with fixed content.
LEMMA LastOfFixed ==
    /\ \A kind : Last(<<Plain(kind)>>) = Plain(kind)
    /\ \A labels \in TxtTests : Last(labels) = Plain("txt-test")
    /\ Last(Unresolvable) = Plain("ns-test")
<1>1. \A a : Last(<<a>>) = a
  BY DEF Last
<1>2. \A a, b : Last(<<a, b>>) = b
  BY DEF Last
<1> QED
  BY <1>1, <1>2, Zenon DEF TxtTests, Unresolvable

\* A valid size-N that is not a nameserver's name is answered by sizeReply.
LEMMA SizedZoneReply ==
    ASSUME NEW L, NEW q, q.labels \in Seq(L), q.labels \notin Nameservers, NEW m, NEW seen,
           NEW g, g = Parsed(q.labels).gadget, g.kind = "size", g.arg \in ValidArgs("size"),
           q.qtype = "TXT"
    PROVE  ZoneReply(q, m, seen) = sizeReply(m, g.arg)
<1> DEFINE labels == q.labels
<1>1. GadgetOrNameError(g, q, m) = sizeReply(m, g.arg)
  <2>1. GadgetExists(g, q)
    BY DEF GadgetExists, Gadgets, TxtGadgets
  <2>2. handleGadget(g, q, m) = sizeReply(m, g.arg)
    BY DEF handleGadget, TxtGadgets
  <2> QED
    BY <2>1, <2>2 DEF GadgetOrNameError
<1>2. g # NoLabel
  <2>1. NoLabel.kind # "size"
    BY DEF NoLabel, Plain
  <2> QED
    BY <2>1
<1>3. CASE IsUnder(labels, "diag")
  <2>1. g = parseDiag(labels).gadget
    BY <1>3 DEF Parsed
  <2>2. DiagReply(q, m) = GadgetOrNameError(g, q, m)
    BY <1>2, <2>1 DEF DiagReply
  <2>3. labels # Apex /\ \A l : labels # <<l>>
    <3>1. Len(<<>>) = 0 /\ \A l : Len(<<l>>) = 1
      OBVIOUS
    <3>2. Len(labels) # 0 /\ Len(labels) # 1
      <4> DEFINE k == Len(labels)
      <4>1. k \in Nat /\ k > 1
        BY <1>3 DEF IsUnder
      <4> HIDE DEF k
      <4>2. k # 0 /\ k # 1
        BY <4>1
      <4> QED
        BY <4>2 DEF k
    <3> HIDE DEF labels
    <3> QED
      BY <3>1, <3>2, Zenon DEF Apex
  <2>4. \A kind : kind # "diag" => Last(labels) # Plain(kind)
    BY <1>3 DEF IsUnder, Plain
  <2>5. labels \notin TxtTests /\ labels # Unresolvable
    BY <2>4, LastOfFixed
  <2>6. ~IsIn(labels, "entropy") /\ ~IsIn(labels, "qname-min") /\ ~IsIn(labels, "dnssec-failed")
    BY <2>4 DEF IsIn
  <2>7. ZoneReply(q, m, seen) = DiagReply(q, m)
    BY <1>3, <2>3, <2>5, <2>6 DEF ZoneReply
  <2> QED
    BY <1>1, <2>2, <2>7
<1>4. CASE ~IsUnder(labels, "diag")
  <2>1. g = parseTopLevel(labels).gadget
    BY <1>4 DEF Parsed
  <2>2. labels # <<>>
    BY <1>2, <2>1, NoGadget
  <2>3. \A kind \in Families \cup {"txt-test"} : Last(labels) # Plain(kind)
    BY <2>1, <2>2, NotSized
  <2>4. labels # Apex
    BY <2>2 DEF Apex
  <2>5. /\ labels # <<Plain("www")>> /\ labels # <<Plain("diag")>> /\ labels # <<Plain("help")>>
        /\ labels \notin TxtTests /\ labels # Unresolvable
    BY <2>3, LastOfFixed DEF Families
  <2>6. ~IsIn(labels, "entropy") /\ ~IsIn(labels, "qname-min") /\ ~IsIn(labels, "dnssec-failed")
    BY <2>3 DEF Families, IsIn
  <2>7. ZoneReply(q, m, seen) = TopLevelReply(q, m)
    BY <1>4, <2>4, <2>5, <2>6 DEF ZoneReply
  <2>8. TopLevelReply(q, m) = GadgetOrNameError(g, q, m)
    BY <1>2, <2>1 DEF TopLevelReply
  <2> QED
    BY <1>1, <2>7, <2>8
<1> QED
  BY <1>3, <1>4

\* One string, one record.
LEMMA SumOfOne == \A n \in Int : SumOf(<<n>>) = n
<1> SUFFICES ASSUME NEW n \in Int PROVE SumOf(<<n>>) = n
  OBVIOUS
<1> DEFINE one == <<n>>
<1>1. DOMAIN one = 1..1 /\ one[1] = n /\ 1 \in Nat
  OBVIOUS
<1>2. SumOf(one) = Adding!Folded(0, one)
  BY Zenon DEF SumOf, Adding!Folded, AddUp, Adding!FoldLeft, FoldLeft,
               Adding!MapThenFoldSet, MapThenFoldSet, Adding!Max, Max
<1> HIDE DEF one
<1>3. PICK F : Adding!IsFold(F, 1, one, 0)
  BY <1>1, Adding!Unrolled
<1>4. F[0] = 0 /\ (\A k \in 1..1 : F[k] = F[k - 1] + one[k]) /\ F[1] = Adding!Folded(0, one)
  BY <1>3, Zenon DEF Adding!IsFold, AddUp
<1>5. F[1] = F[0] + one[1]
  BY <1>4
<1>6. SumOf(one) = n
  BY <1>1, <1>2, <1>4, <1>5
<1> QED
  BY <1>6 DEF one

LEMMA BytesOfOne ==
    ASSUME NEW rr, rr.bytes \in Int
    PROVE  SectionBytes(<<rr>>) = rr.bytes
<1> DEFINE one == <<rr>>
<1>1. DOMAIN one = 1..1 /\ one[1] = rr /\ 1 \in Nat
  OBVIOUS
<1>2. SectionBytes(one) = Bytes!Folded(0, one)
  BY Zenon DEF SectionBytes, Bytes!Folded, AddBytes, Bytes!FoldLeft, FoldLeft,
               Bytes!MapThenFoldSet, MapThenFoldSet, Bytes!Max, Max
<1> HIDE DEF one
<1>3. PICK F : Bytes!IsFold(F, 1, one, 0)
  BY <1>1, Bytes!Unrolled
<1>4. F[0] = 0 /\ (\A k \in 1..1 : F[k] = F[k - 1] + one[k].bytes) /\ F[1] = Bytes!Folded(0, one)
  BY <1>3, Zenon DEF Bytes!IsFold, AddBytes
<1>5. F[1] = F[0] + one[1].bytes
  BY <1>4
<1>6. SectionBytes(one) = rr.bytes
  BY <1>1, <1>2, <1>4, <1>5
<1> QED
  BY <1>6 DEF one

\* The reply of size-N before it is filled: a string of eight bytes and an OPT record,
\* besides the question.
LEMMA SizeBeforeFilling ==
    ASSUME NEW labels, Len(labels) \in Nat, NameBytes(labels) \in Nat,
           NEW start, start = appendTXT(EnsureOpt(Reply(labels)), 0, << 8 >>)
    PROVE  \E rr : /\ start = [x \in MsgFields |-> start[x]] /\ start.answer = <<rr>>
                   /\ rr = [x \in DOMAIN rr |-> rr[x]] /\ "bytes" \in DOMAIN rr
                   /\ rr.bytes = NameBytes(labels) + 19
                   /\ start.qname = labels /\ start.ns = <<>> /\ start.extra = <<EmptyOpt>>
<1> DEFINE m == Reply(labels)
           e == EnsureOpt(m)
           strings == <<8>>
           q == [labels |-> labels]
           rr == TXT(labels, 0, strings)
<1>1. IsMessage(m) /\ m.qname = labels /\ m.extra = <<>> /\ m.answer = <<>> /\ m.ns = <<>>
  <2>1. q.labels = labels
    OBVIOUS
  <2>2. /\ Fresh(q, Reply(q.labels))
        /\ Reply(q.labels).answer = <<>> /\ Reply(q.labels).ns = <<>>
    BY FreshReply
  <2> HIDE DEF q
  <2> QED
    BY <2>1, <2>2 DEF Fresh
<1> HIDE DEF m
<1>2. ~HasOpt(m)
  BY <1>1 DEF HasOpt
<1>3. IsMessage(e) /\ SameBut({"extra"}, m, e) /\ e.extra = Append(m.extra, EmptyOpt)
  BY <1>1, <1>2, EnsureOptHas
<1>4. e.qname = labels /\ e.answer = <<>> /\ e.ns = <<>>
  BY <1>1, <1>3 DEF SameBut, MsgFields
<1>5. start = [e EXCEPT !.answer = Append(e.answer, TXT(e.qname, 0, strings))]
  BY DEF appendTXT, Answering, m
<1> HIDE DEF e, strings
<1>6. start = [e EXCEPT !.answer = Append(<<>>, rr)]
  BY <1>4, <1>5
<1>7. rr.bytes = NameBytes(labels) + 19 /\ rr = [x \in DOMAIN rr |-> rr[x]] /\ "bytes" \in DOMAIN rr
  <2>1. SumOf(strings) = 8 /\ Len(strings) = 1
    BY SumOfOne DEF strings
  <2> DEFINE bytes == SumOf(strings) + Len(strings)
             packs == \A i \in DOMAIN strings : strings[i] <= 255
             plain == RR("TXT", labels, 0, bytes)
  <2>2. bytes = 9
    BY <2>1
  <2>3. rr = [plain EXCEPT !.packs = packs]
    BY DEF TXT
  <2> HIDE DEF bytes, packs
  <2>4. /\ plain.bytes = NameBytes(labels) + 10 + bytes /\ "bytes" \in DOMAIN plain
        /\ plain = [x \in DOMAIN plain |-> plain[x]]
    BY DEF RR
  <2> HIDE DEF plain, rr
  <2>5. rr.bytes = plain.bytes /\ DOMAIN rr = DOMAIN plain /\ rr = [x \in DOMAIN plain |-> rr[x]]
    BY <2>3, <2>4
  <2> QED
    BY <2>2, <2>4, <2>5
<1> HIDE DEF rr
<1>8. Append(<<>>, rr) = <<rr>> /\ Append(m.extra, EmptyOpt) = <<EmptyOpt>>
  BY <1>1
<1>9. /\ start = [x \in MsgFields |-> start[x]] /\ start.answer = <<rr>>
      /\ start.qname = e.qname /\ start.ns = e.ns /\ start.extra = e.extra
  BY <1>3, <1>6, <1>8 DEF IsMessage, MsgFields
<1> QED
  BY <1>3, <1>4, <1>7, <1>8, <1>9

\* size-N gives a reply of N bytes, or one more, if it is not longer at once.
LEMMA SizeReplyIs ==
    ASSUME NEW labels, Len(labels) \in Nat, NameBytes(labels) \in Nat, NEW n \in Nat, 2 * NameBytes(labels) + 46 <= n
    PROVE  Size(sizeReply(Reply(labels), n)) \in {n, n + 1}
<1> DEFINE start == appendTXT(EnsureOpt(Reply(labels)), 0, <<8>>)
           len == 2 * NameBytes(labels) + 46
           final == SizedTo(len, n)
           sized == sizeReply(Reply(labels), n)
<1>1. PICK rr : /\ start = [x \in MsgFields |-> start[x]] /\ start.answer = <<rr>>
                /\ rr = [x \in DOMAIN rr |-> rr[x]] /\ "bytes" \in DOMAIN rr
                /\ rr.bytes = NameBytes(labels) + 19
                /\ start.qname = labels /\ start.ns = <<>> /\ start.extra = <<EmptyOpt>>
  BY SizeBeforeFilling
<1>2. SectionBytes(<<EmptyOpt>>) = 11
  <2>1. EmptyOpt.bytes = 11
    BY DEF EmptyOpt, Opt
  <2> QED
    BY <2>1, BytesOfOne
<1>3. ASSUME NEW one, one.bytes \in Int, NEW m,
             m.answer = <<one>> /\ m.qname = labels /\ m.ns = <<>> /\ m.extra = <<EmptyOpt>>
      PROVE  Size(m) = NameBytes(labels) + 27 + one.bytes
  <2> DEFINE none == <<>>
             ones == <<one>>
             opts == <<EmptyOpt>>
  <2>1. SectionBytes(ones) = one.bytes /\ SectionBytes(none) = 0 /\ SectionBytes(opts) = 11
    BY <1>2, <1>3, BytesOfOne, NoBytes
  <2>2. m.answer = ones /\ m.qname = labels /\ m.ns = none /\ m.extra = opts
    BY <1>3
  <2> HIDE DEF none, ones, opts
  <2>3. Size(m) = 12 + NameBytes(labels) + 4 + one.bytes + 0 + 11
    BY <2>1, <2>2, Zenon DEF Size
  <2> QED
    BY <1>3, <2>3
<1>4. sized = [start EXCEPT !.answer[1].bytes = @ + SizedTo(Size(start), n) - Size(start)]
  BY DEF sizeReply
<1> HIDE DEF start
<1>5. Size(start) = len
  <2>1. rr.bytes \in Int
    BY <1>1
  <2>2. Size(start) = NameBytes(labels) + 27 + rr.bytes
    BY <1>1, <1>3, <2>1, Zenon
  <2> QED
    BY <1>1, <2>2
<1>6. final \in {n, n + 1} /\ len \in Nat
  BY SizedToIs
<1> DEFINE bytes == rr.bytes + final - len
           filled == [rr EXCEPT !.bytes = bytes]
<1>7. sized = [start EXCEPT !.answer = <<filled>>]
  <2>1. sized = [start EXCEPT !.answer = [start.answer EXCEPT ![1].bytes = start.answer[1].bytes + final - len]]
    BY <1>4, <1>5
  <2>2. start.answer[1] = rr
    <3>1. <<rr>>[1] = rr
      OBVIOUS
    <3> QED
      BY <1>1, <3>1, Zenon
  <2>3. [<<rr>> EXCEPT ![1].bytes = bytes] = <<filled>>
    OBVIOUS
  <2> QED
    BY <1>1, <2>1, <2>2, <2>3
<1>8. filled.bytes = bytes
  BY <1>1
<1> HIDE DEF final, len, filled, sized
<1>9. sized.answer = <<filled>> /\ sized.qname = labels /\ sized.ns = <<>> /\ sized.extra = <<EmptyOpt>>
  BY <1>1, <1>7 DEF MsgFields
<1>10. bytes \in Int /\ bytes = NameBytes(labels) + 19 + final - len
  BY <1>1, <1>6
<1>11. Size(sized) = NameBytes(labels) + 27 + bytes
  BY <1>3, <1>8, <1>9, <1>10
<1>12. Size(sized) = final
  <2> DEFINE b == NameBytes(labels)
             s == Size(sized)
  <2>1. s = b + 27 + bytes /\ bytes = b + 19 + final - len /\ len = 2 * b + 46 /\ b \in Nat
    BY <1>10, <1>11 DEF len
  <2>2. final \in Nat
    BY <1>6
  <2> HIDE DEF b, s, bytes
  <2>3. s = final
    BY <2>1, <2>2
  <2> QED
    BY <2>3 DEF s
<1> QED
  BY <1>6, <1>12 DEF sized
=============================================================================
