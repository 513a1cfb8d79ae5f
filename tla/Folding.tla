------------------------------ MODULE Folding ------------------------------
(***************************************************************************)
(* Induction over sequences, for a fold of any step: FoldLeft of the       *)
(* community modules chooses a function on sets of indices; here that      *)
(* function is shown to exist and to take one element after the other.     *)
(* The principles speak of sets of numbers instead of predicates, so that  *)
(* they can be cited.  Last, the numbering of a finite set by an order.    *)
(***************************************************************************)
EXTENDS Integers, Sequences, SequencesExt, FiniteSetTheorems,
        WellFoundedInduction, TLAPS

CONSTANT Step(_, _)

-----------------------------------------------------------------------------
LessThan == {ss \in Nat \X Nat : ss[1] < ss[2]}

\* The natural numbers are well-founded.
LEMMA LessWellFounded == IsWellFoundedOn(LessThan, Nat)
<1>1. OpToRel(<, Nat) = LessThan
  BY DEF OpToRel, LessThan
<1> QED
  BY <1>1, NatLessThanWellFounded

\* A set of numbers with a member has a least one.
LEMMA LeastNumber ==
    ASSUME NEW T \in SUBSET Nat, T # {}
    PROVE  \E n \in T : \A m \in T : n <= m
<1>1. PICK n \in T : \A m \in T : ~(<<m, n>> \in LessThan)
  BY LessWellFounded, WFMin
<1>2. ASSUME NEW m \in T
      PROVE  n <= m
  <2>1. m \in Nat /\ n \in Nat
    OBVIOUS
  <2>2. CASE m < n
    <3>1. <<m, n>> \in Nat \X Nat /\ <<m, n>>[1] < <<m, n>>[2]
      BY <2>1, <2>2
    <3>2. <<m, n>> \in LessThan
      BY <3>1, Zenon DEF LessThan
    <3> QED
      BY <1>1, <3>2
  <2> QED
    BY <2>1, <2>2
<1> QED
  BY <1>2

\* What holds of 0 and is handed on up to n holds up to n.
LEMMA Induct ==
    ASSUME NEW n \in Nat, NEW T, 0 \in T,
           \A k \in 0..(n - 1) : k \in T => k + 1 \in T
    PROVE  \A k \in 0..n : k \in T
<1> DEFINE Rest == {k \in 0..n : k \notin T}
<1> SUFFICES ASSUME Rest # {} PROVE FALSE
  OBVIOUS
<1>1. PICK k \in Rest : \A m \in Rest : k <= m
  <2>1. Rest \in SUBSET Nat
    OBVIOUS
  <2> HIDE DEF Rest
  <2> QED
    BY <2>1, LeastNumber
<1>2. k # 0 /\ k - 1 \in 0..(n - 1) /\ k - 1 \notin Rest
  BY <1>1
<1> QED
  BY <1>1, <1>2

\* The largest of some indices.
LEMMA LargestIndex ==
    ASSUME NEW n \in Nat, NEW I \in SUBSET (1..n), I # {}
    PROVE  Max(I) \in I /\ \A i \in I : i <= Max(I)
<1> DEFINE T == {n - i : i \in I}
<1>1. PICK t \in T : \A s \in T : t <= s
  <2>1. \A i \in I : i \in 1..n /\ n - i \in Nat
    OBVIOUS
  <2>2. T \in SUBSET Nat /\ T # {}
    BY <2>1
  <2> HIDE DEF T
  <2> QED
    BY <2>2, LeastNumber
<1>2. PICK i \in I : t = n - i
  BY <1>1
<1>3. ASSUME NEW j \in I
      PROVE  i >= j
  <2>1. n - j \in T /\ i \in 1..n /\ j \in 1..n
    OBVIOUS
  <2>2. n - i <= n - j
    BY <1>1, <1>2, <2>1
  <2> QED
    BY <2>1, <2>2
<1>4. Max(I) \in I /\ \A j \in I : Max(I) >= j
  BY <1>3, Zenon DEF Max
<1> QED
  BY <1>4

-----------------------------------------------------------------------------
\* The function that FoldLeft chooses, on the sets of the first n indices.
IsTable(f, n, seq, base) ==
    f = [I \in SUBSET (1..n) |->
            IF I = {} THEN base ELSE Step(f[I \ {Max(I)}], seq[Max(I)])]

\* A function for the first n elements extends to n + 1...
LEMMA LongerTable ==
    ASSUME NEW n \in Nat, NEW seq, NEW base, NEW f, IsTable(f, n, seq, base)
    PROVE  \E g : IsTable(g, n + 1, seq, base)
<1> DEFINE g == [I \in SUBSET (1..(n + 1)) |->
                    IF n + 1 \in I THEN Step(f[I \ {n + 1}], seq[n + 1]) ELSE f[I]]
<1>1. ASSUME NEW I \in SUBSET (1..(n + 1))
      PROVE  g[I] = IF I = {} THEN base ELSE Step(g[I \ {Max(I)}], seq[Max(I)])
  <2>1. CASE n + 1 \in I
    <3>1. Max(I) = n + 1
      <4>1. Max(I) \in I /\ \A i \in I : i <= Max(I)
        <5>1. n + 1 \in Nat /\ I # {}
          BY <2>1
        <5> QED
          BY <5>1, LargestIndex
      <4>2. Max(I) \in 1..(n + 1)
        BY <4>1
      <4> QED
        BY <2>1, <4>1, <4>2
    <3>2. I \ {n + 1} \in SUBSET (1..(n + 1)) /\ n + 1 \notin I \ {n + 1}
      OBVIOUS
    <3>3. g[I \ {n + 1}] = f[I \ {n + 1}]
      BY <3>2
    <3>4. g[I] = Step(f[I \ {n + 1}], seq[n + 1])
      BY <2>1
    <3> HIDE DEF g
    <3> QED
      BY <2>1, <3>1, <3>3, <3>4
  <2>2. CASE n + 1 \notin I /\ I # {}
    <3>1. I \in SUBSET (1..n)
      BY <2>2
    <3>2. I \ {Max(I)} \in SUBSET (1..n) /\ I \ {Max(I)} \in SUBSET (1..(n + 1))
      BY <3>1
    <3>3. g[I] = f[I] /\ g[I \ {Max(I)}] = f[I \ {Max(I)}]
      BY <2>2, <3>2
    <3>4. f[I] = Step(f[I \ {Max(I)}], seq[Max(I)])
      BY <2>2, <3>1, Zenon DEF IsTable
    <3> HIDE DEF g
    <3> QED
      BY <2>2, <3>3, <3>4
  <2>3. CASE I = {}
    <3>1. {} \in SUBSET (1..n)
      OBVIOUS
    <3>2. f[{}] = base
      BY <3>1, Zenon DEF IsTable
    <3> QED
      BY <2>3, <3>2
  <2> QED
    BY <2>1, <2>2, <2>3
<1>2. g = [I \in SUBSET (1..(n + 1)) |-> g[I]]
  OBVIOUS
<1> HIDE DEF g
<1>3. g = [I \in SUBSET (1..(n + 1)) |->
              IF I = {} THEN base ELSE Step(g[I \ {Max(I)}], seq[Max(I)])]
  BY <1>1, <1>2, Zenon
<1> QED
  BY <1>3 DEF IsTable

\* ... so for a sequence of any length the function FoldLeft chooses exists.
LEMMA TableExists ==
    ASSUME NEW n \in Nat, NEW seq, NEW base
    PROVE  \E f : IsTable(f, n, seq, base)
<1> DEFINE T == {k \in 0..n : \E f : IsTable(f, k, seq, base)}
<1>1. 0 \in T
  <2> DEFINE f == [I \in SUBSET (1..0) |-> base]
  <2>1. SUBSET (1..0) = {{}}
    OBVIOUS
  <2>2. f = [I \in SUBSET (1..0) |->
                IF I = {} THEN base ELSE Step(f[I \ {Max(I)}], seq[Max(I)])]
    BY <2>1
  <2>3. IsTable(f, 0, seq, base)
    BY <2>2 DEF IsTable
  <2> QED
    BY <2>3
<1>2. ASSUME NEW k \in 0..(n - 1), k \in T
      PROVE  k + 1 \in T
  BY <1>2, LongerTable
<1>3. \A k \in 0..n : k \in T
  <2> HIDE DEF T
  <2> QED
    BY <1>1, <1>2, Induct
<1> QED
  BY <1>3

Folded(base, seq) == FoldLeft(Step, base, seq)

\* F[k] is the fold of the first k elements.
IsFold(F, n, seq, base) ==
    /\ F = [k \in 0..n |-> F[k]]
    /\ F[0] = base
    /\ \A k \in 1..n : F[k] = Step(F[k - 1], seq[k])
    /\ F[n] = Folded(base, seq)

\* A fold takes one step after the other, from the first element to the last.
LEMMA Unrolled ==
    ASSUME NEW n \in Nat, NEW seq, DOMAIN seq = 1..n, NEW base
    PROVE  \E F : IsFold(F, n, seq, base)
<1> DEFINE f == CHOOSE f : IsTable(f, n, seq, base)
           F == [k \in 0..n |-> f[1..k]]
<1>1. IsTable(f, n, seq, base)
  BY TableExists
<1>2. Folded(base, seq) = f[1..n]
  BY Zenon DEF IsTable, Folded, FoldLeft, MapThenFoldSet
<1> HIDE DEF f
<1>3. F[0] = base
  <2>1. 1..0 = {} /\ {} \in SUBSET (1..n)
    OBVIOUS
  <2>2. f[{}] = base
    BY <1>1, <2>1, Zenon DEF IsTable
  <2> QED
    BY <2>1, <2>2
<1>4. ASSUME NEW k \in 1..n
      PROVE  F[k] = Step(F[k - 1], seq[k])
  <2>1. 1..k \in SUBSET (1..n) /\ k \in 1..k /\ k \in Nat /\ k - 1 \in 0..n
    OBVIOUS
  <2>2. Max(1..k) = k /\ (1..k) \ {k} = 1..(k - 1)
    <3>1. Max(1..k) \in 1..k /\ \A i \in 1..k : i <= Max(1..k)
      BY <2>1, LargestIndex
    <3> QED
      BY <2>1, <3>1
  <2>3. f[1..k] = Step(f[(1..k) \ {Max(1..k)}], seq[Max(1..k)])
    BY <1>1, <2>1, Zenon DEF IsTable
  <2>4. F[k] = f[1..k] /\ F[k - 1] = f[1..(k - 1)]
    BY <2>1
  <2> QED
    BY <2>2, <2>3, <2>4, Zenon
<1>5. F[n] = f[1..n] /\ F = [k \in 0..n |-> F[k]]
  OBVIOUS
<1> QED
  BY <1>2, <1>3, <1>4, <1>5 DEF IsFold

-----------------------------------------------------------------------------
(***************************************************************************)
(* Finite sets in order.                                                   *)
(***************************************************************************)
\* A strict total order, as a set of pairs, and the members of S before one of them.
IsOrder(R, S) ==
    /\ \A a \in S : <<a, a>> \notin R
    /\ \A a, b, c \in S : <<a, b>> \in R /\ <<b, c>> \in R => <<a, c>> \in R
    /\ \A a, b \in S : a = b \/ <<a, b>> \in R \/ <<b, a>> \in R
Before(R, S, n) == {o \in S : <<o, n>> \in R}

\* Of the members of an ordered set, exactly one has i - 1 members before it, and
\* the numbers follow the order.
LEMMA Ordered ==
    ASSUME NEW S, IsFiniteSet(S), NEW R, IsOrder(R, S)
    PROVE  /\ \A m, n \in S : <<m, n>> \in R
                                  <=> Cardinality(Before(R, S, m)) < Cardinality(Before(R, S, n))
           /\ \A n \in S : Cardinality(Before(R, S, n)) \in 0..(Cardinality(S) - 1)
           /\ \A i \in 1..Cardinality(S) :
                  \E n \in S : Cardinality(Before(R, S, n)) = i - 1
<1> DEFINE size == Cardinality(S)
           count(n) == Cardinality(Before(R, S, n))
           counts == [n \in S |-> count(n)]
<1>1. size \in Nat
  BY FS_CardinalityType
<1>2. ASSUME NEW n \in S
      PROVE  IsFiniteSet(Before(R, S, n)) /\ count(n) \in 0..(size - 1)
  <2>1. Before(R, S, n) \in SUBSET (S \ {n})
    BY DEF Before, IsOrder
  <2>2. IsFiniteSet(S \ {n}) /\ Cardinality(S \ {n}) = size - 1
    BY FS_RemoveElement
  <2>3. IsFiniteSet(Before(R, S, n)) /\ Cardinality(Before(R, S, n)) <= size - 1
    BY <2>1, <2>2, FS_Subset
  <2>4. Cardinality(Before(R, S, n)) \in Nat
    BY <2>3, FS_CardinalityType
  <2> QED
    BY <1>1, <2>3, <2>4
<1>3. ASSUME NEW m \in S, NEW n \in S, <<m, n>> \in R
      PROVE  count(m) < count(n)
  <2>1. Before(R, S, m) \in SUBSET Before(R, S, n)
    BY <1>3 DEF Before, IsOrder
  <2>2. m \in Before(R, S, n) /\ m \notin Before(R, S, m)
    BY <1>3 DEF Before, IsOrder
  <2>3. count(m) <= count(n) /\ count(m) # count(n)
    BY <1>2, <2>1, <2>2, FS_Subset
  <2>4. count(m) \in Int /\ count(n) \in Int
    BY <1>2
  <2> HIDE DEF count
  <2> QED
    BY <2>3, <2>4
<1>4. ASSUME NEW m \in S, NEW n \in S, count(m) < count(n)
      PROVE  <<m, n>> \in R
  <2>1. count(m) \in Int /\ count(n) \in Int
    BY <1>2
  <2>2. m # n
    BY <1>4, <2>1
  <2>3. ~(<<n, m>> \in R)
    <3>1. <<n, m>> \in R => count(n) < count(m)
      BY <1>3
    <3> HIDE DEF count
    <3> QED
      BY <1>4, <2>1, <3>1
  <2> QED
    BY <2>2, <2>3 DEF IsOrder
<1>5. counts \in Injection(S, 0..(size - 1))
  <2>1. counts \in [S -> 0..(size - 1)]
    BY <1>2
  <2>2. ASSUME NEW m \in S, NEW n \in S, counts[m] = counts[n]
        PROVE  m = n
    <3>1. count(m) \in Int /\ count(m) = count(n)
      BY <1>2, <2>2
    <3>2. <<m, n>> \notin R /\ <<n, m>> \notin R
      <4>1. ~(count(m) < count(n)) /\ ~(count(n) < count(m))
        <5> HIDE DEF count
        <5> QED
          BY <3>1
      <4> QED
        BY <1>3, <4>1
    <3> QED
      BY <3>2 DEF IsOrder
  <2> QED
    BY <2>1, <2>2 DEF Injection, IsInjective
<1>6. IsFiniteSet(0..(size - 1)) /\ Cardinality(0..(size - 1)) = size
  BY <1>1, FS_Interval
<1>7. counts \in Surjection(S, 0..(size - 1))
  <2> HIDE DEF counts
  <2> QED
    BY <1>5, <1>6, FS_Injection
<1>8. \A i \in 1..size : \E n \in S : count(n) = i - 1
  <2>1. \A k \in 0..(size - 1) : \E n \in S : counts[n] = k
    BY <1>7 DEF Surjection
  <2>2. \A i \in 1..size : i - 1 \in 0..(size - 1)
    BY <1>1
  <2>3. \A n \in S : counts[n] = count(n)
    OBVIOUS
  <2> HIDE DEF counts, count
  <2> QED
    BY <2>1, <2>2, <2>3
<1>9. \A m, n \in S : <<m, n>> \in R <=> count(m) < count(n)
  BY <1>3, <1>4
<1> QED
  BY <1>2, <1>8, <1>9
=============================================================================
