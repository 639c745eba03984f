--------------------- MODULE ClientProfileMapping_proofs ---------------------
(***************************************************************************)
(* Proofs about ClientProfileMapping, for every set of mappings, of pairs  *)
(* of profiles and of pool pairs, every lag of the watches and every       *)
(* bound.                                                                  *)
(***************************************************************************)
EXTENDS ClientProfileMapping, VersionLog_proofs, FiniteSetTheorems, FunctionTheorems, TLAPS

-----------------------------------------------------------------------------
(* Induction: a set of natural numbers has a least element, and so has the *)
(* set of counterexamples to a claim about all of them.                    *)

\* The initial segments below its elements are finite sets, which strict inclusion
\* orders well.
LEMMA LeastNatural ==
    ASSUME NEW S \in SUBSET Nat, S # {}
    PROVE  \E m \in S : \A k \in S : m <= k
<1> DEFINE T == {0..k : k \in S}
<1>1. T \subseteq FiniteSubsetsOf(Nat)
  <2>1. \A k \in Nat : IsFiniteSet(0..k)
    BY FS_Interval
  <2> QED
    BY <2>1 DEF FiniteSubsetsOf
<1>2. T # {}
  OBVIOUS
<1>3. PICK x \in T : \A y \in T : ~(<<y, x>> \in StrictSubsetOrdering(Nat))
  BY <1>1, <1>2, WFMin, FS_StrictSubsetOrderingWellFounded
<1>4. PICK m \in S : x = 0..m
  OBVIOUS
<1>5. ASSUME NEW k \in S, ~(m <= k) PROVE FALSE
  <2>1. k \in Nat /\ m \in Nat /\ k < m
    BY <1>5
  <2>2. 0..k \subseteq 0..m /\ m \in 0..m /\ m \notin 0..k
    BY <2>1
  <2>3. <<0..k, 0..m>> \in StrictSubsetOrdering(Nat)
    BY <2>2 DEF StrictSubsetOrdering
  <2> QED
    BY <1>3, <1>4, <2>3
<1> QED
  BY <1>5

-----------------------------------------------------------------------------
(* cluster-mapping.json *)

\* Counting the elements up to each one numbers a finite set of positions.
Rank(S) == [i \in S |-> Cardinality({j \in S : j <= i})]

LEMMA RankBijection ==
    ASSUME NEW n \in Nat, NEW S \in SUBSET (1..n)
    PROVE  /\ IsFiniteSet(S) /\ Cardinality(S) \in Nat
           /\ Rank(S) \in Bijection(S, 1..Cardinality(S))
           /\ \A i, j \in S : i < j <=> Rank(S)[i] < Rank(S)[j]
<1>0. S \subseteq Nat
  OBVIOUS
<1> DEFINE upTo(i) == {j \in S : j <= i}
           rank == [i \in S |-> Cardinality(upTo(i))]
<1>1. IsFiniteSet(S) /\ Cardinality(S) \in Nat
  <2>1. IsFiniteSet(1..n)
    BY FS_Interval
  <2> QED
    BY <2>1, FS_Subset, FS_CardinalityType
<1>2. ASSUME NEW i \in S
      PROVE  IsFiniteSet(upTo(i)) /\ Cardinality(upTo(i)) \in 1..Cardinality(S)
  <2>1. upTo(i) \in SUBSET S
    OBVIOUS
  <2>2. IsFiniteSet(upTo(i)) /\ Cardinality(upTo(i)) <= Cardinality(S)
    BY <1>1, <2>1, FS_Subset
  <2>3. i \in upTo(i)
    OBVIOUS
  <2>4. Cardinality(upTo(i)) \in Nat /\ Cardinality(upTo(i)) # 0
    BY <2>2, <2>3, FS_CardinalityType, FS_EmptySet
  <2> HIDE DEF upTo
  <2> QED
    BY <1>1, <2>2, <2>4
<1>3. ASSUME NEW i \in S, NEW j \in S, i < j
      PROVE  Cardinality(upTo(i)) < Cardinality(upTo(j))
  <2>1. upTo(i) \in SUBSET upTo(j) /\ j \in upTo(j) /\ j \notin upTo(i)
    <3>1. i \in Nat /\ j \in Nat /\ \A x \in S : x \in Nat
      BY <1>0
    <3>2. \A x \in S : x <= i => x <= j
      BY <1>3, <3>1
    <3>3. j <= j /\ ~(j <= i)
      BY <1>3, <3>1
    <3> QED
      BY <3>2, <3>3
  <2> HIDE DEF upTo
  <2>2. /\ Cardinality(upTo(i)) <= Cardinality(upTo(j))
        /\ Cardinality(upTo(j)) = Cardinality(upTo(i)) => upTo(j) = upTo(i)
    <3>1. IsFiniteSet(upTo(j))
      BY <1>2
    <3> QED
      BY <2>1, <3>1, FS_Subset
  <2>3. Cardinality(upTo(i)) \in Nat /\ Cardinality(upTo(j)) \in Nat
    BY <1>1, <1>2
  <2> QED
    BY <2>1, <2>2, <2>3
<1>4. \A i, j \in S : i < j <=> Cardinality(upTo(i)) < Cardinality(upTo(j))
  <2> HIDE DEF upTo
  <2>1. \A i \in S : Cardinality(upTo(i)) \in Nat
    BY <1>1, <1>2
  <2>2. \A i, j \in S : i < j \/ i = j \/ j < i
    OBVIOUS
  <2> QED
    BY <1>3, <2>1, <2>2
<1>5. rank \in Injection(S, 1..Cardinality(S))
  <2>1. rank \in [S -> 1..Cardinality(S)]
    BY <1>2
  <2>2. ASSUME NEW a \in S, NEW b \in S, rank[a] = rank[b] PROVE a = b
    <3>1. Cardinality(upTo(a)) = Cardinality(upTo(b))
      BY <2>2
    <3>2. Cardinality(upTo(a)) \in Nat
      BY <1>1, <1>2
    <3> HIDE DEF upTo, rank
    <3>3. ~(a < b) /\ ~(b < a)
      BY <1>4, <3>1, <3>2
    <3>4. a \in Nat /\ b \in Nat
      OBVIOUS
    <3> QED
      BY <3>3, <3>4
  <2> QED
    BY <2>1, <2>2, Fun_IsInj
<1>6. IsFiniteSet(1..Cardinality(S)) /\ Cardinality(1..Cardinality(S)) = Cardinality(S)
  <2>1. Cardinality(S) \in Int /\ 1 \in Int
    BY <1>1
  <2> QED
    BY <1>1, <2>1, FS_Interval
<1>7. rank \in Surjection(S, 1..Cardinality(S))
  BY <1>5, <1>6, FS_Injection
<1>8. rank \in Bijection(S, 1..Cardinality(S))
  BY <1>5, <1>7, Fun_IsBij
<1>9. rank = Rank(S)
  BY DEF Rank
<1>10. \A i, j \in S : i < j <=> rank[i] < rank[j]
  BY <1>4
<1> HIDE DEF rank
<1> QED
  BY <1>1, <1>8, <1>9, <1>10

\* A finite set of positions has an increasing enumeration, which InOrder is.
LEMMA InOrderFacts ==
    ASSUME NEW n \in Nat, NEW S \in SUBSET (1..n)
    PROVE  /\ Cardinality(S) \in Nat
           /\ InOrder(S) \in [1..Cardinality(S) -> S]
           /\ \A i, j \in 1..Cardinality(S) : InOrder(S)[i] = InOrder(S)[j] => i = j
           /\ \A x \in S : \E i \in 1..Cardinality(S) : InOrder(S)[i] = x
<1>0. S \subseteq Nat
  OBVIOUS
<1> DEFINE C == Cardinality(S)
           D == 1..C
           rank == Rank(S)
           f == Inverse(rank, S, D)
<1>1. /\ IsFiniteSet(S) /\ C \in Nat /\ rank \in Bijection(S, 1..C)
      /\ \A i, j \in S : i < j <=> rank[i] < rank[j]
  BY RankBijection
<1>2. IsFiniteSet(1..C) /\ Cardinality(1..C) = C
  <2>1. C \in Int /\ 1 \in Int
    BY <1>1
  <2> QED
    BY <1>1, <2>1, FS_Interval
<1> HIDE DEF C, rank
<1>3. rank \in Bijection(S, D)
  BY <1>1
<1> HIDE DEF D
<1>4. f \in [D -> S] /\ \A i \in D : rank[f[i]] = i
  <2>1. f \in Bijection(D, S) /\ rank \in [S -> D] /\ rank \in Surjection(S, D)
    BY <1>3, Fun_BijInverse, Fun_BijectionProperties
  <2>2. Range(rank) = D
    BY <2>1, Fun_SurjectionProperties
  <2>3. \A y \in Range(rank) : rank[f[y]] = y
    BY <2>1, Fun_InverseProperties
  <2> HIDE DEF f
  <2>4. f \in [D -> S]
    BY <2>1, Fun_BijectionProperties
  <2> QED
    BY <2>2, <2>3, <2>4
<1> HIDE DEF f
<1> USE DEF D
<1>5. \A i, j \in 1..C : i < j => f[i] < f[j]
  BY <1>1, <1>4
<1>6. DOMAIN f = 1..C
  BY <1>4
<1>7. \E g \in [1..C -> S] : \A i, j \in DOMAIN g : i < j => g[i] < g[j]
  BY <1>4, <1>5, <1>6
<1>8. /\ InOrder(S) \in [1..C -> S]
      /\ \A i, j \in DOMAIN InOrder(S) : i < j => InOrder(S)[i] < InOrder(S)[j]
  BY <1>7 DEF InOrder, C
<1> DEFINE g == InOrder(S)
<1>9. DOMAIN g = 1..C
  BY <1>8
<1> HIDE DEF g
<1>10. ASSUME NEW i \in 1..C, NEW j \in 1..C, g[i] = g[j] PROVE i = j
  <2>1. g[i] \in Nat /\ ~(g[i] < g[j]) /\ ~(g[j] < g[i])
    <3>1. g[i] \in S /\ g[j] \in S
      BY <1>8 DEF g
    <3>2. g[i] \in Nat
      BY <1>0, <3>1
    <3> QED
      BY <1>10, <3>2
  <2>2. ~(i < j) /\ ~(j < i)
    BY <1>8, <1>9, <2>1 DEF g
  <2>3. i \in Nat /\ j \in Nat
    BY <1>1
  <2> QED
    BY <2>2, <2>3
<1>11. g \in Injection(1..C, S)
  BY <1>8, <1>10, Fun_IsInj DEF g
<1>12. g \in Surjection(1..C, S)
  BY <1>1, <1>2, <1>11, FS_Injection DEF C
<1>13. \A x \in S : \E i \in 1..C : g[i] = x
  <2>1. g \in Surjection(D, S)
    BY <1>12
  <2> HIDE DEF D
  <2>2. \A x \in S : \E i \in D : g[i] = x
    BY <2>1, Fun_SurjectionProperties
  <2> QED
    BY <2>2 DEF D
<1> QED
  BY <1>1, <1>8, <1>10, <1>13 DEF C, g

\* Skipping what was seen before loses nothing, adds nothing and leaves no
\* duplicate.
LEMMA SkipSeenFacts ==
    ASSUME NEW S, NEW s \in Seq(S)
    PROVE  /\ SkipSeen(s) \in Seq(S)
           /\ IsInjective(SkipSeen(s))
           /\ ToSet(SkipSeen(s)) = ToSet(s)
<1> DEFINE F == FirstSeen(s)
           C == Cardinality(F)
           order == InOrder(F)
<1>1. Len(s) \in Nat /\ DOMAIN s = 1..Len(s) /\ s \in [1..Len(s) -> S]
  BY LenProperties
<1>2. F \in SUBSET (1..Len(s))
  BY <1>1 DEF FirstSeen
<1>3. /\ C \in Nat /\ order \in [1..C -> F]
      /\ \A i, j \in 1..C : order[i] = order[j] => i = j
      /\ \A x \in F : \E i \in 1..C : order[i] = x
  BY <1>1, <1>2, InOrderFacts
<1>4. \A i, j \in F : s[i] = s[j] => i = j
  <2>1. ASSUME NEW i \in F, NEW j \in F, i < j, s[i] = s[j] PROVE FALSE
    <3>1. i \in 1..(j - 1)
      BY <1>1, <1>2, <2>1
    <3> QED
      BY <2>1, <3>1 DEF FirstSeen
  <2>2. \A i, j \in F : i < j \/ j < i \/ i = j
    BY <1>1, <1>2
  <2> QED
    BY <2>1, <2>2
<1>5. \A x \in DOMAIN s : \E i \in F : s[i] = s[x]
  <2> SUFFICES ASSUME NEW x \in DOMAIN s PROVE \E i \in F : s[i] = s[x]
    OBVIOUS
  <2> DEFINE Same == {i \in DOMAIN s : s[i] = s[x]}
  <2>1. Same \in SUBSET Nat /\ x \in Same
    BY <1>1
  <2>2. PICK m \in Same : \A k \in Same : m <= k
    BY <2>1, LeastNatural
  <2>3. \A j \in 1..(m - 1) : s[j] # s[m]
    <3>1. ASSUME NEW j \in 1..(m - 1), s[j] = s[m] PROVE FALSE
      <4>1. m \in 1..Len(s) /\ s[m] = s[x]
        BY <1>1
      <4>2. j \in 1..Len(s) /\ ~(m <= j)
        BY <1>1, <4>1
      <4>3. j \in Same
        BY <1>1, <3>1, <4>1, <4>2
      <4> QED
        BY <2>2, <4>2, <4>3
    <3> QED
      BY <3>1
  <2>4. m \in F
    BY <2>3 DEF FirstSeen
  <2> QED
    BY <2>4
<1> DEFINE r == [k \in 1..C |-> s[order[k]]]
<1>6. SkipSeen(s) = r
  <2>1. DOMAIN order = 1..C
    BY <1>3
  <2> QED
    BY <2>1 DEF SkipSeen
<1> HIDE DEF F, C, order
<1>7. \A k \in 1..C : order[k] \in F /\ order[k] \in 1..Len(s) /\ s[order[k]] \in S
  BY <1>1, <1>2, <1>3
<1>8. r \in Seq(S)
  <2>1. r \in [1..C -> S]
    BY <1>7
  <2> QED
    BY <1>3, <2>1, SeqDef
<1>9. IsInjective(r)
  BY <1>3, <1>4, <1>7 DEF IsInjective
<1>10. ToSet(r) = ToSet(s)
  <2>1. \A y \in ToSet(r) : y \in ToSet(s)
    BY <1>1, <1>7 DEF ToSet
  <2>2. \A y \in ToSet(s) : y \in ToSet(r)
    <3> SUFFICES ASSUME NEW x \in DOMAIN s PROVE s[x] \in ToSet(r)
      BY DEF ToSet
    <3>1. PICK i \in F : s[i] = s[x]
      BY <1>5
    <3>2. PICK k \in 1..C : order[k] = i
      BY <1>3
    <3> QED
      BY <3>1, <3>2 DEF ToSet
  <2> QED
    BY <2>1, <2>2
<1> HIDE DEF r
<1> QED
  BY <1>6, <1>8, <1>9, <1>10

\* The recursive function FlattenSeq is built on, for the first n sequences, exists.
Flattens(seqs, n, f) == f = [i \in 1..n |-> IF i = 1 THEN seqs[i] ELSE f[i - 1] \o seqs[i]]

LEMMA FlattenExists ==
    ASSUME NEW S, NEW seqs \in Seq(Seq(S)), NEW n \in Nat \ {0}
    PROVE  \E f : Flattens(seqs, n, f)
<1> DEFINE Good(m) == \E f : f = [i \in 1..m |-> IF i = 1 THEN seqs[i] ELSE f[i - 1] \o seqs[i]]
           Bad == {m \in Nat \ {0} : ~Good(m)}
<1> SUFFICES ASSUME Bad # {} PROVE FALSE
  BY DEF Flattens
<1>1. PICK m \in Bad : \A k \in Bad : m <= k
  <2>1. Bad \in SUBSET Nat
    OBVIOUS
  <2> HIDE DEF Bad
  <2> QED
    BY <2>1, LeastNatural
<1>2. CASE m = 1
  <2> DEFINE f == [i \in 1..1 |-> seqs[i]]
  <2>1. f = [i \in 1..1 |-> IF i = 1 THEN seqs[i] ELSE f[i - 1] \o seqs[i]]
    OBVIOUS
  <2> HIDE DEF f
  <2>2. Good(1)
    BY <2>1
  <2> QED
    BY <1>2, <2>2
<1>3. CASE m # 1
  <2>1. m - 1 \in Nat \ {0} /\ m \in Nat
    BY <1>3
  <2>2. m - 1 \notin Bad
    <3> HIDE DEF Bad
    <3> QED
      BY <1>1, <2>1
  <2>3. PICK g : g = [i \in 1..(m - 1) |-> IF i = 1 THEN seqs[i] ELSE g[i - 1] \o seqs[i]]
    BY <2>1, <2>2
  <2> DEFINE f == [i \in 1..m |-> IF i = m THEN g[m - 1] \o seqs[m] ELSE g[i]]
             h == [i \in 1..m |-> IF i = 1 THEN seqs[i] ELSE f[i - 1] \o seqs[i]]
  <2>4. \A i \in 1..(m - 1) : g[i] = IF i = 1 THEN seqs[i] ELSE g[i - 1] \o seqs[i]
    BY <2>3
  <2>5. \A i \in 1..m : f[i] = h[i]
    <3> SUFFICES ASSUME NEW i \in 1..m PROVE f[i] = h[i]
      OBVIOUS
    <3>1. CASE i = m
      <4>1. i # 1 /\ i - 1 \in 1..m /\ i - 1 # m
        BY <1>3, <2>1, <3>1
      <4>2. f[i - 1] = g[m - 1]
        BY <3>1, <4>1
      <4> QED
        BY <3>1, <4>1, <4>2
    <3>2. CASE i # m
      <4>1. i \in 1..(m - 1)
        BY <2>1, <3>2
      <4>2. i # 1 => i - 1 \in 1..m /\ i - 1 # m
        BY <2>1, <4>1
      <4>3. f[i] = g[i]
        BY <3>2
      <4>4. i # 1 => f[i - 1] = g[i - 1]
        BY <4>2
      <4> QED
        BY <2>4, <4>1, <4>3, <4>4
    <3> QED
      BY <3>1, <3>2
  <2>6. f = h
    BY <2>5
  <2> HIDE DEF f
  <2>7. Good(m)
    BY <2>6
  <2> QED
    BY <2>7
<1> QED
  BY <1>2, <1>3

\* Flattening keeps exactly the elements of the sequences.
LEMMA FlattenFacts ==
    ASSUME NEW S, NEW seqs \in Seq(Seq(S))
    PROVE  /\ FlattenSeq(seqs) \in Seq(S)
           /\ \A x : x \in ToSet(FlattenSeq(seqs)) <=> \E i \in 1..Len(seqs) : x \in ToSet(seqs[i])
<1> DEFINE n == Len(seqs)
<1>1. n \in Nat /\ \A i \in 1..n : seqs[i] \in Seq(S)
  BY LenProperties
<1>2. CASE n = 0
  <2>1. seqs = <<>>
    BY <1>2, EmptySeq
  <2>2. FlattenSeq(seqs) = <<>>
    BY <1>2, <2>1 DEF FlattenSeq
  <2>3. ToSet(<<>>) = {}
    BY DEF ToSet
  <2> QED
    BY <1>2, <2>2, <2>3, EmptySeq
<1>3. CASE n # 0
  <2> DEFINE Def(g) == [i \in 1..n |-> IF i = 1 THEN seqs[i] ELSE g[i - 1] \o seqs[i]]
             f == CHOOSE g : g = Def(g)
  <2>1. \E g : g = Def(g)
    <3>1. n \in Nat \ {0}
      BY <1>1, <1>3
    <3> HIDE DEF n
    <3>2. PICK g : Flattens(seqs, n, g)
      BY <3>1, FlattenExists
    <3> QED
      BY <3>2 DEF Flattens
  <2>2. f = Def(f)
    <3> HIDE DEF Def
    <3> QED
      BY <2>1
  <2>3. FlattenSeq(seqs) = f[n]
    BY <1>3 DEF FlattenSeq
  <2> HIDE DEF f
  <2>4. \A i \in 1..n : f[i] = IF i = 1 THEN seqs[i] ELSE f[i - 1] \o seqs[i]
    BY <2>2
  <2> HIDE DEF Def
  <2> DEFINE Holds(m) == /\ f[m] \in Seq(S)
                         /\ \A x : x \in ToSet(f[m]) <=> \E i \in 1..m : x \in ToSet(seqs[i])
             Bad == {m \in 1..n : ~Holds(m)}
  <2>5. Bad = {}
    <3> SUFFICES ASSUME Bad # {} PROVE FALSE
      OBVIOUS
    <3>1. PICK m \in Bad : \A k \in Bad : m <= k
      <4>1. Bad \in SUBSET Nat
        BY <1>1
      <4> HIDE DEF Bad
      <4> QED
        BY <4>1, LeastNatural
    <3>2. m \in 1..n /\ ~Holds(m)
      OBVIOUS
    <3>3. CASE m = 1
      <4>1. f[1] = seqs[1] /\ seqs[1] \in Seq(S)
        BY <1>1, <2>4, <3>2, <3>3
      <4>2. \A i : i \in 1..1 <=> i = 1
        OBVIOUS
      <4>3. Holds(1)
        BY <4>1, <4>2
      <4> QED
        BY <3>2, <3>3, <4>3
    <3>4. CASE m # 1
      <4>1. m - 1 \in 1..n /\ ~(m <= m - 1)
        BY <1>1, <3>2, <3>4
      <4>2. Holds(m - 1)
        <5>1. m - 1 \notin Bad
          <6> HIDE DEF Bad
          <6> QED
            BY <3>1, <4>1
        <5> QED
          BY <4>1, <5>1
      <4>3. f[m] = f[m - 1] \o seqs[m] /\ f[m - 1] \in Seq(S) /\ seqs[m] \in Seq(S)
        BY <1>1, <2>4, <3>2, <3>4, <4>2
      <4>4. f[m] \in Seq(S) /\ Range(f[m]) = Range(f[m - 1]) \cup Range(seqs[m])
        BY <4>3, ConcatProperties, RangeConcatenation
      <4>5. \A t : ToSet(t) = Range(t)
        BY DEF ToSet, Range
      <4>6. \A i : i \in 1..m <=> i \in 1..(m - 1) \/ i = m
        BY <1>1, <3>2
      <4>7. \A x : x \in ToSet(f[m]) <=> x \in ToSet(f[m - 1]) \/ x \in ToSet(seqs[m])
        BY <4>4, <4>5
      <4>8. \A x : x \in ToSet(f[m - 1]) <=> \E i \in 1..(m - 1) : x \in ToSet(seqs[i])
        BY <4>2
      <4>9. \A x : x \in ToSet(f[m]) <=> \E i \in 1..m : x \in ToSet(seqs[i])
        BY <4>6, <4>7, <4>8
      <4> QED
        BY <3>2, <4>4, <4>9
    <3> QED
      BY <3>3, <3>4
  <2>6. n \in 1..n
    BY <1>1, <1>3
  <2>7. Holds(n)
    BY <2>5, <2>6
  <2> QED
    BY <2>3, <2>7
<1> QED
  BY <1>2, <1>3

\* The pool pairs collected for a pair of profiles are those of its entries.
LEMMA PoolsOfFacts ==
    ASSUME NEW entries \in Seq(Entry), NEW pair
    PROVE  /\ PoolsOf(entries, pair) \in Seq(Pools)
           /\ \A x : x \in ToSet(PoolsOf(entries, pair))
                        <=> \E i \in DOMAIN entries : entries[i].pair = pair /\ x \in ToSet(entries[i].pools)
<1> DEFINE n == Len(entries)
           seqs == [i \in DOMAIN entries |-> IF entries[i].pair = pair THEN entries[i].pools ELSE <<>>]
<1>1. n \in Nat /\ DOMAIN entries = 1..n /\ \A i \in 1..n : entries[i] \in Entry
  BY LenProperties
<1>2. seqs \in [1..n -> Seq(Pools)]
  BY <1>1 DEF Entry
<1>3. seqs \in Seq(Seq(Pools)) /\ Len(seqs) = n
  BY <1>1, <1>2, SeqDef, LenProperties
<1>4. PoolsOf(entries, pair) = FlattenSeq(seqs)
  BY DEF PoolsOf
<1>6. \A i \in 1..n : \A x : x \in ToSet(seqs[i]) <=> entries[i].pair = pair /\ x \in ToSet(entries[i].pools)
  <2>1. ToSet(<<>>) = {}
    BY DEF ToSet
  <2> QED
    BY <1>1, <2>1
<1> HIDE DEF seqs
<1>7. /\ FlattenSeq(seqs) \in Seq(Pools)
      /\ \A x : x \in ToSet(FlattenSeq(seqs)) <=> \E i \in 1..n : x \in ToSet(seqs[i])
  BY <1>3, FlattenFacts
<1> QED
  BY <1>1, <1>4, <1>6, <1>7

\* A list has one record for a pair of profiles, in which a pool pair appears once.
Distinct(list) ==
    /\ IsInjective([i \in DOMAIN list |-> list[i].pair])
    /\ \A i \in DOMAIN list : IsInjective(list[i].pools)

\* What reconcileCephCsiBlockPoolMapping builds of the listed entries, for every
\* list in every order: one record for each pair of profiles, each pool pair once,
\* and it says neither more nor less than the entries.
THEOREM BuildMappingsCorrect ==
    ASSUME NEW entries \in Seq(Entry)
    PROVE  /\ BuildMappings(entries) \in Seq(Entry)
           /\ Distinct(BuildMappings(entries))
           /\ Says(BuildMappings(entries)) = Says(entries)
<1> DEFINE n == Len(entries)
           all == [i \in DOMAIN entries |-> entries[i].pair]
           pairs == SkipSeen(all)
           P == {entries[i].pair : i \in DOMAIN entries}
           pools == [pair \in P |-> SkipSeen(PoolsOf(entries, pair))]
           list == [k \in DOMAIN pairs |-> [pair |-> pairs[k], pools |-> pools[pairs[k]]]]
<1>1. n \in Nat /\ DOMAIN entries = 1..n /\ \A i \in 1..n : entries[i] \in Entry
  BY LenProperties
<1>2. all \in Seq(Pairs) /\ DOMAIN all = 1..n /\ ToSet(all) = P
  <2>1. all \in [1..n -> Pairs]
    BY <1>1 DEF Entry
  <2> QED
    BY <1>1, <2>1, SeqDef DEF ToSet
<1>3. pairs \in Seq(Pairs) /\ IsInjective(pairs) /\ ToSet(pairs) = P
  <2> HIDE DEF all, P
  <2> QED
    BY <1>2, SkipSeenFacts
<1>4. \A p \in P : /\ pools[p] \in Seq(Pools) /\ IsInjective(pools[p])
                   /\ \A x : x \in ToSet(pools[p])
                          <=> \E i \in DOMAIN entries : entries[i].pair = p /\ x \in ToSet(entries[i].pools)
  <2> SUFFICES ASSUME NEW p \in P
               PROVE  /\ pools[p] \in Seq(Pools) /\ IsInjective(pools[p])
                      /\ \A x : x \in ToSet(pools[p])
                          <=> \E i \in DOMAIN entries : entries[i].pair = p /\ x \in ToSet(entries[i].pools)
    OBVIOUS
  <2> DEFINE s == PoolsOf(entries, p)
  <2>1. /\ s \in Seq(Pools)
        /\ \A x : x \in ToSet(s)
                     <=> \E i \in DOMAIN entries : entries[i].pair = p /\ x \in ToSet(entries[i].pools)
    BY PoolsOfFacts
  <2>2. pools[p] = SkipSeen(s)
    OBVIOUS
  <2> HIDE DEF s, pools
  <2>3. SkipSeen(s) \in Seq(Pools) /\ IsInjective(SkipSeen(s)) /\ ToSet(SkipSeen(s)) = ToSet(s)
    BY <2>1, SkipSeenFacts
  <2> QED
    BY <2>1, <2>2, <2>3
<1>5. BuildMappings(entries) = list
  BY DEF BuildMappings
<1> HIDE DEF pairs, pools
<1> HIDE DEF P
<1>6. PICK m \in Nat : DOMAIN pairs = 1..m /\ \A k \in 1..m : pairs[k] \in Pairs
  BY <1>3, LenProperties
<1>7. \A k \in 1..m : pairs[k] \in P /\ pairs[k] \in Pairs
  BY <1>3, <1>6 DEF ToSet
<1>8. \A p \in P : \E k \in 1..m : pairs[k] = p
  BY <1>3, <1>6 DEF ToSet
<1>9. DOMAIN list = 1..m /\ \A k \in 1..m : list[k].pair = pairs[k] /\ list[k].pools = pools[pairs[k]]
                                            /\ list[k] \in Entry
  BY <1>4, <1>6, <1>7 DEF Entry
<1> HIDE DEF list
<1>10. list \in Seq(Entry)
  <2>1. list \in [1..m -> Entry]
    BY <1>6, <1>9 DEF list
  <2> QED
    BY <2>1, SeqDef
<1>11. Distinct(list)
  <2>1. IsInjective([i \in DOMAIN list |-> list[i].pair])
    BY <1>3, <1>6, <1>9 DEF IsInjective
  <2>2. \A k \in DOMAIN list : IsInjective(list[k].pools)
    BY <1>4, <1>7, <1>9
  <2> QED
    BY <2>1, <2>2 DEF Distinct
<1>12. \A e \in ToSet(entries) : \E i \in 1..n : e = entries[i]
  BY <1>1 DEF ToSet
<1>13. \A i \in 1..n : entries[i] \in ToSet(entries) /\ entries[i].pair \in P
  BY <1>1 DEF ToSet, P
<1>14. \A e \in ToSet(list) : \E k \in 1..m : e = list[k]
  BY <1>9 DEF ToSet
<1>15. \A k \in 1..m : list[k] \in ToSet(list)
  BY <1>9 DEF ToSet
<1>16. \A p \in P : \E i \in 1..n : p = entries[i].pair
  BY <1>1 DEF P
<1>17. ASSUME NEW x \in Says(list) PROVE x \in Says(entries)
  <2>1. CASE \E e \in ToSet(list) : x = <<e.pair>>
    <3>1. PICK k \in 1..m : x = <<list[k].pair>>
      BY <1>14, <2>1
    <3>2. PICK i \in 1..n : list[k].pair = entries[i].pair
      BY <1>7, <1>9, <1>16
    <3> QED
      BY <1>13, <3>1, <3>2 DEF Says
  <2>2. CASE \E e \in ToSet(list) : \E p \in ToSet(e.pools) : x = <<e.pair, p>>
    <3>0. PICK k \in 1..m : \E p \in ToSet(list[k].pools) : x = <<list[k].pair, p>>
      BY <1>14, <2>2
    <3>1. PICK p \in ToSet(list[k].pools) : x = <<list[k].pair, p>>
      BY <3>0
    <3>2. pairs[k] \in P /\ p \in ToSet(pools[pairs[k]]) /\ x = <<pairs[k], p>>
      BY <1>7, <1>9, <3>1
    <3>3. PICK i \in DOMAIN entries : entries[i].pair = pairs[k] /\ p \in ToSet(entries[i].pools)
      BY <1>4, <3>2
    <3>4. entries[i] \in ToSet(entries) /\ x = <<entries[i].pair, p>>
      BY <1>1, <1>13, <3>2, <3>3
    <3> QED
      BY <3>3, <3>4 DEF Says
  <2> QED
    BY <2>1, <2>2 DEF Says
<1>18. ASSUME NEW x \in Says(entries) PROVE x \in Says(list)
  <2>1. CASE \E e \in ToSet(entries) : x = <<e.pair>>
    <3>1. PICK i \in 1..n : x = <<entries[i].pair>>
      BY <1>12, <2>1
    <3>2. PICK k \in 1..m : pairs[k] = entries[i].pair
      BY <1>8, <1>13
    <3> QED
      BY <1>9, <1>15, <3>1, <3>2 DEF Says
  <2>2. CASE \E e \in ToSet(entries) : \E p \in ToSet(e.pools) : x = <<e.pair, p>>
    <3>0. PICK i \in 1..n : \E p \in ToSet(entries[i].pools) : x = <<entries[i].pair, p>>
      BY <1>12, <2>2
    <3>1. PICK p \in ToSet(entries[i].pools) : x = <<entries[i].pair, p>>
      BY <3>0
    <3>2. PICK k \in 1..m : pairs[k] = entries[i].pair
      BY <1>8, <1>13
    <3>3. p \in ToSet(list[k].pools)
      BY <1>1, <1>4, <1>7, <1>9, <3>1, <3>2
    <3> QED
      BY <1>9, <1>15, <3>1, <3>2, <3>3 DEF Says
  <2> QED
    BY <2>1, <2>2 DEF Says
<1> QED
  BY <1>5, <1>10, <1>11, <1>17, <1>18

-----------------------------------------------------------------------------
(* The invariant *)

Refs(v, x) == {u \in v.owners : u[1] = x}
OneRef(v) == \A a, b \in v.owners : a[1] = b[1] => a = b
Copy(v) == IF v = NoObj THEN EmptyConfigMap ELSE v

\* What the mutate function makes of a copy: the list is rebuilt, the parts of the
\* other controllers and the references of the other mappings stay.
Mutated(old, new, name) ==
    /\ new \in ConfigMapObj
    /\ new.data \in Seq(Entry) /\ Distinct(new.data)
    /\ new.foreign = old.foreign
    /\ \A x \in (Names \cup {NoObj}) \ {name} : Refs(new, x) = Refs(old, x)
    /\ OneRef(old) => OneRef(new)

\* TypeOK alone is not inductive: an iteration is for a mapping, its mutated copy
\* is made of the copy it read, and a copy that counts as current is the stored
\* version, whoever wrote since.
Loaded ==
    /\ w.pc # "idle" => w.name \in Names
    /\ w.pc = "write" => Mutated(Copy(w.cm), w.new, w.name)
    /\ (w.pc = "write" /\ w.cmCur) => w.cm = Stored(configMap)

IInv == TypeOK /\ Loaded

\* What a step may make of the stored ConfigMap.
StoredStep ==
    LET old == Stored(configMap)
        new == Stored(configMap')
    IN  \/ new = old
        \/ new = NoObj
        \/ w.name \in Names /\ Mutated(Copy(old), new, w.name)
        \/ new \in ConfigMapObj /\ new.owners = Copy(old).owners /\ new.data = Copy(old).data
        \/ /\ old # NoObj /\ new \in ConfigMapObj
           /\ new.owners \subseteq old.owners /\ new.data = old.data /\ new.foreign = old.foreign

LEMMA EmptyType == EmptyConfigMap \in ConfigMapObj
BY DEF EmptyConfigMap, ConfigMapObj

LEMMA CopyType == ASSUME NEW v \in Option(ConfigMapObj) PROVE Copy(v) \in ConfigMapObj
BY EmptyType DEF Copy, Option

LEMMA RequestsType ==
    /\ \A v \in Option(ConfigMapObj) : OwnerNames(v) \in SUBSET Names
    /\ \A old, new \in Option(ConfigMapObj) : ConfigMapRequests(old, new) \in SUBSET Names
<1>1. ASSUME NEW v \in Option(ConfigMapObj) PROVE OwnerNames(v) \in SUBSET Names
  <2>1. CASE v = NoObj
    BY <2>1 DEF OwnerNames
  <2>2. CASE v # NoObj
    <3>1. v.owners \in SUBSET (Names \X (Nat \ {0}))
      BY <2>2 DEF Option, ConfigMapObj
    <3>2. \A u \in v.owners : u[1] \in Names
      BY <3>1
    <3> QED
      BY <2>2, <3>2 DEF OwnerNames
  <2> QED
    BY <2>1, <2>2
<1> QED
  BY <1>1 DEF ConfigMapRequests

LEMMA ReadTypes ==
    ASSUME TypeOK
    PROVE  /\ \A n \in Names : /\ Stored(mapping[n]) \in Option(MappingObj)
                               /\ Cached(mapping[n]) \in Option(MappingObj)
           /\ Stored(configMap) \in Option(ConfigMapObj)
           /\ Cached(configMap) \in Option(ConfigMapObj)
           /\ InSync(configMap) => Cached(configMap) = Stored(configMap)
<1>1. configMap \in Seq(Option(ConfigMapObj)) \ {<<>>}
  BY DEF TypeOK, Versions
<1>2. \A n \in Names : mapping[n] \in Seq(Option(MappingObj)) \ {<<>>}
  BY DEF TypeOK, Versions
<1>3. InSync(configMap) => Cached(configMap) = Stored(configMap)
  BY DEF InSync, Cached, Stored
<1> QED
  BY <1>1, <1>2, <1>3, LogElements

LEMMA PutMappingFacts ==
    ASSUME TypeOK, NEW n \in Names, NEW v \in Option(MappingObj), PutMapping(n, v)
    PROVE  mapping' \in [Names -> Versions(MappingObj)] /\ queue' \in SUBSET Names
<1>1. mapping[n] \in Seq(Option(MappingObj)) \ {<<>>} /\ Lag["mapping"] \in Nat
  BY LagAssumption DEF TypeOK, Versions
<1>2. Put(mapping[n], Lag["mapping"], v) \in Versions(MappingObj)
  BY <1>1, PutLog DEF Versions
<1> QED
  BY <1>2 DEF TypeOK, PutMapping

LEMMA PutConfigMapFacts ==
    ASSUME TypeOK, NEW v \in Option(ConfigMapObj), PutConfigMap(v)
    PROVE  /\ configMap' \in Versions(ConfigMapObj)
           /\ Stored(configMap') = v
           /\ queue' \in SUBSET Names
<1> DEFINE log == Put(configMap, Lag["configMap"], v)
<1>1. configMap \in Seq(Option(ConfigMapObj)) \ {<<>>} /\ Lag["configMap"] \in Nat
  BY LagAssumption DEF TypeOK, Versions
<1>2. log \in Versions(ConfigMapObj) /\ Stored(log) = v /\ Cached(log) \in Option(ConfigMapObj)
  BY <1>1, PutLog DEF Versions
<1>3. ConfigMapRequests(Cached(configMap), Cached(log)) \in SUBSET Names
  BY <1>2, ReadTypes, RequestsType
<1> QED
  BY <1>2, <1>3 DEF TypeOK, PutConfigMap

LEMMA IdleFacts == IdleWorker \in Worker /\ IdleWorker.pc = "idle"
BY DEF IdleWorker, Worker, Option

LEMMA OutdatedFacts ==
    ASSUME w \in Worker, ConfigMapOutdated
    PROVE  w' \in Worker /\ w'.pc = w.pc /\ w'.name = w.name /\ w'.cm = w.cm /\ w'.new = w.new /\ ~w'.cmCur
BY DEF ConfigMapOutdated, Worker

LEMMA OperationType == ASSUME TypeOK, Operation PROVE left' \in [ops: Nat, crashes: Nat, faults: Nat]
BY DEF TypeOK, Operation

\* The mutate function does what Mutated says.
LEMMA MutateFacts ==
    ASSUME w \in Worker, w.name \in Names, NEW cm \in ConfigMapObj
    PROVE  Mutated(cm, MutateConfigMap(cm), w.name)
<1> DEFINE new == MutateConfigMap(cm)
           kept == {o \in cm.owners : o[1] # w.name}
           own == IF w.uid = 0 THEN cm.owners ELSE kept \cup {<<w.name, w.uid>>}
<1>1. w.entries \in Seq(Entry) /\ w.uid \in Nat
  BY DEF Worker
<1>2. BuildMappings(w.entries) \in Seq(Entry) /\ Distinct(BuildMappings(w.entries))
  BY <1>1, BuildMappingsCorrect
<1>3. cm.owners \in SUBSET (Names \X (Nat \ {0})) /\ cm.foreign \in 0..2
  BY DEF ConfigMapObj
<1>4. own \in SUBSET (Names \X (Nat \ {0}))
  BY <1>1, <1>3
<1>5. new = [cm EXCEPT !.owners = own, !.data = BuildMappings(w.entries)]
  BY DEF MutateConfigMap
<1>6. \A x \in (Names \cup {NoObj}) \ {w.name} : {u \in own : u[1] = x} = {u \in cm.owners : u[1] = x}
  OBVIOUS
<1>7. OneRef(cm) => \A a, b \in own : a[1] = b[1] => a = b
  BY DEF OneRef
<1> HIDE DEF own
<1>8. new \in ConfigMapObj /\ new.owners = own /\ new.foreign = cm.foreign
      /\ new.data = BuildMappings(w.entries)
  BY <1>2, <1>4, <1>5 DEF ConfigMapObj
<1> HIDE DEF new
<1>9. Mutated(cm, new, w.name)
  BY <1>2, <1>6, <1>7, <1>8 DEF Mutated, Refs, OneRef
<1> QED
  BY <1>9 DEF new

LEMMA InvInit == Init => IInv
<1> SUFFICES ASSUME Init PROVE IInv
  OBVIOUS
<1>1. <<NoObj>> \in Versions(MappingObj) /\ <<NoObj>> \in Versions(ConfigMapObj)
  BY DEF Versions, Option
<1>2. TypeOK
  BY <1>1, IdleFacts, BoundsAssumption DEF Init, TypeOK
<1> QED
  BY <1>2, IdleFacts DEF Init, IInv, Loaded

\* Steps that neither touch the ConfigMap nor the worker.
LEMMA LoadedKept ==
    ASSUME IInv, w' \in Worker, w'.pc = w.pc, w'.name = w.name, w'.cm = w.cm, w'.new = w.new,
           \/ ~w'.cmCur
           \/ w'.cmCur = w.cmCur /\ Stored(configMap') = Stored(configMap)
    PROVE  Loaded'
BY DEF IInv, Loaded

-----------------------------------------------------------------------------
(* Each action keeps the invariant, and does one of StoredStep *)

LEMMA StepStart ==
    ASSUME IInv, NEW n \in Names, StartReconcile(n)
    PROVE  IInv' /\ StoredStep
<1>1. UNCHANGED <<mapping, configMap, uids, missed, left>> /\ queue' = queue \ {n}
  BY DEF StartReconcile, cluster
<1>2. w' \in Worker /\ w'.pc = "list" /\ w'.name = n
  <2>1. w' = [IdleWorker EXCEPT !.pc = "list", !.name = n] /\ n \in Option(Names)
    BY DEF StartReconcile, Option
  <2> QED
    BY <2>1, IdleFacts DEF Worker
<1>3. TypeOK'
  BY <1>1, <1>2 DEF IInv, TypeOK
<1>4. Loaded'
  BY <1>2 DEF Loaded
<1> QED
  BY <1>1, <1>3, <1>4 DEF IInv, StoredStep

LEMMA StepList == ASSUME IInv, ListMappings PROVE IInv' /\ StoredStep
<1>0. TypeOK /\ w \in Worker /\ w.name \in Names
  BY DEF IInv, TypeOK, Loaded, ListMappings
<1>1. UNCHANGED <<mapping, configMap, uids, queue, missed, left>>
  BY DEF ListMappings, cluster
<1> DEFINE maps(order) == [i \in DOMAIN order |-> Cached(mapping[order[i]]).maps]
           uid == IF w.name \in Listed THEN Cached(mapping[w.name]).uid ELSE 0
<1>2. PICK order \in SetToSeqs(Listed) :
         w' = [w EXCEPT !.pc = "read", !.entries = FlattenSeq(maps(order)), !.uid = uid]
  BY DEF ListMappings
<1>3. \A n \in Listed : n \in Names /\ Cached(mapping[n]) \in MappingObj
  BY <1>0, ReadTypes DEF Listed, Option
<1>4. Cardinality(Listed) \in Nat
  <2>1. Listed \subseteq Names
    BY DEF Listed
  <2> QED
    BY <2>1, NamesAssumption, FS_Subset, FS_CardinalityType
<1>5. PICK c \in Nat : order \in [1..c -> Listed]
  BY <1>4 DEF SetToSeqs
<1>6. maps(order) \in [1..c -> Seq(Entry)]
  BY <1>3, <1>5, SpecsAssumption DEF MappingObj
<1>7. maps(order) \in Seq(Seq(Entry))
  BY <1>6, SeqDef
<1>8. FlattenSeq(maps(order)) \in Seq(Entry)
  <2> HIDE DEF maps
  <2> QED
    BY <1>7, FlattenFacts
<1>9. uid \in Nat
  BY <1>3 DEF MappingObj
<1> HIDE DEF maps, uid
<1>10. w' \in Worker /\ w'.pc = "read" /\ w'.name = w.name
  BY <1>0, <1>2, <1>8, <1>9 DEF Worker
<1>11. TypeOK'
  BY <1>0, <1>1, <1>10 DEF TypeOK
<1>12. Loaded'
  BY <1>0, <1>10 DEF Loaded
<1> QED
  BY <1>1, <1>11, <1>12 DEF IInv, StoredStep

LEMMA StepRead == ASSUME IInv, ReadConfigMap PROVE IInv' /\ StoredStep
<1>0. TypeOK /\ w \in Worker /\ w.name \in Names
  BY DEF IInv, TypeOK, Loaded, ReadConfigMap
<1>1. UNCHANGED <<mapping, configMap, uids, queue, missed, left>>
  BY DEF ReadConfigMap, cluster
<1> DEFINE cm == Cached(configMap)
           new == MutateConfigMap(Copy(cm))
<1>2. PICK b \in BOOLEAN : b = InSync(configMap)
  BY DEF InSync
<1>3. w' = [w EXCEPT !.pc = "write", !.cm = cm, !.cmCur = b, !.new = new]
  BY <1>2 DEF ReadConfigMap, Copy
<1>4. cm \in Option(ConfigMapObj) /\ (b => cm = Stored(configMap))
  BY <1>0, <1>2, ReadTypes
<1>5. Mutated(Copy(cm), new, w.name)
  BY <1>0, <1>4, CopyType, MutateFacts
<1>6. new \in Option(ConfigMapObj)
  BY <1>5 DEF Mutated, Option
<1> HIDE DEF cm, new
<1>7. w' \in Worker /\ w'.pc = "write" /\ w'.name = w.name /\ w'.cm = cm /\ w'.cmCur = b /\ w'.new = new
  BY <1>0, <1>3, <1>4, <1>6 DEF Worker
<1>8. TypeOK'
  BY <1>0, <1>1, <1>7 DEF TypeOK
<1>9. Loaded'
  BY <1>0, <1>1, <1>4, <1>5, <1>7 DEF Loaded
<1> QED
  BY <1>1, <1>8, <1>9 DEF IInv, StoredStep

LEMMA StepWrite == ASSUME IInv, WriteConfigMap PROVE IInv' /\ StoredStep
<1>0. /\ TypeOK /\ w \in Worker /\ w.name \in Names /\ w.pc = "write"
      /\ Mutated(Copy(w.cm), w.new, w.name)
  BY DEF IInv, TypeOK, Loaded, WriteConfigMap
<1>1. UNCHANGED <<mapping, uids>> /\ w' = IdleWorker
  BY DEF WriteConfigMap
<1>2. Loaded'
  BY <1>1, IdleFacts DEF Loaded
<1>3. missed' \in BOOLEAN /\ left' \in [ops: Nat, crashes: Nat, faults: Nat]
  BY <1>0 DEF TypeOK, WriteConfigMap, Accepted, Refused
<1>4. CASE UNCHANGED configMap
  <2>1. queue' \in SUBSET Names
    <3>1. CASE PutConfigMap(w.new)
      <4>1. w.new \in Option(ConfigMapObj)
        BY <1>0 DEF Mutated, Option
      <4> QED
        BY <1>0, <3>1, <4>1, PutConfigMapFacts
    <3>2. CASE UNCHANGED queue \/ queue' = queue \cup {w.name}
      BY <1>0, <3>2 DEF TypeOK
    <3> QED
      BY <3>1, <3>2 DEF WriteConfigMap
  <2>2. TypeOK'
    BY <1>0, <1>1, <1>3, <1>4, <2>1, IdleFacts DEF TypeOK
  <2> QED
    BY <1>2, <1>4, <2>2 DEF IInv, StoredStep
<1>5. CASE ~UNCHANGED configMap
  <2>1. /\ PutConfigMap(w.new)
        /\ IF w.cm = NoObj THEN Stored(configMap) = NoObj ELSE w.cmCur
    BY <1>5 DEF WriteConfigMap, Accepted
  <2>2. w.cm = Stored(configMap)
    BY <1>0, <2>1 DEF IInv, Loaded
  <2>3. w.new \in Option(ConfigMapObj)
    BY <1>0 DEF Mutated, Option
  <2>4. configMap' \in Versions(ConfigMapObj) /\ Stored(configMap') = w.new /\ queue' \in SUBSET Names
    BY <1>0, <2>1, <2>3, PutConfigMapFacts
  <2>5. TypeOK'
    BY <1>0, <1>1, <1>3, <2>4, IdleFacts DEF TypeOK
  <2>6. StoredStep
    BY <1>0, <2>2, <2>4 DEF StoredStep
  <2> QED
    BY <1>2, <2>5, <2>6 DEF IInv
<1> QED
  BY <1>4, <1>5

LEMMA StepWatch == ASSUME IInv, Watch PROVE IInv' /\ StoredStep
<1>0. TypeOK /\ w \in Worker
  BY DEF IInv, TypeOK
<1>1. CASE \E n \in Names : DeliverMapping(n)
  <2>1. PICK n \in Names : DeliverMapping(n)
    BY <1>1
  <2>2. UNCHANGED <<configMap, uids, w, missed, left>>
    BY <2>1 DEF DeliverMapping
  <2>3. Tail(mapping[n]) \in Versions(MappingObj)
    BY <1>0, <2>1, TailLog DEF DeliverMapping, TypeOK, Versions
  <2>4. mapping' \in [Names -> Versions(MappingObj)] /\ queue' \in SUBSET Names
    BY <1>0, <2>1, <2>3 DEF DeliverMapping, TypeOK
  <2>5. TypeOK'
    BY <1>0, <2>2, <2>4 DEF TypeOK
  <2>6. Loaded'
    BY <1>0, <2>2, LoadedKept
  <2> QED
    BY <2>2, <2>5, <2>6 DEF IInv, StoredStep
<1>2. CASE DeliverConfigMap
  <2>1. UNCHANGED <<mapping, uids, w, missed, left>>
    BY <1>2 DEF DeliverConfigMap
  <2>2. configMap \in Seq(Option(ConfigMapObj)) \ {<<>>} /\ ~InSync(configMap)
    BY <1>0, <1>2 DEF TypeOK, Versions, DeliverConfigMap
  <2>3. /\ configMap' \in Versions(ConfigMapObj) /\ Stored(configMap') = Stored(configMap)
        /\ configMap[1] \in Option(ConfigMapObj) /\ configMap[2] \in Option(ConfigMapObj)
    BY <1>2, <2>2, TailLog DEF Versions, DeliverConfigMap
  <2>4. queue' \in SUBSET Names
    BY <1>0, <1>2, <2>3, RequestsType DEF TypeOK, DeliverConfigMap
  <2>5. TypeOK'
    BY <1>0, <2>1, <2>3, <2>4 DEF TypeOK
  <2>6. Loaded'
    BY <1>0, <2>1, <2>3, LoadedKept
  <2> QED
    BY <2>3, <2>5, <2>6 DEF IInv, StoredStep
<1> QED
  BY <1>1, <1>2 DEF Watch

LEMMA StepUsers ==
    ASSUME IInv,
           \/ \E n \in Names, s \in Specs : ApplyMapping(n, s)
           \/ \E n \in Names : DeleteMapping(n) \/ Resync(n)
    PROVE  IInv' /\ StoredStep
<1>0. TypeOK /\ w \in Worker /\ Operation
  BY DEF IInv, TypeOK, ApplyMapping, DeleteMapping, Resync
<1>1. UNCHANGED <<configMap, w, missed>>
  BY DEF ApplyMapping, DeleteMapping, Resync, cluster
<1>2. /\ mapping' \in [Names -> Versions(MappingObj)] /\ queue' \in SUBSET Names
      /\ uids' \in [Names -> Nat]
  <2>1. CASE \E n \in Names, s \in Specs : ApplyMapping(n, s)
    <3>1. PICK n \in Names, s \in Specs : ApplyMapping(n, s)
      BY <2>1
    <3> DEFINE v == Stored(mapping[n])
    <3>2. CASE v = NoObj
      <4>1. /\ uids' = [uids EXCEPT ![n] = @ + 1]
            /\ PutMapping(n, [uid |-> uids[n] + 1, maps |-> s])
        BY <3>1, <3>2 DEF ApplyMapping
      <4>2. [uid |-> uids[n] + 1, maps |-> s] \in Option(MappingObj)
        BY <1>0 DEF TypeOK, MappingObj, Option
      <4>3. mapping' \in [Names -> Versions(MappingObj)] /\ queue' \in SUBSET Names
        BY <1>0, <4>1, <4>2, PutMappingFacts
      <4>4. uids' \in [Names -> Nat]
        BY <1>0, <4>1 DEF TypeOK
      <4> QED
        BY <4>3, <4>4
    <3>3. CASE v # NoObj
      <4>1. UNCHANGED uids /\ PutMapping(n, [v EXCEPT !.maps = s])
        BY <3>1, <3>3 DEF ApplyMapping
      <4>2. v \in MappingObj
        BY <1>0, <3>3, ReadTypes DEF Option
      <4>3. [v EXCEPT !.maps = s] \in Option(MappingObj)
        BY <4>2 DEF MappingObj, Option
      <4> QED
        BY <1>0, <4>1, <4>3, PutMappingFacts DEF TypeOK
    <3> QED
      BY <3>2, <3>3
  <2>2. CASE \E n \in Names : DeleteMapping(n)
    <3>1. NoObj \in Option(MappingObj)
      BY DEF Option
    <3> QED
      BY <1>0, <2>2, <3>1, PutMappingFacts DEF DeleteMapping, TypeOK
  <2>3. CASE \E n \in Names : Resync(n)
    BY <1>0, <2>3 DEF Resync, TypeOK, cluster
  <2> QED
    BY <2>1, <2>2, <2>3
<1>3. TypeOK'
  BY <1>0, <1>1, <1>2, OperationType DEF TypeOK
<1>4. Loaded'
  BY <1>0, <1>1, LoadedKept
<1> QED
  BY <1>1, <1>3, <1>4 DEF IInv, StoredStep

\* The others write the ConfigMap: the worker's copy is outdated.
LEMMA StepOthers ==
    ASSUME IInv, ForeignWrite \/ DeleteConfigMap \/ CollectConfigMap
    PROVE  IInv' /\ StoredStep
<1>0. TypeOK /\ w \in Worker
  BY DEF IInv, TypeOK
<1> DEFINE v == Stored(configMap)
<1>1. UNCHANGED <<mapping, uids, missed>> /\ ConfigMapOutdated
  BY DEF ForeignWrite, DeleteConfigMap, CollectConfigMap
<1>2. left' \in [ops: Nat, crashes: Nat, faults: Nat]
  BY <1>0, OperationType DEF ForeignWrite, DeleteConfigMap, CollectConfigMap, TypeOK
<1>3. v \in Option(ConfigMapObj) /\ Copy(v) \in ConfigMapObj
  BY <1>0, ReadTypes, CopyType
<1>4. PICK new \in Option(ConfigMapObj) :
         /\ PutConfigMap(new)
         /\ \/ new = NoObj
            \/ new \in ConfigMapObj /\ new.owners = Copy(v).owners /\ new.data = Copy(v).data
            \/ /\ v # NoObj /\ new \in ConfigMapObj
               /\ new.owners \subseteq v.owners /\ new.data = v.data /\ new.foreign = v.foreign
  <2>1. CASE ForeignWrite
    <3> DEFINE new == [Copy(v) EXCEPT !.foreign = IF @ = 1 THEN 2 ELSE 1]
    <3>1. PutConfigMap(new)
      BY <2>1 DEF ForeignWrite, Copy
    <3>2. new \in ConfigMapObj /\ new.owners = Copy(v).owners /\ new.data = Copy(v).data
      BY <1>3 DEF ConfigMapObj
    <3> HIDE DEF new
    <3> QED
      BY <3>1, <3>2 DEF Option
  <2>2. CASE DeleteConfigMap
    BY <2>2 DEF DeleteConfigMap, Option
  <2>3. CASE CollectConfigMap
    <3> DEFINE new == [v EXCEPT !.owners = @ \ Dangling(@)]
    <3>1. v # NoObj /\ v \in ConfigMapObj /\ (PutConfigMap(NoObj) \/ PutConfigMap(new))
      BY <1>3, <2>3 DEF CollectConfigMap, Option
    <3>2. /\ new \in ConfigMapObj
          /\ new.owners \subseteq v.owners /\ new.data = v.data /\ new.foreign = v.foreign
      BY <3>1 DEF ConfigMapObj
    <3> HIDE DEF new, v
    <3> QED
      BY <3>1, <3>2 DEF Option
  <2> QED
    BY <2>1, <2>2, <2>3
<1>5. configMap' \in Versions(ConfigMapObj) /\ Stored(configMap') = new /\ queue' \in SUBSET Names
  BY <1>0, <1>4, PutConfigMapFacts
<1>6. TypeOK'
  BY <1>0, <1>1, <1>2, <1>5, OutdatedFacts DEF TypeOK
<1>7. Loaded'
  BY <1>0, <1>1, OutdatedFacts, LoadedKept
<1>8. StoredStep
  BY <1>4, <1>5 DEF StoredStep
<1> QED
  BY <1>6, <1>7, <1>8 DEF IInv

LEMMA StepRestart == ASSUME IInv, Restart PROVE IInv' /\ StoredStep
<1>0. TypeOK
  BY DEF IInv
<1>1. configMap \in Seq(Option(ConfigMapObj)) \ {<<>>}
  BY <1>0 DEF TypeOK, Versions
<1>2. configMap' \in Versions(ConfigMapObj) /\ Stored(configMap') = Stored(configMap)
  BY <1>1, LogElements DEF Restart, Versions
<1>3. \A n \in Names : Relist(mapping[n]) \in Versions(MappingObj)
  BY <1>0, LogElements DEF TypeOK, Versions
<1>4. mapping' \in [Names -> Versions(MappingObj)]
  BY <1>3 DEF Restart
<1>5. queue' \in SUBSET Names
  <2>1. OwnerNames(Stored(configMap)) \in SUBSET Names
    BY <1>0, ReadTypes, RequestsType
  <2> QED
    BY <2>1 DEF Restart
<1>6. TypeOK'
  <2>1. left' \in [ops: Nat, crashes: Nat, faults: Nat]
    BY <1>0 DEF TypeOK, Restart
  <2>2. uids' = uids /\ w' \in Worker /\ missed' \in BOOLEAN
    BY IdleFacts DEF Restart
  <2> QED
    BY <1>0, <1>2, <1>4, <1>5, <2>1, <2>2 DEF TypeOK
<1>7. Loaded'
  BY IdleFacts DEF Restart, Loaded
<1> QED
  BY <1>2, <1>6, <1>7 DEF IInv, StoredStep

LEMMA InvNext == IInv /\ [Next]_vars => IInv' /\ StoredStep
<1> SUFFICES ASSUME IInv, [Next]_vars PROVE IInv' /\ StoredStep
  OBVIOUS
<1>1. CASE \E n \in Names : StartReconcile(n)
  BY <1>1, StepStart
<1>2. CASE ReconcileStep
  BY <1>2, StepList, StepRead, StepWrite DEF ReconcileStep
<1>3. CASE Watch
  BY <1>3, StepWatch
<1>4. CASE Environment
  BY <1>4, StepUsers, StepOthers, StepRestart DEF Environment
<1>5. CASE UNCHANGED vars
  <2>1. UNCHANGED <<mapping, configMap, uids, queue, w, missed, left>>
    BY <1>5 DEF vars
  <2> QED
    BY <2>1 DEF IInv, TypeOK, Loaded, StoredStep
<1> QED
  BY <1>1, <1>2, <1>3, <1>4, <1>5 DEF Next

\* Every variable of the controller keeps its type, whatever is listed, written
\* and deleted in whatever order.
THEOREM TypeCorrect == Spec => []TypeOK
<1>1. IInv => TypeOK
  BY DEF IInv
<1> QED
  BY <1>1, InvInit, InvNext, PTL DEF Spec

-----------------------------------------------------------------------------
(* No duplicates *)

\* The list without duplicates, and of each name one reference at most: a copy
\* that is mutated keeps the references it finds.
StoredInv == NoDuplicates /\ OneRef(Copy(Stored(configMap)))

DataOf(v) == IF v = NoObj \/ v.data = NoObj THEN <<>> ELSE v.data

LEMMA EmptyDistinct == Distinct(<<>>)
BY DEF Distinct, IsInjective

LEMMA NoDuplicatesDistinct == NoDuplicates <=> Distinct(DataOf(Stored(configMap)))
BY DEF NoDuplicates, Distinct, StoredData, DataOf

\* The data of the copy that is mutated is the stored one.
LEMMA DataOfCopy == \A v : DataOf(Copy(v)) = DataOf(v) /\ (Copy(v).data = NoObj \/ Copy(v).data = DataOf(v))
BY DEF DataOf, Copy, EmptyConfigMap

LEMMA StoredInvNext == IInv /\ StoredInv /\ [Next]_vars => StoredInv'
<1> SUFFICES ASSUME IInv, StoredInv, [Next]_vars PROVE StoredInv'
  OBVIOUS
<1> DEFINE old == Stored(configMap)
           new == Stored(configMap')
<1>1. StoredStep /\ TypeOK /\ TypeOK'
  BY InvNext DEF IInv
<1>2. Distinct(DataOf(old)) /\ OneRef(Copy(old))
  BY NoDuplicatesDistinct DEF StoredInv
<1>3. Distinct(DataOf(new)) /\ OneRef(Copy(new))
  <2>1. CASE new = old
    BY <1>2, <2>1
  <2>2. CASE new = NoObj
    <3>1. DataOf(new) = <<>> /\ Copy(new).owners = {}
      BY <2>2 DEF DataOf, Copy, EmptyConfigMap
    <3> QED
      BY <3>1, EmptyDistinct DEF OneRef
  <2> SUFFICES ASSUME new # NoObj PROVE Distinct(DataOf(new)) /\ OneRef(Copy(new))
    BY <2>2
  <2>3. Copy(new) = new
    BY DEF Copy
  <2>4. CASE w.name \in Names /\ Mutated(Copy(old), new, w.name)
    <3>1. Distinct(new.data) /\ OneRef(new)
      BY <1>2, <2>4 DEF Mutated
    <3>2. DataOf(new) = <<>> \/ DataOf(new) = new.data
      BY DEF DataOf
    <3> QED
      BY <2>3, <3>1, <3>2, EmptyDistinct
  <2>5. CASE new.owners \subseteq Copy(old).owners /\ new.data = Copy(old).data
    <3>1. OneRef(new)
      BY <1>2, <2>5 DEF OneRef
    <3>2. DataOf(new) = <<>> \/ DataOf(new) = DataOf(old)
      BY <2>5, DataOfCopy DEF DataOf
    <3> QED
      BY <1>2, <2>3, <3>1, <3>2, EmptyDistinct
  <2> QED
    BY <1>1, <2>1, <2>4, <2>5 DEF StoredStep, Copy
<1>4. NoDuplicates'
  BY <1>3 DEF NoDuplicates, Distinct, StoredData, DataOf
<1> QED
  BY <1>3, <1>4 DEF StoredInv

LEMMA StoredInvInit == Init => StoredInv
<1> SUFFICES ASSUME Init PROVE StoredInv
  OBVIOUS
<1>1. Stored(configMap) = NoObj
  BY DEF Init, Stored
<1>2. DataOf(Stored(configMap)) = <<>> /\ Copy(Stored(configMap)).owners = {}
  BY <1>1 DEF DataOf, Copy, EmptyConfigMap
<1> QED
  BY <1>2, EmptyDistinct, NoDuplicatesDistinct DEF StoredInv, OneRef

LEMMA Invariant == Spec => [](IInv /\ StoredInv)
<1>1. IInv /\ [Next]_vars => IInv'
  BY InvNext
<1> QED
  BY <1>1, InvInit, StoredInvInit, StoredInvNext, PTL DEF Spec

\* Whatever overlapping mappings are listed in whatever order, the stored list has
\* one record for a pair of profiles and each pool pair once
\* (reconcileCephCsiBlockPoolMapping).
THEOREM NeverDuplicates == Spec => []NoDuplicates
<1>1. StoredInv => NoDuplicates
  BY DEF StoredInv
<1> QED
  BY <1>1, Invariant, PTL

-----------------------------------------------------------------------------
(* The shared ConfigMap *)

SharedOwners == Names \cup {NoObj}
SharedPartOf == [x \in Names \cup {NoObj} |-> IF x = NoObj THEN "others" ELSE "mappings"]
View(v) == [part |-> [mappings |-> DataOf(v), others |-> v.foreign],
            refs |-> [x \in Names \cup {NoObj} |-> {u \in v.owners : u[1] = x}]]

LEMMA ViewFacts ==
    ASSUME NEW v \in ConfigMapObj
    PROVE  /\ View(v) # NoObj
           /\ View(v).part.mappings = DataOf(v) /\ View(v).part.others = v.foreign
           /\ \A x \in SharedOwners : View(v).refs[x] = Refs(v, x)
           /\ Refs(v, NoObj) = {}
<1> DEFINE part == [mappings |-> DataOf(v), others |-> v.foreign]
           refs == [x \in Names \cup {NoObj} |-> {u \in v.owners : u[1] = x}]
<1>1. v.owners \in SUBSET (Names \X (Nat \ {0})) /\ DataOf(v) \in Seq(Entry) /\ v.foreign \in 0..2
  BY DEF ConfigMapObj, DataOf
<1>2. part \in [mappings: Seq(Entry), others: 0..2]
  BY <1>1
<1>3. refs \in [Names \cup {NoObj} -> SUBSET (Names \X (Nat \ {0}))]
  BY <1>1
<1>4. Refs(v, NoObj) = {}
  <2>1. \A u \in v.owners : u[1] \in Names
    BY <1>1
  <2> QED
    BY <2>1, NoObjAssumption DEF Refs
<1>5. View(v) = [part |-> part, refs |-> refs]
  BY DEF View
<1>6. /\ part.mappings = DataOf(v) /\ part.others = v.foreign
      /\ \A x \in SharedOwners : refs[x] = Refs(v, x)
  BY DEF SharedOwners, Refs
<1> HIDE DEF part, refs
<1>7. [part |-> part, refs |-> refs] \in SharedObj
  BY <1>2, <1>3 DEF SharedObj
<1> QED
  BY <1>4, <1>5, <1>6, <1>7, SharedAssumption

\* What each change of the stored object is in the shared ConfigMap.
LEMMA SharedNext == IInv /\ StoredInv /\ [Next]_vars => Shared!Step
<1> SUFFICES ASSUME IInv, StoredInv, [Next]_vars PROVE Shared!Step
  OBVIOUS
<1> DEFINE old == Stored(configMap)
           new == Stored(configMap')
           cm == SharedConfigMap
           cmNew == SharedConfigMap'
           NoPart == [mappings |-> <<>>, others |-> 0]
           Cur == IF cm = NoObj THEN [part |-> NoPart, refs |-> [x \in DOMAIN SharedPartOf |-> {}]] ELSE cm
<1>1. /\ StoredStep /\ old \in Option(ConfigMapObj) /\ Copy(old) \in ConfigMapObj
      /\ OneRef(Copy(old))
  BY InvNext, ReadTypes, CopyType DEF IInv, StoredInv
<1>2. CASE new = old
  <2>1. cmNew = cm
    BY <1>2 DEF SharedConfigMap, StoredData
  <2> QED
    BY <2>1 DEF Shared!Step
<1>3. CASE new = NoObj
  <2>1. cmNew = NoObj
    BY <1>3 DEF SharedConfigMap
  <2> QED
    BY <2>1 DEF Shared!Step, Shared!Next, Shared!Delete
<1>4. CASE new # old /\ new # NoObj
  <2>1. new \in ConfigMapObj
    BY <1>1, <1>4 DEF StoredStep, Mutated
  <2>2. cmNew = View(new)
    BY <1>4 DEF SharedConfigMap, View, StoredData, DataOf
  <2>3. cm = IF old = NoObj THEN NoObj ELSE View(old)
    BY DEF SharedConfigMap, View, StoredData, DataOf
  <2>4. old # NoObj => cm # NoObj /\ Copy(old) = old
    BY <1>1, <2>3, ViewFacts DEF Copy
  <2>5. DOMAIN SharedPartOf = SharedOwners /\ DOMAIN NoPart = {"mappings", "others"}
    BY DEF SharedPartOf, SharedOwners
  <2>6. /\ Cur.part.mappings = DataOf(Copy(old)) /\ Cur.part.others = Copy(old).foreign
        /\ \A x \in SharedOwners : Cur.refs[x] = Refs(Copy(old), x)
    <3>1. CASE old = NoObj
      BY <2>3, <2>5, <3>1 DEF Copy, EmptyConfigMap, DataOf, Refs
    <3>2. CASE old # NoObj
      BY <1>1, <2>3, <2>4, <3>2, ViewFacts
    <3> QED
      BY <3>1, <3>2
  <2>7. /\ cmNew # NoObj
        /\ cmNew.part.mappings = DataOf(new) /\ cmNew.part.others = new.foreign
        /\ \A x \in SharedOwners : cmNew.refs[x] = Refs(new, x)
        /\ Refs(new, NoObj) = {}
    BY <2>1, <2>2, ViewFacts
  <2>8. NoObj \in SharedOwners /\ SharedPartOf[NoObj] = "others"
        /\ \A n \in Names : n \in SharedOwners /\ SharedPartOf[n] = "mappings"
    BY NoObjAssumption DEF SharedOwners, SharedPartOf
  <2> HIDE DEF cm, cmNew, old, new
  <2>9. ASSUME NEW o \in SharedOwners, o \in {w.name, NoObj},
               \A x \in {"mappings", "others"} \ {SharedPartOf[o]} : cmNew.part[x] = Cur.part[x],
               \A x \in SharedOwners \ {o} : cmNew.refs[x] = Cur.refs[x],
               \A a, b \in cmNew.refs[o] : a = b
        PROVE  Shared!Step
    <3>1. Shared!Write(o)
      BY <2>5, <2>7, <2>9 DEF Shared!Write, Shared!Current, Shared!New, Shared!Owners, Shared!Parts,
                              cm, cmNew, SharedPartOf
    <3> QED
      BY <2>5, <3>1 DEF Shared!Step, Shared!Next, Shared!Owners, SharedPartOf
  <2>10. CASE w.name \in Names /\ Mutated(Copy(old), new, w.name)
    <3>1. \A x \in {"mappings", "others"} \ {SharedPartOf[w.name]} : cmNew.part[x] = Cur.part[x]
      BY <2>6, <2>7, <2>8, <2>10 DEF Mutated
    <3>2. \A x \in SharedOwners \ {w.name} : cmNew.refs[x] = Cur.refs[x]
      BY <2>6, <2>7, <2>10 DEF Mutated, SharedOwners
    <3>3. \A a, b \in cmNew.refs[w.name] : a = b
      BY <1>1, <2>7, <2>8, <2>10 DEF Mutated, OneRef, Refs
    <3> QED
      BY <2>8, <2>9, <2>10, <3>1, <3>2, <3>3
  <2>11. CASE new.owners = Copy(old).owners /\ new.data = Copy(old).data
    <3>1. DataOf(new) = DataOf(Copy(old))
      BY <1>4, <2>11 DEF DataOf, Copy, EmptyConfigMap, old, new
    <3>2. \A x \in {"mappings", "others"} \ {SharedPartOf[NoObj]} : cmNew.part[x] = Cur.part[x]
      BY <2>6, <2>7, <2>8, <3>1
    <3>3. \A x \in SharedOwners \ {NoObj} : cmNew.refs[x] = Cur.refs[x]
      BY <2>6, <2>7, <2>11 DEF Refs
    <3>4. \A a, b \in cmNew.refs[NoObj] : a = b
      BY <2>7, <2>8
    <3> QED
      BY <2>8, <2>9, <3>2, <3>3, <3>4
  <2>12. CASE /\ old # NoObj /\ new.owners \subseteq old.owners
              /\ new.data = old.data /\ new.foreign = old.foreign
    <3>1. cm # NoObj /\ cm = View(old)
      BY <2>3, <2>4, <2>12
    <3>2. cmNew.part = cm.part
      BY <1>4, <2>2, <2>12, <3>1 DEF View, DataOf
    <3>3. \A x \in SharedOwners : cmNew.refs[x] \subseteq cm.refs[x]
      BY <2>2, <2>12, <3>1 DEF View, SharedOwners
    <3>4. Shared!Collect
      BY <2>5, <2>7, <3>1, <3>2, <3>3 DEF Shared!Collect, Shared!Owners, cm, cmNew, SharedPartOf
    <3> QED
      BY <3>4 DEF Shared!Step, Shared!Next
  <2> QED
    BY <1>1, <1>4, <2>10, <2>11, <2>12 DEF StoredStep, old, new
<1> QED
  BY <1>2, <1>3, <1>4

\* The controller implements the shared ConfigMap: it changes the list and the
\* reference of the mapping at hand only, on top of what was written since it read.
THEOREM SharesCsiConfigMap == Spec => SharesConfigMap
<1>1. Init => Shared!Init
  BY DEF Init, Shared!Init, SharedConfigMap, Stored
<1>2. IInv /\ StoredInv /\ [Next]_vars => [Shared!Next]_SharedConfigMap
  BY SharedNext DEF Shared!Step
<1> QED
  BY <1>1, <1>2, Invariant, PTL DEF Spec, SharesConfigMap, Shared!Spec
=============================================================================
