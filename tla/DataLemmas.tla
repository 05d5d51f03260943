----------------------------- MODULE DataLemmas -----------------------------
(***************************************************************************)
(* What sums over functions, concatenations, least numbers and ranks are,  *)
(* for data of any size.  Each is proved from a least counterexample.      *)
(***************************************************************************)
EXTENDS Integers, FiniteSets, FiniteSetsExt, Sequences, SequencesExt,
        FiniteSetTheorems, SequenceTheorems, WellFoundedInduction, TLAPS

LEMMA LeastNumber ==
  ASSUME NEW T, T \subseteq Nat, T # {}
  PROVE  Min(T) \in T /\ \A m \in T : Min(T) <= m
  <1>1. PICK n \in T : \A m \in T : ~(<<m, n>> \in OpToRel(<, Nat))
    BY NatLessThanWellFounded, WFMin
  <1>2. ASSUME NEW m \in T PROVE n <= m
    <2>1. ~(m < n)
      BY <1>1 DEF OpToRel
    <2>2. QED
      BY <2>1
  <1>3. QED
    BY <1>2 DEF Min

Concatenates(f, ss, n) == f = [i \in 1..n |-> IF i = 1 THEN ss[i] ELSE f[i - 1] \o ss[i]]

LEMMA FlattenExists ==
  ASSUME NEW ss, NEW n \in Nat
  PROVE  \E f : Concatenates(f, ss, n)
  <1> DEFINE Bad == {m \in Nat : ~\E f : Concatenates(f, ss, m)}
  <1> SUFFICES ASSUME Bad # {} PROVE FALSE
    OBVIOUS
  <1>1. Min(Bad) \in Bad /\ \A m \in Bad : Min(Bad) <= m
    <2>1. Bad \subseteq Nat
      OBVIOUS
    <2> HIDE DEF Bad
    <2>2. QED
      BY <2>1, LeastNumber
  <1> DEFINE m == Min(Bad)
  <1>2. CASE m = 0
    <2>1. Concatenates([i \in 1..0 |-> <<>>], ss, 0)
      BY DEF Concatenates
    <2>2. QED
      BY <1>1, <1>2, <2>1
  <1>3. CASE m # 0
    <2>1. m \in Nat /\ m - 1 \in Nat /\ m - 1 \notin Bad
      BY <1>1, <1>3
    <2>2. PICK f : Concatenates(f, ss, m - 1)
      BY <2>1
    <2> HIDE DEF m
    <2> DEFINE g == [i \in 1..m |-> IF i = m THEN (IF i = 1 THEN ss[i] ELSE f[i - 1] \o ss[i]) ELSE f[i]]
    <2>3. ASSUME NEW i \in 1..m PROVE g[i] = IF i = 1 THEN ss[i] ELSE g[i - 1] \o ss[i]
      <3>1. CASE i = m
        BY <3>1, <2>1
      <3>2. CASE i # m
        <4>1. i \in 1..(m - 1)
          BY <3>2, <2>1
        <4>2. f[i] = IF i = 1 THEN ss[i] ELSE f[i - 1] \o ss[i]
          BY <4>1, <2>2 DEF Concatenates
        <4>3. g[i] = f[i] /\ (i # 1 => i - 1 \in 1..m /\ i - 1 # m)
          BY <3>2, <4>1, <2>1
        <4>4. i # 1 => g[i - 1] = f[i - 1]
          BY <4>3
        <4> HIDE DEF g
        <4>5. QED
          BY <4>2, <4>3, <4>4
      <3>3. QED
        BY <3>1, <3>2
    <2>4. Concatenates(g, ss, m)
      BY <2>3 DEF Concatenates
    <2>5. QED
      BY <2>4, <1>1 DEF m
  <1>4. QED
    BY <1>2, <1>3

\* What the flattened sequence is made of.
LEMMA FlattenFacts ==
  ASSUME NEW S, NEW ss \in Seq(Seq(S))
  PROVE  /\ FlattenSeq(ss) \in Seq(S)
         /\ Range(FlattenSeq(ss)) = UNION {Range(ss[i]) : i \in DOMAIN ss}
  <1>1. CASE Len(ss) = 0
    <2>1. ss = <<>> /\ FlattenSeq(ss) = <<>>
      BY <1>1 DEF FlattenSeq
    <2>2. DOMAIN ss = {} /\ <<>> \in Seq(S) /\ Range(<<>>) = {}
      BY <2>1 DEF Range
    <2>3. UNION {Range(ss[i]) : i \in DOMAIN ss} = {}
      BY <2>2
    <2>4. QED
      BY <2>1, <2>2, <2>3
  <1>2. CASE Len(ss) # 0
    <2> DEFINE n == Len(ss)
               f == CHOOSE g : Concatenates(g, ss, n)
    <2>1. n \in Nat /\ n >= 1 /\ DOMAIN ss = 1..n /\ \A i \in 1..n : ss[i] \in Seq(S)
      BY <1>2
    <2>2. Concatenates(f, ss, n)
      BY <2>1, FlattenExists
    <2>3. FlattenSeq(ss) = f[n]
      BY <1>2 DEF FlattenSeq, Concatenates
    <2> HIDE DEF f
    <2> DEFINE Good(i) == f[i] \in Seq(S) /\ Range(f[i]) = UNION {Range(ss[j]) : j \in 1..i}
               Bad == {i \in 1..n : ~Good(i)}
    <2>4. ASSUME Bad # {} PROVE FALSE
      <3> DEFINE m == Min(Bad)
      <3>1. m \in Bad /\ \A i \in Bad : m <= i
        <4>1. Bad \subseteq Nat
          BY <2>1
        <4> HIDE DEF Bad
        <4>2. QED
          BY <4>1, <2>4, LeastNumber
      <3> HIDE DEF m
      <3>2. CASE m = 1
        <4>1. f[1] = ss[1]
          BY <2>1, <2>2 DEF Concatenates
        <4>2. {Range(ss[j]) : j \in 1..1} = {Range(ss[1])}
          OBVIOUS
        <4>3. Good(1)
          BY <4>1, <4>2, <2>1
        <4>4. QED
          BY <4>3, <3>1, <3>2
      <3>3. CASE m # 1
        <4>1. m \in 1..n /\ m - 1 \in 1..n /\ m - 1 \notin Bad
          <5>1. m \in 1..n
            BY <3>1
          <5>2. m \in Nat /\ m - 1 \in 1..n /\ ~(m <= m - 1)
            BY <5>1, <3>3, <2>1
          <5> HIDE DEF Bad
          <5>3. QED
            BY <5>1, <5>2, <3>1
        <4>2. f[m] = f[m - 1] \o ss[m]
          BY <2>2, <3>3, <4>1 DEF Concatenates
        <4>3. Good(m - 1)
          BY <4>1
        <4>4. f[m] \in Seq(S) /\ Range(f[m]) = Range(f[m - 1]) \cup Range(ss[m])
          <5>1. ss[m] \in Seq(S) /\ f[m - 1] \in Seq(S)
            BY <4>1, <4>3, <2>1
          <5>2. QED
            BY <5>1, <4>2, RangeConcatenation
        <4>5. 1..m = 1..(m - 1) \cup {m}
          BY <4>1
        <4>6. UNION {Range(ss[j]) : j \in 1..m} = (UNION {Range(ss[j]) : j \in 1..(m - 1)}) \cup Range(ss[m])
          BY <4>5
        <4>7. Good(m)
          BY <4>3, <4>4, <4>6
        <4>8. QED
          BY <4>7, <3>1
      <3>4. QED
        BY <3>2, <3>3
    <2>5. n \in 1..n
      BY <2>1
    <2>6. Good(n)
      BY <2>4, <2>5
    <2>7. QED
      BY <2>1, <2>3, <2>6
  <1>3. QED
    BY <1>1, <1>2

-----------------------------------------------------------------------------
(* Sums.                                                                    *)

\* g gives every subset of S its sum, whichever element is taken out first.
Additive(g, f, S) ==
  /\ g \in [SUBSET S -> Int]
  /\ g[{}] = 0
  /\ \A K \in SUBSET S : \A x \in K : g[K] = f[x] + g[K \ {x}]

\* Of the finite sets with a property, some one has no element too many.
LEMMA SmallestSet ==
  ASSUME NEW S, IsFiniteSet(S), NEW Bad, Bad \subseteq SUBSET S, Bad # {}
  PROVE  \E K \in Bad : IsFiniteSet(K) /\ \A x \in K : K \ {x} \notin Bad
<1> DEFINE T == {Cardinality(K) : K \in Bad}
<1>1. \A K \in Bad : IsFiniteSet(K) /\ Cardinality(K) \in Nat
  BY FS_Subset, FS_CardinalityType
<1>2. T \subseteq Nat /\ T # {}
  BY <1>1
<1>3. PICK n \in T : \A m \in T : ~(<<m, n>> \in OpToRel(<, Nat))
  <2> HIDE DEF T
  <2> QED
    BY <1>2, NatLessThanWellFounded, WFMin
<1>4. PICK K \in Bad : n = Cardinality(K)
  OBVIOUS
<1>5. ASSUME NEW x \in K, K \ {x} \in Bad PROVE FALSE
  <2>1. Cardinality(K \ {x}) = Cardinality(K) - 1
    BY <1>1, FS_RemoveElement
  <2>2. Cardinality(K \ {x}) \in T /\ Cardinality(K \ {x}) \in Nat /\ Cardinality(K) \in Nat
    BY <1>1, <1>5
  <2>3. <<Cardinality(K \ {x}), n>> \in OpToRel(<, Nat)
    BY <2>1, <2>2, <1>4 DEF OpToRel
  <2>4. QED
    BY <2>2, <2>3, <1>3
<1>6. QED
  BY <1>1, <1>4, <1>5

\* Every finite set has its sums.
LEMMA SumsExist ==
  ASSUME NEW S, IsFiniteSet(S), NEW f \in [S -> Int]
  PROVE  \E g : Additive(g, f, S)
<1> DEFINE Bad == {K \in SUBSET S : ~\E g : Additive(g, f, K)}
<1> SUFFICES ASSUME Bad # {} PROVE FALSE
  OBVIOUS
<1>1. PICK K \in Bad : IsFiniteSet(K) /\ \A x \in K : K \ {x} \notin Bad
  <2> HIDE DEF Bad
  <2>1. Bad \subseteq SUBSET S
    BY DEF Bad
  <2> QED
    BY <2>1, SmallestSet
<1>2. CASE K = {}
  <2>1. Additive([L \in SUBSET {} |-> 0], f, {})
    BY DEF Additive
  <2>2. QED
    BY <1>2, <2>1
<1>3. CASE K # {}
  <2>1. PICK a \in K : TRUE
    BY <1>3
  <2>2. PICK g : Additive(g, f, K \ {a})
    BY <1>1, <2>1
  <2> DEFINE h == [L \in SUBSET K |-> IF a \in L THEN f[a] + g[L \ {a}] ELSE g[L]]
  <2>3. \A L \in SUBSET K : L \ {a} \in SUBSET (K \ {a}) /\ (a \notin L => L \in SUBSET (K \ {a}))
    OBVIOUS
  <2>4. f[a] \in Int /\ \A k \in K : f[k] \in Int
    OBVIOUS
  <2>5. \A L \in SUBSET (K \ {a}) : g[L] \in Int
    BY <2>2 DEF Additive
  <2>6. h \in [SUBSET K -> Int]
    BY <2>3, <2>4, <2>5
  <2>7. h[{}] = 0
    BY <2>2 DEF Additive
  <2>8. ASSUME NEW L \in SUBSET K, NEW x \in L PROVE h[L] = f[x] + h[L \ {x}]
    <3>1. CASE x = a
      BY <3>1
    <3>2. CASE x # a /\ a \notin L
      <4>1. g[L] = f[x] + g[L \ {x}]
        BY <2>2, <2>3, <3>2 DEF Additive
      <4>2. QED
        BY <3>2, <4>1
    <3>3. CASE x # a /\ a \in L
      <4>1. L \ {a} \in SUBSET (K \ {a}) /\ x \in L \ {a}
        BY <3>3
      <4>2. g[L \ {a}] = f[x] + g[(L \ {a}) \ {x}]
        BY <2>2, <4>1 DEF Additive
      <4>3. (L \ {a}) \ {x} = (L \ {x}) \ {a}
        OBVIOUS
      <4>4. h[L] = f[a] + g[L \ {a}] /\ h[L \ {x}] = f[a] + g[(L \ {x}) \ {a}]
        BY <3>3
      <4>5. g[(L \ {x}) \ {a}] \in Int /\ f[x] \in Int
        BY <2>4, <2>5, <2>3
      <4>6. f[a] \in Int
        BY <2>4
      <4> HIDE DEF h
      <4>7. g[L \ {a}] = f[x] + g[(L \ {x}) \ {a}]
        BY <4>2, <4>3, Zenon
      <4>8. ASSUME NEW p \in Int, NEW q \in Int, NEW r \in Int PROVE p + (q + r) = q + (p + r)
        OBVIOUS
      <4>9. f[a] + (f[x] + g[(L \ {x}) \ {a}]) = f[x] + (f[a] + g[(L \ {x}) \ {a}])
        BY <4>5, <4>6, <4>8, Zenon
      <4>10. QED
        BY <4>4, <4>7, <4>9, Zenon
    <3>4. QED
      BY <3>1, <3>2, <3>3
  <2>9. Additive(h, f, K)
    <3> HIDE DEF h
    <3> QED
      BY <2>6, <2>7, <2>8 DEF Additive
  <2>10. QED
    BY <2>9
<1>4. QED
  BY <1>2, <1>3

\* The library's sum is that of any additive function.
LEMMA SumIsAdditive ==
  ASSUME NEW f, IsFiniteSet(DOMAIN f), NEW g, Additive(g, f, DOMAIN f)
  PROVE  SumFunction(f) = g[DOMAIN f]
<1> DEFINE S == DOMAIN f
           Unfold(it) == [K \in SUBSET S |-> IF K = {} THEN 0
                          ELSE LET x == CHOOSE y \in K : TRUE IN f[x] + it[K \ {x}]]
           sums == CHOOSE it : it = Unfold(it)
<1>1. SumFunction(f) = sums[S]
  BY DEF SumFunction, SumFunctionOnSet, FoldFunctionOnSet, MapThenFoldSet
<1>2. g = Unfold(g)
  <2>1. g = [K \in SUBSET S |-> g[K]]
    BY DEF Additive
  <2>2. ASSUME NEW K \in SUBSET S, K # {}
        PROVE  g[K] = f[CHOOSE y \in K : TRUE] + g[K \ {CHOOSE y \in K : TRUE}]
    <3>1. (CHOOSE y \in K : TRUE) \in K
      BY <2>2
    <3>2. QED
      BY <3>1 DEF Additive
  <2>3. \A K \in SUBSET S : g[K] = Unfold(g)[K]
    BY <2>2 DEF Additive
  <2>4. QED
    BY <2>1, <2>3
<1>3. sums = Unfold(sums)
  <2> HIDE DEF Unfold
  <2> QED
    BY <1>2
<1> HIDE DEF sums
<1> DEFINE Bad == {K \in SUBSET S : sums[K] # g[K]}
<1>4. ASSUME Bad # {} PROVE FALSE
  <2>1. PICK K \in Bad : \A x \in K : K \ {x} \notin Bad
    <3> HIDE DEF Bad
    <3>1. Bad \subseteq SUBSET S
      BY DEF Bad
    <3> QED
      BY <3>1, <1>4, SmallestSet
  <2>2. CASE K = {}
    <3>1. sums[{}] = 0
      BY <1>3
    <3>2. QED
      BY <3>1, <2>1, <2>2 DEF Additive
  <2>3. CASE K # {}
    <3> DEFINE x == CHOOSE y \in K : TRUE
    <3>1. x \in K
      BY <2>3
    <3>2. sums[K] = f[x] + sums[K \ {x}]
      BY <1>3, <2>3
    <3>3. g[K] = f[x] + g[K \ {x}]
      BY <3>1 DEF Additive
    <3>4. sums[K \ {x}] = g[K \ {x}]
      BY <2>1, <3>1
    <3>5. QED
      BY <2>1, <3>2, <3>3, <3>4
  <2>4. QED
    BY <2>2, <2>3
<1>5. QED
  BY <1>1, <1>4

\* Nothing sums to nothing.
LEMMA SumOfNone == ASSUME NEW f, DOMAIN f = {} PROVE SumFunction(f) = 0
<1>1. Additive([K \in SUBSET {} |-> 0], f, {})
  BY DEF Additive
<1>2. SumFunction(f) = [K \in SUBSET {} |-> 0][{}]
  BY <1>1, FS_EmptySet, SumIsAdditive
<1>3. QED
  BY <1>2

\* One element more adds its value.
LEMMA SumAdds ==
  ASSUME NEW S, IsFiniteSet(S), NEW x, x \notin S, NEW f \in [S -> Int],
         NEW h \in [S \cup {x} -> Int], \A k \in S : h[k] = f[k]
  PROVE  /\ SumFunction(h) = SumFunction(f) + h[x]
         /\ SumFunction(f) \in Int
<1>1. IsFiniteSet(S \cup {x})
  BY FS_AddElement
<1>2. PICK g : Additive(g, h, S \cup {x})
  BY <1>1, SumsExist
<1> DEFINE g1 == [K \in SUBSET S |-> g[K]]
<1>3. Additive(g1, f, S)
  <2>1. \A K \in SUBSET S : K \in SUBSET (S \cup {x}) /\ \A y \in K : K \ {y} \in SUBSET S
    OBVIOUS
  <2>2. QED
    BY <1>2, <2>1 DEF Additive
<1>4. SumFunction(h) = g[S \cup {x}] /\ SumFunction(f) = g[S]
  <2>1. DOMAIN h = S \cup {x} /\ DOMAIN f = S /\ g1[S] = g[S]
    OBVIOUS
  <2> HIDE DEF g1
  <2>2. QED
    BY <2>1, <1>1, <1>2, <1>3, SumIsAdditive
<1>5. g[S \cup {x}] = h[x] + g[S] /\ g[S] \in Int
  <2>1. (S \cup {x}) \ {x} = S
    OBVIOUS
  <2>2. QED
    BY <1>2, <2>1 DEF Additive
<1>6. QED
  BY <1>4, <1>5

\* Greater values have no less a sum.
LEMMA SumIsMonotone ==
  ASSUME NEW S, IsFiniteSet(S), NEW f \in [S -> Int], NEW h \in [S -> Int], \A x \in S : f[x] <= h[x]
  PROVE  SumFunction(f) <= SumFunction(h)
<1>1. PICK g : Additive(g, f, S)
  BY SumsExist
<1>2. PICK k : Additive(k, h, S)
  BY SumsExist
<1>3. SumFunction(f) = g[S] /\ SumFunction(h) = k[S] /\ g[S] \in Int /\ k[S] \in Int
  <2>1. DOMAIN f = S /\ DOMAIN h = S /\ S \in SUBSET S
    OBVIOUS
  <2>2. QED
    BY <2>1, <1>1, <1>2, SumIsAdditive DEF Additive
<1> DEFINE Bad == {K \in SUBSET S : g[K] > k[K]}
<1>4. ASSUME Bad # {} PROVE FALSE
  <2>1. PICK K \in Bad : \A x \in K : K \ {x} \notin Bad
    <3> HIDE DEF Bad
    <3>1. Bad \subseteq SUBSET S
      BY DEF Bad
    <3> QED
      BY <3>1, <1>4, SmallestSet
  <2>2. K # {}
    <3>1. g[{}] = 0 /\ k[{}] = 0 /\ ~(g[{}] > k[{}])
      BY <1>1, <1>2 DEF Additive
    <3>2. g[K] > k[K]
      OBVIOUS
    <3>3. QED
      BY <3>1, <3>2, Zenon
  <2>3. PICK x \in K : TRUE
    BY <2>2
  <2>4. /\ K \in SUBSET S /\ K \ {x} \in SUBSET S /\ g[K] > k[K]
        /\ g[K] = f[x] + g[K \ {x}] /\ k[K] = h[x] + k[K \ {x}]
    BY <2>1, <2>3, <1>1, <1>2 DEF Additive
  <2>5. g[K \ {x}] <= k[K \ {x}] /\ g[K \ {x}] \in Int /\ k[K \ {x}] \in Int /\ f[x] \in Int /\ h[x] \in Int
    BY <2>1, <2>3, <2>4, <1>1, <1>2 DEF Additive
  <2>6. f[x] <= h[x]
    BY <2>3, <2>4
  <2> HIDE DEF Bad
  <2>7. QED
    BY <2>4, <2>5, <2>6
<1>5. QED
  BY <1>3, <1>4

\* A sum of numbers is positive if and only if one of them is.
LEMMA SumIsPositive ==
  ASSUME NEW S, IsFiniteSet(S), NEW f \in [S -> Nat]
  PROVE  /\ SumFunction(f) \in Nat
         /\ SumFunction(f) > 0 <=> \E x \in S : f[x] > 0
<1>1. f \in [S -> Int] /\ DOMAIN f = S
  OBVIOUS
<1>2. PICK g : Additive(g, f, S)
  BY <1>1, SumsExist
<1>3. SumFunction(f) = g[S]
  BY <1>1, <1>2, SumIsAdditive
<1> DEFINE Zero == [x \in S |-> 0]
<1>4. SumFunction(Zero) = 0
  <2>1. Zero \in [S -> Int] /\ Additive([K \in SUBSET S |-> 0], Zero, S) /\ DOMAIN Zero = S
    BY DEF Additive
  <2> HIDE DEF Zero
  <2>2. SumFunction(Zero) = [K \in SUBSET S |-> 0][S]
    BY <2>1, SumIsAdditive
  <2>3. QED
    BY <2>2
<1>5. \A K \in SUBSET S : g[K] \in Int /\ g[K] >= 0
  <2> DEFINE Bad == {K \in SUBSET S : g[K] < 0}
  <2>1. ASSUME Bad # {} PROVE FALSE
    <3>1. PICK K \in Bad : \A x \in K : K \ {x} \notin Bad
      <4> HIDE DEF Bad
      <4>1. Bad \subseteq SUBSET S
        BY DEF Bad
      <4> QED
        BY <4>1, <2>1, SmallestSet
    <3>2. K # {}
      <4>1. g[{}] = 0 /\ ~(g[{}] < 0)
        BY <1>2 DEF Additive
      <4>2. g[K] < 0
        OBVIOUS
      <4>3. QED
        BY <4>1, <4>2, Zenon
    <3>3. PICK x \in K : TRUE
      BY <3>2
    <3>4. K \in SUBSET S /\ K \ {x} \in SUBSET S /\ g[K] < 0 /\ g[K] = f[x] + g[K \ {x}]
      BY <3>1, <3>3, <1>2 DEF Additive
    <3>5. g[K \ {x}] \in Int /\ g[K \ {x}] >= 0
      BY <3>1, <3>3, <3>4, <1>2 DEF Additive
    <3>6. f[x] \in Nat
      BY <3>3, <3>4
    <3> HIDE DEF Bad
    <3>7. QED
      BY <3>4, <3>5, <3>6
  <2>2. \A K \in SUBSET S : g[K] \in Int
    BY <1>2 DEF Additive
  <2>3. QED
    BY <2>1, <2>2
<1>6. SumFunction(f) \in Nat
  BY <1>3, <1>5
<1>7. ASSUME NEW x \in S, f[x] > 0 PROVE g[S] > 0
  <2>1. g[S] = f[x] + g[S \ {x}] /\ S \ {x} \in SUBSET S
    BY <1>2 DEF Additive
  <2>2. f[x] \in Nat /\ g[S \ {x}] \in Int /\ g[S \ {x}] >= 0
    BY <1>5, <2>1
  <2>3. QED
    BY <1>7, <2>1, <2>2
<1>8. ASSUME ~\E x \in S : f[x] > 0 PROVE SumFunction(f) = 0
  <2>1. f = Zero
    BY <1>8
  <2> HIDE DEF Zero
  <2>2. QED
    BY <2>1, <1>4
<1>9. QED
  BY <1>3, <1>6, <1>7, <1>8
-----------------------------------------------------------------------------
(* Ranks in a strict order R of a finite set D.                             *)

StrictOrder(D, R) ==
  /\ \A i \in D : <<i, i>> \notin R
  /\ \A i, j, k \in D : <<i, j>> \in R /\ <<j, k>> \in R => <<i, k>> \in R
  /\ \A i, j \in D : i # j => <<i, j>> \in R \/ <<j, i>> \in R

Preceding(D, R, i) == {j \in D : <<j, i>> \in R}
Foremost(D, R, P, k) == {i \in P : Cardinality(Preceding(D, R, i)) < k}

\* Whoever comes later has more before him.
LEMMA RanksGrow ==
  ASSUME NEW D, IsFiniteSet(D), NEW R, StrictOrder(D, R), NEW i \in D
  PROVE  /\ Cardinality(Preceding(D, R, i)) \in Nat
         /\ \A j \in D : <<i, j>> \in R =>
              Cardinality(Preceding(D, R, i)) < Cardinality(Preceding(D, R, j))
  <1>1. \A j \in D : IsFiniteSet(Preceding(D, R, j)) /\ Cardinality(Preceding(D, R, j)) \in Nat
    <2>1. \A j \in D : Preceding(D, R, j) \in SUBSET D
      BY DEF Preceding
    <2>2. QED
      BY <2>1, FS_Subset, FS_CardinalityType
  <1>2. ASSUME NEW j \in D, <<i, j>> \in R
        PROVE  Cardinality(Preceding(D, R, i)) < Cardinality(Preceding(D, R, j))
    <2>1. i \notin Preceding(D, R, i) /\ Preceding(D, R, i) \cup {i} \in SUBSET Preceding(D, R, j)
      BY <1>2 DEF Preceding, StrictOrder
    <2>2. Cardinality(Preceding(D, R, i) \cup {i}) = Cardinality(Preceding(D, R, i)) + 1
      BY <1>1, <2>1, FS_AddElement
    <2>3. Cardinality(Preceding(D, R, i) \cup {i}) <= Cardinality(Preceding(D, R, j))
      BY <1>1, <2>1, FS_Subset
    <2>4. QED
      BY <1>1, <2>2, <2>3
  <1>3. QED
    BY <1>1, <1>2

\* Of a set that whoever precedes an element belongs to, the foremost k are k,
\* or all of it.
LEMMA ForemostAreCounted ==
  ASSUME NEW D, IsFiniteSet(D), NEW R, StrictOrder(D, R),
         NEW P \in SUBSET D, \A i \in P : Preceding(D, R, i) \subseteq P, NEW n \in Nat
  PROVE  Cardinality(Foremost(D, R, P, n)) = IF Cardinality(P) < n THEN Cardinality(P) ELSE n
  <1> DEFINE rank(i) == Cardinality(Preceding(D, R, i))
             Counted(k) == Cardinality(Foremost(D, R, P, k)) = IF Cardinality(P) < k THEN Cardinality(P) ELSE k
             Bad == {k \in Nat : ~Counted(k)}
  <1>1. IsFiniteSet(P) /\ Cardinality(P) \in Nat
    BY FS_Subset, FS_CardinalityType
  <1>2. \A k \in Nat : Foremost(D, R, P, k) \in SUBSET P /\ IsFiniteSet(Foremost(D, R, P, k))
    <2>1. \A k \in Nat : Foremost(D, R, P, k) \in SUBSET P
      BY DEF Foremost
    <2>2. QED
      BY <1>1, <2>1, FS_Subset
  <1>3. \A i \in D : rank(i) \in Nat /\ \A j \in D : <<i, j>> \in R => rank(i) < rank(j)
    BY RanksGrow
  <1>4. ASSUME NEW i \in P, NEW j \in P, rank(i) = rank(j) PROVE i = j
    <2>1. i \in D /\ j \in D /\ ~(rank(i) < rank(j)) /\ ~(rank(j) < rank(i))
      BY <1>3, <1>4
    <2>2. <<i, j>> \notin R /\ <<j, i>> \notin R
      BY <1>3, <2>1
    <2>3. QED
      BY <2>1, <2>2 DEF StrictOrder
  <1>5. SUFFICES ASSUME Bad # {} PROVE FALSE
    <2>1. n \notin Bad => Counted(n)
      OBVIOUS
    <2>2. QED
      BY <2>1
  <1> DEFINE m == Min(Bad)
  <1>6. m \in Bad /\ \A k \in Bad : m <= k
    <2>1. Bad \subseteq Nat
      OBVIOUS
    <2> HIDE DEF Bad
    <2>2. QED
      BY <1>5, <2>1, LeastNumber
  <1> HIDE DEF m
  <1>7. m \in Nat /\ ~Counted(m)
    BY <1>6
  <1>8. CASE m = 0
    <2>1. Foremost(D, R, P, 0) = {}
      BY <1>3 DEF Foremost
    <2>2. Cardinality(Foremost(D, R, P, 0)) = 0
      BY <2>1, FS_EmptySet
    <2>3. QED
      BY <1>1, <1>7, <1>8, <2>2
  <1>9. CASE m # 0
    <2> DEFINE l == m - 1
               F == Foremost(D, R, P, l)
    <2>1. l \in Nat /\ m = l + 1 /\ Counted(l)
      <3>1. l \in Nat /\ m = l + 1 /\ ~(m <= l)
        BY <1>7, <1>9
      <3> HIDE DEF l
      <3>2. l \notin Bad
        <4> HIDE DEF Bad
        <4>1. QED
          BY <1>6, <3>1
      <3>3. QED
        BY <3>1, <3>2
    <2> HIDE DEF l
    <2>2. IsFiniteSet(F) /\ F \in SUBSET P /\ Cardinality(F) \in Nat
      BY <1>2, <2>1, FS_CardinalityType
    <2>3. CASE P \subseteq F
      <3>1. F = P
        BY <2>2, <2>3
      <3>2. Foremost(D, R, P, m) = P
        BY <1>3, <2>1, <3>1 DEF Foremost
      <3>3. Cardinality(P) <= l
        BY <1>1, <2>1, <3>1
      <3>4. QED
        BY <1>1, <1>7, <2>1, <3>2, <3>3
    <2>4. CASE ~(P \subseteq F)
      <3> DEFINE rest == {rank(i) : i \in P \ F}
      <3>1. PICK x \in P \ F : \A y \in P \ F : rank(x) <= rank(y)
        <4>1. rest \subseteq Nat /\ rest # {}
          BY <1>3, <2>4
        <4>2. Min(rest) \in rest /\ \A r \in rest : Min(rest) <= r
          <5> HIDE DEF rest
          <5>1. QED
            BY <4>1, LeastNumber
        <4>3. PICK x \in P \ F : Min(rest) = rank(x)
          BY <4>2
        <4>4. QED
          BY <4>2, <4>3
      <3>2. rank(x) >= l /\ rank(x) \in Nat /\ x \in D
        BY <1>3, <2>1, <3>1 DEF Foremost
      <3>3. Preceding(D, R, x) = F
        <4>1. ASSUME NEW y \in Preceding(D, R, x) PROVE y \in F
          <5>1. y \in P /\ y \in D /\ <<y, x>> \in R
            BY <3>1, <4>1 DEF Preceding
          <5>2. rank(y) < rank(x) /\ rank(y) \in Nat
            BY <1>3, <3>2, <5>1
          <5>3. QED
            BY <3>1, <3>2, <5>1, <5>2
        <4>2. ASSUME NEW y \in F PROVE y \in Preceding(D, R, x)
          <5>1. y \in D /\ rank(y) < l /\ rank(y) \in Nat
            BY <1>3, <2>2 DEF Foremost
          <5>2. y # x /\ <<x, y>> \notin R
            BY <1>3, <2>1, <3>2, <5>1
          <5>3. QED
            BY <3>2, <5>1, <5>2 DEF StrictOrder, Preceding
        <4>3. QED
          BY <4>1, <4>2
      <3>4. rank(x) = Cardinality(F)
        BY <3>3
      <3>5. Cardinality(F) = l /\ ~(Cardinality(P) < l)
        BY <1>1, <2>1, <2>2, <3>2, <3>4
      <3>6. Foremost(D, R, P, m) = F \cup {x}
        <4>1. ASSUME NEW y \in P, rank(y) < m, y \notin F PROVE y = x
          <5>1. rank(y) >= l /\ rank(y) \in Nat
            BY <1>3, <2>1, <4>1 DEF Foremost
          <5>2. rank(y) = rank(x)
            BY <2>1, <3>4, <3>5, <4>1, <5>1
          <5>3. QED
            BY <1>4, <3>1, <5>2
        <4>2. \A y \in F : y \in P /\ rank(y) < m
          BY <1>3, <2>1, <2>2 DEF Foremost
        <4>3. x \in P /\ rank(x) < m
          BY <2>1, <3>1, <3>4, <3>5
        <4>4. Foremost(D, R, P, m) = {y \in P : rank(y) < m}
          BY DEF Foremost
        <4> HIDE DEF rank, F
        <4>5. QED
          BY <4>1, <4>2, <4>3, <4>4
      <3>7. Cardinality(Foremost(D, R, P, m)) = l + 1
        <4>1. x \notin F
          BY <3>1
        <4>2. QED
          BY <2>2, <3>5, <3>6, <4>1, FS_AddElement
      <3>8. Cardinality(P) >= m
        <4>1. Cardinality(Foremost(D, R, P, m)) <= Cardinality(P)
          BY <1>1, <1>2, <1>7, FS_Subset
        <4>2. QED
          BY <1>1, <2>1, <3>7, <4>1
      <3>9. QED
        BY <1>1, <1>7, <2>1, <3>7, <3>8
    <2>5. QED
      BY <2>3, <2>4
  <1>10. QED
    BY <1>8, <1>9

-----------------------------------------------------------------------------
(* Sequences and finite sets.                                               *)

\* Only finitely many values are in a sequence.
LEMMA RangeIsFinite == ASSUME NEW S, NEW s \in Seq(S) PROVE IsFiniteSet(Range(s)) /\ Range(s) \subseteq S
  <1>1. DOMAIN s = 1..Len(s) /\ Len(s) \in Nat /\ \A k \in 1..Len(s) : s[k] \in S
    OBVIOUS
  <1>2. IsFiniteSet(1..Len(s))
    BY <1>1, FS_Interval
  <1>3. s \in Surjection(1..Len(s), Range(s))
    BY <1>1 DEF Surjection, Range
  <1>4. QED
    BY <1>1, <1>2, <1>3, FS_Surjection DEF Range

\* A finite set can be counted off.
LEMMA SetAsSequence == ASSUME NEW S, IsFiniteSet(S) PROVE SetToSeq(S) \in Seq(S)
  <1>1. Cardinality(S) \in Nat /\ ExistsBijection(1..Cardinality(S), S)
    BY FS_CardinalityType
  <1>2. PICK f \in [1..Cardinality(S) -> S] : IsInjective(f)
    BY <1>1 DEF ExistsBijection, Bijection, Injection, IsInjective
  <1>3. SetToSeq(S) \in [1..Cardinality(S) -> S]
    BY <1>2 DEF SetToSeq
  <1>4. QED
    BY <1>1, <1>3

LEMMA EmptySetAsSequence == SetToSeq({}) = <<>>
  <1>1. SetToSeq({}) \in Seq({})
    BY SetAsSequence, FS_EmptySet
  <1>2. QED
    BY <1>1
=============================================================================
