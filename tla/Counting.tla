------------------------------ MODULE Counting ------------------------------
(***************************************************************************)
(* Facts about numbers and finite sets that the proofs share.              *)
(***************************************************************************)
EXTENDS Integers, FiniteSets, FiniteSetsExt, FiniteSetTheorems, WellFoundedInduction, TLAPS

\* Every nonempty set of naturals has a least element.
LEMMA LeastElement ==
  ASSUME NEW T \in SUBSET Nat, T # {}
  PROVE  \E x \in T : \A y \in T : x <= y
<1>1. PICK x \in T : \A y \in T : ~(<<y, x>> \in OpToRel(<, Nat))
  BY NatLessThanWellFounded, WFMin
<1>2. \A y \in T : ~(y < x)
  BY <1>1 DEF OpToRel
<1>3. QED
  BY <1>2

\* Every nonempty set of naturals that has a bound has a greatest element.
LEMMA GreatestElement ==
  ASSUME NEW n \in Nat, NEW S \in SUBSET (0..n), S # {}
  PROVE  \E x \in S : \A y \in S : y <= x
<1> DEFINE T == {n - y : y \in S}
<1>1. T \in SUBSET Nat /\ T # {}
  <2>1. \A y \in S : n - y \in Nat
    OBVIOUS
  <2>2. QED
    BY <2>1
<1>2. PICK z \in T : \A y \in T : z <= y
  BY <1>1, LeastElement
<1>3. PICK x \in S : z = n - x
  BY <1>2
<1>4. \A y \in S : n - x <= n - y
  BY <1>2, <1>3
<1>5. QED
  BY <1>4

\* The values of a function on a finite set, together with 0, have a greatest.
LEMMA FiniteMaximum ==
  ASSUME NEW P, IsFiniteSet(P), NEW f \in [P -> Nat]
  PROVE  \E m \in {f[p] : p \in P} \cup {0} : \A y \in {f[p] : p \in P} \cup {0} : y <= m
<1> DEFINE Values(X) == {f[p] : p \in X} \cup {0}
           HasMax(X) == \E m \in Values(X) : \A y \in Values(X) : y <= m
           Bad == {X \in SUBSET P : ~HasMax(X)}
           Sizes == {Cardinality(X) : X \in Bad}
<1>1. \A X \in SUBSET P : IsFiniteSet(X) /\ Cardinality(X) \in Nat
  BY FS_Subset, FS_CardinalityType
<1>2. ASSUME Bad # {}
      PROVE  FALSE
  <2>1. Sizes \in SUBSET Nat /\ Sizes # {}
    BY <1>1, <1>2
  <2>2. PICK X \in Bad : \A Y \in Bad : Cardinality(X) <= Cardinality(Y)
    <3>1. PICK n \in Sizes : \A k \in Sizes : n <= k
      BY <2>1, LeastElement
    <3>2. PICK X \in Bad : n = Cardinality(X)
      BY <3>1
    <3>3. \A Y \in Bad : Cardinality(Y) \in Sizes
      OBVIOUS
    <3>4. QED
      BY <3>1, <3>2, <3>3
  <2>3. CASE X = {}
    <3>1. Values(X) = {0} /\ 0 <= 0
      BY <2>3
    <3>2. HasMax(X)
      BY <3>1
    <3>3. QED
      BY <3>2
  <2>4. CASE X # {}
    <3>1. PICK x \in X : TRUE
      BY <2>4
    <3>2. X \ {x} \in SUBSET P /\ Cardinality(X \ {x}) = Cardinality(X) - 1
      BY <1>1, <3>1, FS_RemoveElement
    <3>3. HasMax(X \ {x})
      <4>1. X \ {x} \notin Bad
        <5>1. Cardinality(X) \in Nat
          BY <1>1
        <5>2. ~(Cardinality(X) <= Cardinality(X \ {x}))
          BY <3>2, <5>1
        <5>3. QED
          BY <2>2, <5>2
      <4>2. QED
        BY <3>2, <4>1
    <3>4. PICK m \in Values(X \ {x}) : \A y \in Values(X \ {x}) : y <= m
      BY <3>3
    <3>5. /\ Values(X) = Values(X \ {x}) \cup {f[x]}
          /\ f[x] \in Nat /\ m \in Nat
          /\ \A y \in Values(X) : y \in Nat
      BY <3>1
    <3>6. CASE f[x] <= m
      <4>1. m \in Values(X) /\ \A y \in Values(X) : y <= m
        BY <3>4, <3>5, <3>6
      <4>2. QED
        BY <4>1
    <3>7. CASE m <= f[x]
      <4>1. f[x] \in Values(X) /\ \A y \in Values(X) : y <= f[x]
        BY <3>4, <3>5, <3>7, SMTT(30)
      <4>2. QED
        BY <4>1
    <3>8. QED
      BY <3>5, <3>6, <3>7
  <2>5. QED
    BY <2>3, <2>4
<1>3. P \notin Bad
  BY <1>2
<1>4. QED
  BY <1>3

-----------------------------------------------------------------------------
(* Sums *)

\* What MapThenSumSet computes on the way to the sum of g over S: the sum over every
\* subset, the elements taken in the order of a choice.
Pick(s) == CHOOSE x \in s : TRUE
IsSum(sum, g, S) ==
  sum = [s \in SUBSET S |-> IF s = {} THEN 0 ELSE g[Pick(s)] + sum[s \ {Pick(s)}]]

\* Such a function exists: one that is right for the sets below a size gives one that is
\* right for the next size.
LEMMA SumExists ==
  ASSUME NEW S, IsFiniteSet(S), NEW g \in [S -> Nat]
  PROVE  \E sum \in [SUBSET S -> Nat] : IsSum(sum, g, S)
<1> DEFINE Step(sum) == [s \in SUBSET S |-> IF s = {} THEN 0 ELSE g[Pick(s)] + sum[s \ {Pick(s)}]]
           Right(sum, n) == \A s \in SUBSET S : Cardinality(s) <= n => sum[s] = Step(sum)[s]
           Bad == {n \in Nat : ~\E sum \in [SUBSET S -> Nat] : Right(sum, n)}
<1>1. \A s \in SUBSET S : /\ IsFiniteSet(s) /\ Cardinality(s) \in Nat
                          /\ Cardinality(s) <= Cardinality(S)
                          /\ Cardinality(s) = 0 => s = {}
  BY FS_Subset, FS_CardinalityType, FS_EmptySet
<1>2. \A s \in SUBSET S : s # {} =>
        /\ Pick(s) \in s /\ Pick(s) \in S /\ s \ {Pick(s)} \in SUBSET S
        /\ Cardinality(s \ {Pick(s)}) = Cardinality(s) - 1
  <2>1. ASSUME NEW s \in SUBSET S, s # {}
        PROVE  Pick(s) \in s
    BY <2>1 DEF Pick
  <2>2. QED
    BY <1>1, <2>1, FS_RemoveElement
<1>3. ASSUME NEW sum \in [SUBSET S -> Nat]
      PROVE  Step(sum) \in [SUBSET S -> Nat]
  <2>1. ASSUME NEW s \in SUBSET S, s # {}
        PROVE  g[Pick(s)] + sum[s \ {Pick(s)}] \in Nat
    <3>1. Pick(s) \in S /\ s \ {Pick(s)} \in SUBSET S
      BY <1>2, <2>1
    <3>2. g[Pick(s)] \in Nat /\ sum[s \ {Pick(s)}] \in Nat
      BY <3>1
    <3>3. QED
      BY <3>2
  <2>2. QED
    BY <2>1
<1>4. ASSUME Bad # {}
      PROVE  FALSE
  <2>1. PICK n \in Bad : \A m \in Bad : n <= m
    BY <1>4, LeastElement
  <2>2. CASE n = 0
    <3> DEFINE zero == [s \in SUBSET S |-> 0]
    <3>1. zero \in [SUBSET S -> Nat]
      OBVIOUS
    <3>2. Right(zero, n)
      BY <1>1, <2>2
    <3>3. QED
      BY <3>1, <3>2
  <2>3. CASE n # 0
    <3>1. n - 1 \in Nat /\ n - 1 \notin Bad
      <4> HIDE DEF Right
      <4>1. n \in Nat /\ n - 1 \in Nat /\ ~(n <= n - 1)
        BY <2>3
      <4> HIDE DEF Bad
      <4>2. QED
        BY <2>1, <4>1
    <3>2. PICK sum \in [SUBSET S -> Nat] : Right(sum, n - 1)
      BY <3>1
    <3>3. Step(sum) \in [SUBSET S -> Nat]
      BY <1>3
    <3>4. ASSUME NEW s \in SUBSET S, Cardinality(s) <= n
          PROVE  Step(sum)[s] = Step(Step(sum))[s]
      <4>1. CASE s = {}
        BY <4>1
      <4>2. CASE s # {}
        <5>1. /\ s \ {Pick(s)} \in SUBSET S
              /\ Cardinality(s \ {Pick(s)}) <= n - 1
          BY <1>1, <1>2, <3>4, <4>2
        <5>2. sum[s \ {Pick(s)}] = Step(sum)[s \ {Pick(s)}]
          BY <3>2, <5>1
        <5>3. QED
          BY <4>2, <5>2
      <4>3. QED
        BY <4>1, <4>2
    <3>5. Right(Step(sum), n)
      BY <3>4
    <3>6. QED
      BY <3>3, <3>5
  <2>4. QED
    BY <2>2, <2>3
<1>5. Cardinality(S) \in Nat /\ Cardinality(S) \notin Bad
  BY <1>1, <1>4
<1>6. PICK sum \in [SUBSET S -> Nat] : Right(sum, Cardinality(S))
  BY <1>5
<1>7. \A s \in SUBSET S : sum[s] = Step(sum)[s]
  BY <1>1, <1>6
<1>8. QED
  BY <1>7 DEF IsSum

\* There is one sum: two functions that are computed alike agree.
LEMMA SumUnique ==
  ASSUME NEW S, IsFiniteSet(S), NEW g, NEW gs, IsSum(gs, g, S), NEW hs, IsSum(hs, g, S)
  PROVE  gs[S] = hs[S]
<1> DEFINE Bad == {s \in SUBSET S : gs[s] # hs[s]}
           Sizes == {Cardinality(s) : s \in Bad}
<1>1. \A s \in SUBSET S : IsFiniteSet(s) /\ Cardinality(s) \in Nat
  BY FS_Subset, FS_CardinalityType
<1>2. ASSUME Bad # {}
      PROVE  FALSE
  <2>1. Sizes \in SUBSET Nat /\ Sizes # {}
    BY <1>1, <1>2
  <2>2. PICK s \in Bad : \A t \in Bad : Cardinality(s) <= Cardinality(t)
    <3>1. PICK n \in Sizes : \A k \in Sizes : n <= k
      BY <2>1, LeastElement
    <3>2. PICK s \in Bad : n = Cardinality(s)
      BY <3>1
    <3>3. \A t \in Bad : Cardinality(t) \in Sizes
      OBVIOUS
    <3>4. QED
      BY <3>1, <3>2, <3>3
  <2>3. /\ gs[s] = IF s = {} THEN 0 ELSE g[Pick(s)] + gs[s \ {Pick(s)}]
        /\ hs[s] = IF s = {} THEN 0 ELSE g[Pick(s)] + hs[s \ {Pick(s)}]
    BY DEF IsSum
  <2>4. s # {}
    BY <2>3
  <2>5. Pick(s) \in s
    BY <2>4 DEF Pick
  <2>6. s \ {Pick(s)} \in SUBSET S /\ Cardinality(s \ {Pick(s)}) = Cardinality(s) - 1
    BY <1>1, <2>5, FS_RemoveElement
  <2>7. s \ {Pick(s)} \notin Bad
    <3>1. Cardinality(s) \in Nat
      BY <1>1
    <3>2. ~(Cardinality(s) <= Cardinality(s \ {Pick(s)}))
      BY <2>6, <3>1
    <3>3. QED
      BY <2>2, <3>2
  <2>8. QED
    BY <2>3, <2>4, <2>6, <2>7
<1>3. QED
  BY <1>2

\* The sum of a function over a set, as the library computes it.
SumOver(g, S) == MapThenSumSet(LAMBDA x : g[x], S)

\* It is the recursion that IsSum describes.
LEMMA SumOverIs ==
  ASSUME NEW S, NEW g
  PROVE  SumOver(g, S) = (CHOOSE sum : IsSum(sum, g, S))[S]
BY Zenon DEF SumOver, MapThenSumSet, MapThenFoldSet, IsSum, Pick

\* Only the values on the set count.
LEMMA SumOverAgrees ==
  ASSUME NEW S, NEW g, NEW h, \A x \in S : g[x] = h[x]
  PROVE  SumOver(g, S) = SumOver(h, S)
<1>1. \A s \in SUBSET S : s # {} => Pick(s) \in s
  BY DEF Pick
<1>2. ASSUME NEW sum
      PROVE  IsSum(sum, g, S) <=> IsSum(sum, h, S)
  <2>1. \A s \in SUBSET S : (IF s = {} THEN 0 ELSE g[Pick(s)] + sum[s \ {Pick(s)}])
                            = (IF s = {} THEN 0 ELSE h[Pick(s)] + sum[s \ {Pick(s)}])
    BY <1>1
  <2>2. [s \in SUBSET S |-> IF s = {} THEN 0 ELSE g[Pick(s)] + sum[s \ {Pick(s)}]]
        = [s \in SUBSET S |-> IF s = {} THEN 0 ELSE h[Pick(s)] + sum[s \ {Pick(s)}]]
    BY <2>1
  <2>3. QED
    BY <2>2 DEF IsSum
<1>3. (CHOOSE sum : IsSum(sum, g, S)) = (CHOOSE sum : IsSum(sum, h, S))
  BY <1>2
<1>4. QED
  BY <1>3, SumOverIs

\* A sum does not depend on the order in which it is taken: any element may be the last.
LEMMA SumRemove ==
  ASSUME NEW S, IsFiniteSet(S), NEW g, \A x \in S : g[x] \in Nat,
         NEW gs, \A s \in SUBSET S : gs[s] \in Nat, IsSum(gs, g, S),
         NEW s0, s0 \subseteq S, NEW d0, d0 \in s0
  PROVE  gs[s0] = gs[s0 \ {d0}] + g[d0]
<1> DEFINE Bad == {s \in SUBSET S : \E d \in s : gs[s] # gs[s \ {d}] + g[d]}
           Sizes == {Cardinality(s) : s \in Bad}
<1>1. \A s \in SUBSET S : IsFiniteSet(s) /\ Cardinality(s) \in Nat
  BY FS_Subset, FS_CardinalityType
<1>2. ASSUME Bad # {}
      PROVE  FALSE
  <2>1. Sizes \in SUBSET Nat /\ Sizes # {}
    BY <1>1, <1>2
  <2>2. PICK s \in Bad : \A t \in Bad : Cardinality(s) <= Cardinality(t)
    <3>1. PICK n \in Sizes : \A k \in Sizes : n <= k
      BY <2>1, LeastElement
    <3>2. PICK s \in Bad : n = Cardinality(s)
      BY <3>1
    <3>3. \A t \in Bad : Cardinality(t) \in Sizes
      OBVIOUS
    <3>4. QED
      BY <3>1, <3>2, <3>3
  <2>4. s \in SUBSET S /\ IsFiniteSet(s) /\ Cardinality(s) \in Nat
    BY <1>1
  <2>5. PICK d \in s : gs[s] # gs[s \ {d}] + g[d]
    OBVIOUS
  <2>6. PICK p \in s : p = Pick(s)
    BY <2>5 DEF Pick
  <2>7. gs[s] = g[p] + gs[s \ {p}]
    BY <2>4, <2>5, <2>6 DEF IsSum
  <2>8. g[p] \in Nat /\ g[d] \in Nat /\ gs[s \ {p}] \in Nat /\ gs[s \ {d}] \in Nat
        /\ gs[(s \ {p}) \ {d}] \in Nat
    BY <2>4
  <2>9. p # d
    <3>1. gs[s \ {d}] + g[d] = g[d] + gs[s \ {d}]
      BY <2>8
    <3>2. QED
      BY <2>5, <2>7, <3>1
  <2>10. ASSUME NEW x \in s, NEW y \in s \ {x}
         PROVE  gs[s \ {x}] = gs[(s \ {x}) \ {y}] + g[y]
    <3>1. Cardinality(s \ {x}) = Cardinality(s) - 1
      BY <2>4, FS_RemoveElement
    <3>2. s \ {x} \in SUBSET S /\ ~(Cardinality(s) <= Cardinality(s \ {x}))
      BY <2>4, <3>1
    <3>3. s \ {x} \notin Bad
      BY <2>2, <3>2
    <3>4. QED
      BY <3>2, <3>3
  <2>11. gs[s \ {p}] = gs[(s \ {p}) \ {d}] + g[d] /\ gs[s \ {d}] = gs[(s \ {d}) \ {p}] + g[p]
    BY <2>9, <2>10
  <2>12. (s \ {p}) \ {d} = (s \ {d}) \ {p}
    OBVIOUS
  <2>13. gs[(s \ {p}) \ {d}] = gs[(s \ {d}) \ {p}]
    BY <2>12
  <2>14. gs[s \ {d}] + g[d] = g[p] + gs[s \ {p}]
    <3> DEFINE a == g[p]
               b == g[d]
               c == gs[(s \ {p}) \ {d}]
    <3>1. a \in Nat /\ b \in Nat /\ c \in Nat
      BY <2>8
    <3>2. gs[s \ {d}] = c + a /\ gs[s \ {p}] = c + b
      BY <2>11, <2>13
    <3> HIDE DEF a, b, c
    <3>3. (c + a) + b = a + (c + b)
      BY <3>1
    <3>4. QED
      BY <3>2, <3>3 DEF a, b
  <2>15. QED
    BY <2>5, <2>7, <2>14
<1>3. QED
  BY <1>2

\* A sum over a finite set of naturals is a natural, and zero over the empty set.
LEMMA SumOverType ==
  ASSUME NEW S, IsFiniteSet(S), NEW g, \A x \in S : g[x] \in Nat
  PROVE  SumOver(g, S) \in Nat /\ (S = {} => SumOver(g, S) = 0)
<1> DEFINE h == [x \in S |-> g[x]]
<1>1. h \in [S -> Nat]
  OBVIOUS
<1>2. SumOver(g, S) = SumOver(h, S)
  BY SumOverAgrees
<1>3. PICK hs \in [SUBSET S -> Nat] : IsSum(hs, h, S)
  BY <1>1, SumExists
<1>4. IsSum(CHOOSE sum : IsSum(sum, h, S), h, S)
  BY <1>3
<1>5. (CHOOSE sum : IsSum(sum, h, S))[S] = hs[S]
  BY <1>3, <1>4, SumUnique
<1>6. SumOver(h, S) = hs[S]
  BY <1>5, SumOverIs
<1>7. S = {} => hs[S] = 0
  BY <1>3 DEF IsSum
<1>8. QED
  BY <1>2, <1>3, <1>6, <1>7

\* An element more adds its value.
LEMMA SumOverInsert ==
  ASSUME NEW S, IsFiniteSet(S), NEW d, d \notin S, NEW g, \A x \in S \cup {d} : g[x] \in Nat
  PROVE  SumOver(g, S \cup {d}) = SumOver(g, S) + g[d]
<1> DEFINE T == S \cup {d}
           h == [x \in T |-> g[x]]
<1>1. IsFiniteSet(T)
  BY FS_AddElement
<1>2. h \in [T -> Nat]
  OBVIOUS
<1>3. SumOver(g, T) = SumOver(h, T) /\ SumOver(g, S) = SumOver(h, S)
  BY SumOverAgrees
<1>4. PICK hs \in [SUBSET T -> Nat] : IsSum(hs, h, T)
  BY <1>1, <1>2, SumExists
<1>5. IsSum(CHOOSE sum : IsSum(sum, h, T), h, T)
  BY <1>4
<1>6. SumOver(h, T) = hs[T]
  BY <1>1, <1>4, <1>5, SumUnique, SumOverIs
<1> DEFINE rs == [s \in SUBSET S |-> hs[s]]
<1>7. IsSum(rs, h, S)
  <2>1. \A s \in SUBSET S : s \in SUBSET T /\ s \ {Pick(s)} \in SUBSET S
    OBVIOUS
  <2>2. \A s \in SUBSET S : hs[s] = IF s = {} THEN 0 ELSE h[Pick(s)] + hs[s \ {Pick(s)}]
    BY <1>4, <2>1 DEF IsSum
  <2>3. \A s \in SUBSET S : rs[s] = IF s = {} THEN 0 ELSE h[Pick(s)] + rs[s \ {Pick(s)}]
    BY <2>1, <2>2
  <2>4. QED
    BY <2>3 DEF IsSum
<1>8. IsSum(CHOOSE sum : IsSum(sum, h, S), h, S)
  BY <1>7
<1>9. SumOver(h, S) = rs[S]
  BY <1>7, <1>8, SumUnique, SumOverIs
<1>10. hs[T] = hs[T \ {d}] + h[d]
  <2>1. \A s \in SUBSET T : hs[s] \in Nat
    BY <1>4
  <2>2. \A x \in T : h[x] \in Nat
    BY <1>2
  <2>3. d \in T
    OBVIOUS
  <2> HIDE DEF T, h
  <2>4. QED
    BY <1>1, <1>4, <2>1, <2>2, <2>3, SumRemove
<1>11. T \ {d} = S
  OBVIOUS
<1>12. QED
  BY <1>3, <1>6, <1>9, <1>10, <1>11

\* A sum over fewer elements is no larger.
LEMMA SumOverSubset ==
  ASSUME NEW T, IsFiniteSet(T), NEW g, \A x \in T : g[x] \in Nat, NEW S0 \in SUBSET T
  PROVE  SumOver(g, S0) <= SumOver(g, T)
<1> DEFINE Bad == {S \in SUBSET T : ~(SumOver(g, S0) <= SumOver(g, S)) /\ S0 \subseteq S}
           Sizes == {Cardinality(S) : S \in Bad}
<1>1. \A s \in SUBSET T : IsFiniteSet(s) /\ Cardinality(s) \in Nat /\ SumOver(g, s) \in Nat
  BY FS_Subset, FS_CardinalityType, SumOverType
<1>2. ASSUME Bad # {}
      PROVE  FALSE
  <2>1. Sizes \in SUBSET Nat /\ Sizes # {}
    BY <1>1, <1>2
  <2>2. PICK S \in Bad : \A t \in Bad : Cardinality(S) <= Cardinality(t)
    <3>1. PICK n \in Sizes : \A k \in Sizes : n <= k
      BY <2>1, LeastElement
    <3>2. PICK S \in Bad : n = Cardinality(S)
      BY <3>1
    <3>3. \A t \in Bad : Cardinality(t) \in Sizes
      OBVIOUS
    <3>4. QED
      BY <3>1, <3>2, <3>3
  <2>4. SumOver(g, S0) \in Nat
    BY <1>1
  <2>5. S # S0
    BY <2>4
  <2>6. PICK d \in S : d \notin S0
    BY <2>5
  <2>7. S \ {d} \in SUBSET T /\ S0 \subseteq S \ {d} /\ S = (S \ {d}) \cup {d} /\ d \in T
    BY <2>6
  <2>8. IsFiniteSet(S \ {d}) /\ SumOver(g, S \ {d}) \in Nat /\ Cardinality(S \ {d}) \in Nat
    BY <1>1, <2>7
  <2>9. SumOver(g, S) = SumOver(g, S \ {d}) + g[d]
    <3>1. \A x \in (S \ {d}) \cup {d} : g[x] \in Nat
      BY <2>7
    <3>2. SumOver(g, (S \ {d}) \cup {d}) = SumOver(g, S \ {d}) + g[d]
      BY <2>8, <3>1, SumOverInsert
    <3>3. QED
      BY <2>7, <3>2
  <2>10. Cardinality(S \ {d}) = Cardinality(S) - 1
    BY <1>1, FS_RemoveElement
  <2>11. S \ {d} \notin Bad
    <3>1. Cardinality(S) \in Nat
      BY <1>1
    <3>2. ~(Cardinality(S) <= Cardinality(S \ {d}))
      BY <2>10, <3>1
    <3>3. QED
      BY <2>2, <3>2
  <2>12. SumOver(g, S0) <= SumOver(g, S \ {d})
    BY <2>7, <2>11
  <2>13. g[d] \in Nat
    BY <2>7
  <2>14. QED
    BY <2>4, <2>8, <2>9, <2>12, <2>13
<1>3. QED
  BY <1>2

=============================================================================
