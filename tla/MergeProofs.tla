----------------------------- MODULE MergeProofs -----------------------------
(***************************************************************************)
(* mergeAndSum, for every set of intervals: what its loop has after each   *)
(* interval of the sorted slice, and what it returns.  The sums are folds  *)
(* over recursive functions, so the facts about them that the proofs need  *)
(* come first.                                                             *)
(***************************************************************************)
EXTENDS Reports, FiniteSetTheorems, SequenceTheorems, WellFoundedInduction, TLAPS

\* Induction, as facts about sets of numbers
LEMMA LeastOf ==
    ASSUME NEW T, T \subseteq Nat, T # {}
    PROVE  \E m \in T : \A n \in T : m <= n
<1> DEFINE Less == {p \in Nat \X Nat : p[1] < p[2]}
<1>1. IsWellFoundedOn(Less, Nat)
  BY NatLessThanWellFounded, Zenon DEF OpToRel
<1>2. PICK m \in T : \A n \in T : <<n, m>> \notin Less
  <2> HIDE DEF Less
  <2> QED
    BY <1>1, WFMin
<1>3. ASSUME NEW n \in T PROVE m <= n
  <2>1. <<n, m>> \notin Less /\ n \in Nat /\ m \in Nat
    BY <1>2
  <2> QED
    BY <2>1
<1> QED
  BY <1>3

LEMMA EveryNat ==
    ASSUME NEW T, 0 \in T, \A n \in Nat : n \in T => n + 1 \in T
    PROVE  Nat \subseteq T
<1>1. ASSUME NEW m \in Nat \ T, \A n \in Nat \ T : m <= n PROVE FALSE
  <2>1. m # 0 /\ m - 1 \in Nat /\ (m - 1) + 1 = m
    BY <1>1
  <2> QED
    BY <1>1, <2>1
<1> QED
  BY <1>1, LeastOf

-----------------------------------------------------------------------------
(* Sums.  SumFunction folds over a recursive function on the subsets of    *)
(* the domain, taking some element out at each step; which one makes no    *)
(* difference.                                                             *)

Summable(f) == IsFiniteSet(DOMAIN f) /\ \A x \in DOMAIN f : f[x] \in Nat

Chosen(s) == CHOOSE x \in s : TRUE

\* One step of the fold
Step(f, sum, s) == IF s = {} THEN 0 ELSE f[Chosen(s)] + sum[s \ {Chosen(s)}]

Folds(sum, f) == sum = [s \in SUBSET DOMAIN f |-> Step(f, sum, s)]

LEMMA SubsetsOf ==
    ASSUME NEW D, IsFiniteSet(D), NEW s \in SUBSET D
    PROVE  /\ IsFiniteSet(s) /\ Cardinality(s) \in Nat /\ Cardinality(s) <= Cardinality(D)
           /\ Cardinality(s) = 0 <=> s = {}
           /\ \A x \in s : /\ s \ {x} \in SUBSET D
                           /\ Cardinality(s \ {x}) = Cardinality(s) - 1
  BY FS_Subset, FS_CardinalityType, FS_RemoveElement, FS_EmptySet

\* The recursive function exists: it can be built for ever larger subsets
LEMMA FoldExists ==
    ASSUME NEW f, Summable(f)
    PROVE  \E sum \in [SUBSET DOMAIN f -> Nat] : Folds(sum, f)
<1> DEFINE D == DOMAIN f
           UpTo(sum, n) == \A s \in SUBSET D : Cardinality(s) <= n => sum[s] = Step(f, sum, s)
           T == {n \in Nat : \E sum \in [SUBSET D -> Nat] : UpTo(sum, n)}
<1>0. IsFiniteSet(D) /\ Cardinality(D) \in Nat /\ \A x \in D : f[x] \in Nat
  BY FS_CardinalityType DEF Summable
<1>1. 0 \in T
  <2> DEFINE zero == [s \in SUBSET D |-> 0]
  <2>1. zero \in [SUBSET D -> Nat]
    OBVIOUS
  <2>2. ASSUME NEW s \in SUBSET D, Cardinality(s) <= 0 PROVE zero[s] = Step(f, zero, s)
    <3>1. s = {}
      BY <1>0, <2>2, SubsetsOf
    <3> QED
      BY <3>1 DEF Step
  <2> HIDE DEF zero
  <2> QED
    BY <2>1, <2>2
<1>2. ASSUME NEW n \in Nat, n \in T PROVE n + 1 \in T
  <2>1. PICK sum \in [SUBSET D -> Nat] : UpTo(sum, n)
    BY <1>2
  <2> DEFINE more == [s \in SUBSET D |-> Step(f, sum, s)]
  <2>2. ASSUME NEW s \in SUBSET D, s # {}
        PROVE  Chosen(s) \in s /\ f[Chosen(s)] \in Nat /\ s \ {Chosen(s)} \in SUBSET D
    BY <1>0, <2>2 DEF Chosen
  <2>3. more \in [SUBSET D -> Nat]
    <3>1. ASSUME NEW s \in SUBSET D PROVE Step(f, sum, s) \in Nat
      <4>1. CASE s = {}
        BY <4>1 DEF Step
      <4>2. CASE s # {}
        <5>1. sum[s \ {Chosen(s)}] \in Nat
          BY <2>2, <4>2
        <5> QED
          BY <2>2, <4>2, <5>1 DEF Step
      <4> QED
        BY <4>1, <4>2
    <3> QED
      BY <3>1
  <2>4. ASSUME NEW s \in SUBSET D, Cardinality(s) <= n + 1 PROVE more[s] = Step(f, more, s)
    <3>1. CASE s = {}
      BY <3>1 DEF Step
    <3>2. CASE s # {}
      <4> DEFINE x == Chosen(s)
      <4>1. x \in s /\ s \ {x} \in SUBSET D
        BY <2>2, <3>2
      <4>2. Cardinality(s \ {x}) <= n
        BY <1>0, <2>4, <4>1, SubsetsOf
      <4>3. sum[s \ {x}] = Step(f, sum, s \ {x}) /\ more[s \ {x}] = Step(f, sum, s \ {x})
        BY <2>1, <4>1, <4>2
      <4> QED
        BY <3>2, <4>1, <4>3 DEF Step
    <3> QED
      BY <3>1, <3>2
  <2>5. UpTo(more, n + 1)
    BY <2>4
  <2> HIDE DEF more, UpTo
  <2> QED
    BY <2>3, <2>5
<1>3. Cardinality(D) \in T
  <2> HIDE DEF T
  <2> QED
    BY <1>0, <1>1, <1>2, EveryNat
<1>4. PICK sum \in [SUBSET D -> Nat] : UpTo(sum, Cardinality(D))
  BY <1>3
<1>5. \A s \in SUBSET D : sum[s] = Step(f, sum, s)
  BY <1>0, <1>4, SubsetsOf
<1>6. sum = [s \in SUBSET D |-> Step(f, sum, s)]
  BY <1>5
<1> QED
  BY <1>6 DEF Folds

\* Every element may be the one taken out first
LEMMA AnyFirst ==
    ASSUME NEW f, Summable(f), NEW sum \in [SUBSET DOMAIN f -> Nat], Folds(sum, f)
    PROVE  /\ sum[{}] = 0
           /\ \A s \in SUBSET DOMAIN f : \A x \in s : sum[s] = f[x] + sum[s \ {x}]
<1> DEFINE D == DOMAIN f
           OK(s) == \A x \in s : sum[s] = f[x] + sum[s \ {x}]
           T == {n \in Nat : \A s \in SUBSET D : Cardinality(s) = n => OK(s)}
<1>0. IsFiniteSet(D) /\ \A x \in D : f[x] \in Nat
  BY DEF Summable
<1>1. \A s \in SUBSET D : sum[s] = Step(f, sum, s)
  BY Zenon DEF Folds
<1>2. 0 \in T
  <2>1. ASSUME NEW s \in SUBSET D, Cardinality(s) = 0 PROVE OK(s)
    BY <1>0, <2>1, SubsetsOf
  <2> QED
    BY <2>1
<1>3. ASSUME NEW n \in Nat, n \in T PROVE n + 1 \in T
  <2>1. ASSUME NEW s \in SUBSET D, Cardinality(s) = n + 1, NEW x \in s
        PROVE  sum[s] = f[x] + sum[s \ {x}]
    <3> DEFINE y == Chosen(s)
    <3>1. y \in s /\ s # {}
      BY DEF Chosen
    <3>2. sum[s] = f[y] + sum[s \ {y}]
      BY <1>1, <3>1 DEF Step
    <3> HIDE DEF y
    <3>3. CASE x = y
      BY <3>2, <3>3
    <3>4. CASE x # y
      <4>1. /\ s \ {x} \in SUBSET D /\ s \ {y} \in SUBSET D
            /\ Cardinality(s \ {x}) = n /\ Cardinality(s \ {y}) = n
        BY <1>0, <2>1, <3>1, SubsetsOf
      <4>2. OK(s \ {x}) /\ OK(s \ {y})
        BY <1>3, <4>1
      <4>3. x \in s \ {y} /\ y \in s \ {x} /\ (s \ {x}) \ {y} = (s \ {y}) \ {x}
        BY <3>1, <3>4
      <4> DEFINE r == sum[(s \ {x}) \ {y}]
      <4>4. sum[s \ {x}] = f[y] + r /\ sum[s \ {y}] = f[x] + r
        BY <4>2, <4>3
      <4>5. r \in Nat /\ f[x] \in Nat /\ f[y] \in Nat
        BY <1>0, <2>1, <3>1
      <4> HIDE DEF r
      <4> QED
        BY <3>2, <4>4, <4>5
    <3> QED
      BY <3>3, <3>4
  <2> QED
    BY <2>1
<1>4. ASSUME NEW s \in SUBSET D PROVE OK(s)
  <2>1. Cardinality(s) \in Nat
    BY <1>0, SubsetsOf
  <2>2. Cardinality(s) \in T
    <3> HIDE DEF T
    <3> QED
      BY <1>2, <1>3, <2>1, EveryNat
  <2> QED
    BY <2>2
<1>5. sum[{}] = 0
  BY <1>1 DEF Step
<1> QED
  BY <1>4, <1>5

\* There is only one
LEMMA FoldUnique ==
    ASSUME NEW f, Summable(f), NEW sum, NEW sum2, Folds(sum, f), Folds(sum2, f)
    PROVE  sum = sum2
<1> DEFINE D == DOMAIN f
           T == {n \in Nat : \A s \in SUBSET D : Cardinality(s) = n => sum[s] = sum2[s]}
<1>0. IsFiniteSet(D)
  BY DEF Summable
<1>1. /\ \A s \in SUBSET D : sum[s] = Step(f, sum, s)
      /\ \A s \in SUBSET D : sum2[s] = Step(f, sum2, s)
  BY Zenon DEF Folds
<1>2. 0 \in T
  <2>1. ASSUME NEW s \in SUBSET D, Cardinality(s) = 0 PROVE sum[s] = sum2[s]
    BY <1>0, <1>1, <2>1, SubsetsOf DEF Step
  <2> QED
    BY <2>1
<1>3. ASSUME NEW n \in Nat, n \in T PROVE n + 1 \in T
  <2>1. ASSUME NEW s \in SUBSET D, Cardinality(s) = n + 1 PROVE sum[s] = sum2[s]
    <3> DEFINE x == Chosen(s)
    <3>1. s # {}
      BY <1>0, <2>1, SubsetsOf
    <3>2. x \in s
      BY <3>1 DEF Chosen
    <3>3. s \ {x} \in SUBSET D /\ Cardinality(s \ {x}) = n
      BY <1>0, <2>1, <3>2, SubsetsOf
    <3>4. sum[s \ {x}] = sum2[s \ {x}]
      BY <1>3, <3>3
    <3> QED
      BY <1>1, <3>1, <3>4 DEF Step
  <2> QED
    BY <2>1
<1>4. ASSUME NEW s \in SUBSET D PROVE sum[s] = sum2[s]
  <2>1. Cardinality(s) \in Nat
    BY <1>0, SubsetsOf
  <2>2. Cardinality(s) \in T
    <3> HIDE DEF T
    <3> QED
      BY <1>2, <1>3, <2>1, EveryNat
  <2> QED
    BY <2>2
<1>5. /\ sum = [s \in SUBSET D |-> sum[s]]
      /\ sum2 = [s \in SUBSET D |-> sum2[s]]
  BY Zenon DEF Folds
<1> QED
  BY <1>4, <1>5

LEMMA SumIs ==
    ASSUME NEW f, Summable(f), NEW sum, Folds(sum, f)
    PROVE  SumFunction(f) = sum[DOMAIN f]
<1>1. PICK chosen : Folds(chosen, f) /\ SumFunction(f) = chosen[DOMAIN f]
  BY DEF Folds, Step, Chosen, SumFunction, SumFunctionOnSet, FoldFunctionOnSet, MapThenFoldSet
<1> QED
  BY <1>1, FoldUnique

\* The three facts that sums are computed with
LEMMA SumEmpty ==
    ASSUME NEW f, DOMAIN f = {}
    PROVE  SumFunction(f) = 0
<1>1. Summable(f)
  BY FS_EmptySet DEF Summable
<1>2. PICK sum \in [SUBSET DOMAIN f -> Nat] : Folds(sum, f)
  BY <1>1, FoldExists
<1> QED
  BY <1>1, <1>2, AnyFirst, SumIs

LEMMA SumNat ==
    ASSUME NEW f, Summable(f)
    PROVE  SumFunction(f) \in Nat
<1>1. PICK sum \in [SUBSET DOMAIN f -> Nat] : Folds(sum, f)
  BY FoldExists
<1> QED
  BY <1>1, SumIs

Without(f, x) == [y \in DOMAIN f \ {x} |-> f[y]]

LEMMA SumRest ==
    ASSUME NEW f, Summable(f), NEW x \in DOMAIN f
    PROVE  /\ Summable(Without(f, x))
           /\ SumFunction(f) = f[x] + SumFunction(Without(f, x))
<1> DEFINE D == DOMAIN f
           g == Without(f, x)
<1>0. DOMAIN g = D \ {x} /\ \A y \in D \ {x} : g[y] = f[y]
  BY DEF Without
<1>1. Summable(g)
  BY <1>0, FS_RemoveElement DEF Summable
<1>2. PICK sum \in [SUBSET D -> Nat] : Folds(sum, f)
  BY FoldExists
<1> DEFINE rest == [s \in SUBSET (D \ {x}) |-> sum[s]]
<1>3. ASSUME NEW s \in SUBSET (D \ {x}) PROVE rest[s] = Step(g, rest, s)
  <2>1. s \in SUBSET D /\ sum[s] = Step(f, sum, s)
    BY <1>2, Zenon DEF Folds
  <2>2. CASE s = {}
    BY <2>1, <2>2 DEF Step
  <2>3. CASE s # {}
    <3>1. Chosen(s) \in s
      BY <2>3 DEF Chosen
    <3>2. g[Chosen(s)] = f[Chosen(s)] /\ rest[s \ {Chosen(s)}] = sum[s \ {Chosen(s)}]
      BY <1>0, <3>1
    <3> HIDE DEF g
    <3> QED
      BY <2>1, <2>3, <3>2 DEF Step
  <2> QED
    BY <2>2, <2>3
<1>4. Folds(rest, g)
  <2>1. rest = [s \in SUBSET (D \ {x}) |-> Step(g, rest, s)]
    <3>1. rest = [s \in SUBSET (D \ {x}) |-> rest[s]]
      OBVIOUS
    <3> HIDE DEF rest, g
    <3> QED
      BY <1>3, <3>1
  <2> HIDE DEF rest, g
  <2> QED
    BY <1>0, <2>1, Zenon DEF Folds
<1>5. SumFunction(g) = sum[D \ {x}]
  <2>1. SumFunction(g) = rest[DOMAIN g]
    <3> HIDE DEF g, rest
    <3> QED
      BY <1>1, <1>4, SumIs
  <2> QED
    BY <1>0, <2>1
<1>6. SumFunction(f) = sum[D] /\ sum[D] = f[x] + sum[D \ {x}]
  BY <1>2, SumIs, AnyFirst
<1> QED
  BY <1>1, <1>5, <1>6

\* If no summand is more than a bound, the sum is not more than that often
LEMMA SumBound ==
    ASSUME NEW S, IsFiniteSet(S), NEW f \in [S -> Nat], NEW k \in Nat, NEW b \in Nat,
           \A x \in S : f[x] * k <= b
    PROVE  SumFunction(f) * k <= Cardinality(S) * b
<1> DEFINE Part(s) == [y \in s |-> f[y]]
           T == {n \in Nat : \A s \in SUBSET S :
                                Cardinality(s) = n => SumFunction(Part(s)) * k <= n * b}
<1>1. 0 \in T
  <2>1. ASSUME NEW s \in SUBSET S, Cardinality(s) = 0
        PROVE  SumFunction(Part(s)) * k <= 0 * b
    <3>1. DOMAIN Part(s) = {}
      BY <2>1, SubsetsOf
    <3> HIDE DEF Part
    <3> QED
      BY <3>1, SumEmpty
  <2> QED
    BY <2>1
<1>2. ASSUME NEW n \in Nat, n \in T PROVE n + 1 \in T
  <2>1. ASSUME NEW s \in SUBSET S, Cardinality(s) = n + 1
        PROVE  SumFunction(Part(s)) * k <= (n + 1) * b
    <3>1. PICK x \in s : TRUE
      BY <2>1, SubsetsOf
    <3>2. s \ {x} \in SUBSET S /\ Cardinality(s \ {x}) = n
      BY <2>1, SubsetsOf
    <3>3. /\ Without(Part(s), x) = Part(s \ {x})
          /\ x \in DOMAIN Part(s) /\ Part(s)[x] = f[x]
      BY DEF Without
    <3>4. Summable(Part(s))
      BY SubsetsOf DEF Summable
    <3> HIDE DEF Part
    <3>5. /\ SumFunction(Part(s)) = f[x] + SumFunction(Part(s \ {x}))
          /\ SumFunction(Part(s \ {x})) \in Nat
      BY <3>3, <3>4, SumRest, SumNat
    <3>6. SumFunction(Part(s \ {x})) * k <= n * b
      BY <1>2, <3>2
    <3> DEFINE r == SumFunction(Part(s \ {x}))
    <3>7. f[x] \in Nat /\ f[x] * k <= b /\ r \in Nat
      BY <3>5
    <3>8. SumFunction(Part(s)) = f[x] + r /\ r * k <= n * b
      BY <3>5, <3>6
    <3> HIDE DEF r
    <3>9. (f[x] + r) * k = f[x] * k + r * k /\ (n + 1) * b = n * b + b
      BY <3>7
    <3>10. f[x] * k \in Nat /\ r * k \in Nat /\ n * b \in Nat
      BY <3>7
    <3> QED
      BY <3>7, <3>8, <3>9, <3>10
  <2> HIDE DEF Part
  <2> QED
    BY <2>1
<1>3. f = Part(S)
  OBVIOUS
<1>4. Cardinality(S) \in Nat
  BY FS_CardinalityType
<1>5. Cardinality(S) \in T
  <2> HIDE DEF T
  <2> QED
    BY <1>1, <1>2, <1>4, EveryNat
<1> QED
  BY <1>3, <1>5

-----------------------------------------------------------------------------
(* mergeAndSum: the sorted slice and the loop over it.                     *)

Interval == {i \in [start : Nat, end : Nat] : i.start < i.end}

LEMMA Enumerations ==
    ASSUME NEW S, IsFiniteSet(S), NEW q \in SetToSeqs(S)
    PROVE  /\ q \in Seq(S) /\ Len(q) = Cardinality(S)
           /\ \A x : x \in S <=> \E i \in 1..Len(q) : x = q[i]
<1> DEFINE n == Cardinality(S)
<1>1. n \in Nat /\ q \in [1..n -> S] /\ \A i, j \in 1..n : i # j => q[i] # q[j]
  BY FS_CardinalityType DEF SetToSeqs
<1>2. q \in Seq(S) /\ Len(q) = n
  BY <1>1
<1>3. IsFiniteSet(1..n) /\ Cardinality(1..n) = n
  BY <1>1, FS_Interval
<1>4. q \in Injection(1..n, S)
  BY <1>1 DEF Injection, IsInjective
<1>5. q \in Surjection(1..n, S)
  BY <1>3, <1>4, FS_Injection
<1> QED
  BY <1>1, <1>2, <1>5 DEF Surjection

LEMMA SortedExists ==
    ASSUME NEW S \in SUBSET Interval, IsFiniteSet(S)
    PROVE  SortedByStart(S) # {}
<1> DEFINE T == {n \in Nat : \A s \in SUBSET S : Cardinality(s) = n => SortedByStart(s) # {}}
<1>1. 0 \in T
  <2>1. ASSUME NEW s \in SUBSET S, Cardinality(s) = 0 PROVE SortedByStart(s) # {}
    <3> DEFINE q == [i \in 1..0 |-> i]
    <3>1. s = {}
      BY <2>1, SubsetsOf
    <3>2. q \in [1..0 -> s] /\ Len(q) = 0
      OBVIOUS
    <3> HIDE DEF q
    <3>3. q \in SortedByStart(s)
      BY <2>1, <3>2 DEF SortedByStart, SetToSeqs
    <3> QED
      BY <3>3
  <2> QED
    BY <2>1
<1>2. ASSUME NEW n \in Nat, n \in T PROVE n + 1 \in T
  <2>1. ASSUME NEW s \in SUBSET S, Cardinality(s) = n + 1 PROVE SortedByStart(s) # {}
    <3>1. PICK x \in s : \A y \in s : x.start <= y.start
      <4> DEFINE B == {y.start : y \in s}
      <4>1. B \subseteq Nat
        BY DEF Interval
      <4>2. B # {}
        <5>1. s # {}
          BY <2>1, SubsetsOf
        <5> QED
          BY <5>1
      <4>3. PICK m \in B : \A b \in B : m <= b
        <5> HIDE DEF B
        <5> QED
          BY <4>1, <4>2, LeastOf
      <4> QED
        BY <4>3
    <3>2. s \ {x} \in SUBSET S /\ Cardinality(s \ {x}) = n /\ IsFiniteSet(s \ {x})
      BY <2>1, SubsetsOf
    <3>3. PICK q \in SortedByStart(s \ {x}) : TRUE
      BY <1>2, <3>2
    <3> DEFINE p == [j \in 1..(n + 1) |-> IF j = 1 THEN x ELSE q[j - 1]]
    <3>4. /\ q \in [1..n -> s \ {x}] /\ Len(q) = n
          /\ \A i, j \in 1..n : i # j => q[i] # q[j]
          /\ \A i, j \in 1..n : i < j => q[i].start <= q[j].start
      <4>1. q \in [1..n -> s \ {x}] /\ \A i, j \in 1..n : i # j => q[i] # q[j]
        BY <3>2, <3>3 DEF SortedByStart, SetToSeqs
      <4>2. Len(q) = n
        BY <4>1
      <4> QED
        BY <3>3, <4>1, <4>2 DEF SortedByStart
    <3>5. p \in [1..(n + 1) -> s] /\ Len(p) = n + 1
      BY <3>4
    <3>6. ASSUME NEW j \in 1..(n + 1), j # 1 PROVE p[j] = q[j - 1] /\ j - 1 \in 1..n
      BY <3>6
    <3>7. p[1] = x
      OBVIOUS
    <3> HIDE DEF p
    <3>8. ASSUME NEW i \in 1..(n + 1), NEW j \in 1..(n + 1), i # j PROVE p[i] # p[j]
      <4>1. CASE i = 1
        BY <3>4, <3>6, <3>7, <3>8, <4>1
      <4>2. CASE j = 1
        BY <3>4, <3>6, <3>7, <3>8, <4>2
      <4>3. CASE i # 1 /\ j # 1
        BY <3>4, <3>6, <3>8, <4>3
      <4> QED
        BY <4>1, <4>2, <4>3
    <3>9. ASSUME NEW i \in 1..(n + 1), NEW j \in 1..(n + 1), i < j
          PROVE  p[i].start <= p[j].start
      <4>1. CASE i = 1
        BY <3>1, <3>5, <3>7, <4>1
      <4>2. CASE i # 1
        <5>1. j # 1 /\ i - 1 < j - 1
          BY <3>9, <4>2
        <5> QED
          BY <3>4, <3>6, <4>2, <5>1
      <4> QED
        BY <4>1, <4>2
    <3>10. p \in SortedByStart(s)
      BY <2>1, <3>5, <3>8, <3>9 DEF SortedByStart, SetToSeqs
    <3> QED
      BY <3>10
  <2> QED
    BY <2>1
<1>3. Cardinality(S) \in Nat
  BY FS_CardinalityType
<1>4. Cardinality(S) \in T
  <2> HIDE DEF T
  <2> QED
    BY <1>1, <1>2, <1>3, EveryNat
<1> QED
  BY <1>4

\* One turn of the loop, the first one included
Turn(q, run, k) ==
    IF k = 1 THEN [total |-> 0, start |-> q[1].start, end |-> q[1].end]
    ELSE MergeNext(run[k - 1], q[k])

LEMMA RunsAre ==
    ASSUME NEW q, Len(q) \in Nat, NEW k \in 1..Len(q)
    PROVE  Runs(q)[k] = Turn(q, Runs(q), k)
<1> DEFINE N == 1..Len(q)
           UpTo(run, n) == run = [j \in N |-> run[j]] /\ \A j \in N : j <= n => run[j] = Turn(q, run, j)
           T == {n \in Nat : \E run : UpTo(run, n)}
<1>1. 0 \in T
  <2>1. UpTo([j \in N |-> 0], 0)
    OBVIOUS
  <2> HIDE DEF UpTo
  <2> QED
    BY <2>1
<1>2. ASSUME NEW n \in Nat, n \in T PROVE n + 1 \in T
  <2>1. PICK run : UpTo(run, n)
    BY <1>2
  <2> DEFINE more == [j \in N |-> Turn(q, run, j)]
  <2>2. ASSUME NEW j \in N, j <= n + 1 PROVE more[j] = Turn(q, more, j)
    <3>1. more[j] = Turn(q, run, j)
      OBVIOUS
    <3>2. CASE j = 1
      BY <3>1, <3>2 DEF Turn
    <3>3. CASE j # 1
      <4>1. j - 1 \in N /\ j - 1 <= n
        BY <2>2, <3>3
      <4>2. more[j - 1] = Turn(q, run, j - 1) /\ run[j - 1] = Turn(q, run, j - 1)
        BY <2>1, <4>1
      <4> HIDE DEF more
      <4> QED
        BY <3>1, <3>3, <4>2 DEF Turn
    <3> QED
      BY <3>2, <3>3
  <2>3. more = [j \in N |-> more[j]]
    OBVIOUS
  <2>4. UpTo(more, n + 1)
    <3> HIDE DEF more
    <3> QED
      BY <2>2, <2>3
  <2> HIDE DEF more, UpTo
  <2> QED
    BY <2>4
<1>3. Len(q) \in T
  <2> HIDE DEF T
  <2> QED
    BY <1>1, <1>2, EveryNat
<1>4. PICK run : UpTo(run, Len(q))
  BY <1>3
<1>5. run = [j \in N |-> Turn(q, run, j)]
  BY <1>4
<1>6. PICK r : r = [j \in N |-> Turn(q, r, j)] /\ Runs(q) = r
  BY <1>5 DEF Runs, Turn
<1>7. r[k] = Turn(q, r, k)
  BY <1>6, Zenon
<1> QED
  BY <1>6, <1>7

-----------------------------------------------------------------------------
(* What the loop has after each interval.                                  *)

Run == [total : Nat, start : Nat, end : Nat]

LEMMA Seconds ==
    ASSUME NEW n \in Nat
    PROVE  WholeSeconds(n) \in Nat /\ WholeSeconds(n) * Second <= n
  BY TimeAssumption DEF WholeSeconds

\* A slice as the loop reads it
Sorted(q) ==
    /\ q \in Seq(Interval) /\ Len(q) \in Nat \ {0}
    /\ \A i, j \in 1..Len(q) : i < j => q[i].start <= q[j].start

\* The seconds so far lie between the first start and the run's
BoundedRun(run, from) ==
    /\ run \in Run /\ from <= run.start /\ run.start < run.end
    /\ run.total * Second <= run.start - from

LEMMA BoundedStep ==
    ASSUME NEW run, NEW from \in Nat, BoundedRun(run, from),
           NEW i \in Interval, run.start <= i.start
    PROVE  /\ BoundedRun(MergeNext(run, i), from)
           /\ MergeNext(run, i).start <= i.start
           /\ MergeNext(run, i).end = FurthestEnd(run.end, i)
<1> DEFINE next == MergeNext(run, i)
<1>0. /\ run \in Run /\ run.total \in Nat /\ run.start \in Nat /\ run.end \in Nat
      /\ i.start \in Nat /\ i.end \in Nat /\ i.start < i.end
  BY DEF BoundedRun, Run, Interval
<1>1. CASE i.start > run.end
  <2> DEFINE n == run.end - run.start
             w == WholeSeconds(n)
  <2>1. n \in Nat /\ from + run.total * Second <= run.start
    BY <1>0, TimeAssumption DEF BoundedRun
  <2>2. w \in Nat /\ w * Second <= n
    BY <2>1, Seconds
  <2>3. next = [total |-> run.total + w, start |-> i.start, end |-> i.end]
    BY <1>1 DEF MergeNext
  <2> HIDE DEF w, next
  <2>4. (run.total + w) * Second = run.total * Second + w * Second
    BY <1>0, <2>2, TimeAssumption
  <2>5. run.total * Second \in Nat /\ w * Second \in Nat
    BY <1>0, <2>2, TimeAssumption
  <2>6. (run.total + w) * Second <= i.start - from
    BY <1>0, <1>1, <2>1, <2>2, <2>4, <2>5
  <2>7. next \in Run /\ next.start = i.start /\ next.end = i.end /\ next.total = run.total + w
    BY <1>0, <2>2, <2>3 DEF Run
  <2>8. FurthestEnd(run.end, i) = i.end
    BY <1>0, <1>1 DEF FurthestEnd
  <2>9. BoundedRun(next, from)
    BY <1>0, <1>1, <2>6, <2>7 DEF BoundedRun
  <2> QED
    BY <1>0, <2>7, <2>8, <2>9 DEF next
<1>2. CASE ~(i.start > run.end)
  <2> DEFINE e == FurthestEnd(run.end, i)
  <2>1. e \in Nat /\ run.end <= e
    BY <1>0 DEF FurthestEnd
  <2>2. next = [run EXCEPT !.end = e]
    BY <1>2 DEF MergeNext
  <2> HIDE DEF e, next
  <2>3. next \in Run /\ next.start = run.start /\ next.end = e /\ next.total = run.total
    BY <1>0, <2>1, <2>2 DEF Run
  <2>4. BoundedRun(next, from)
    BY <1>0, <2>1, <2>3 DEF BoundedRun
  <2> QED
    BY <2>3, <2>4 DEF e, next
<1> QED
  BY <1>1, <1>2

-----------------------------------------------------------------------------
(* Instants and stretches.                                                 *)

Span(i) == {t \in Nat : i.start <= t /\ t < i.end}

StretchSeconds(C, s) == WholeSeconds(Cardinality(Stretch(C, s)))

\* Two sets of instants that agree up to an instant neither has
LEMMA SameStretch ==
    ASSUME NEW C \in SUBSET Nat, NEW D \in SUBSET Nat, NEW e \in Int, e \notin C, e \notin D,
           \A t \in Nat : t < e => (t \in C <=> t \in D),
           NEW s \in Nat, s <= e
    PROVE  Stretch(C, s) = Stretch(D, s)
<1>1. ASSUME NEW A \in SUBSET Nat, NEW B \in SUBSET Nat, e \notin A,
             \A t \in Nat : t < e => (t \in A <=> t \in B), NEW t \in Stretch(A, s)
      PROVE  t \in Stretch(B, s)
  <2>1. t \in Nat /\ t \in A /\ s <= t /\ s..t \subseteq A
    BY <1>1 DEF Stretch
  <2>2. t < e
    BY <1>1, <2>1
  <2>3. s..t \subseteq B
    BY <1>1, <2>1, <2>2
  <2>4. t \in B
    BY <1>1, <2>1, <2>2
  <2> QED
    BY <2>1, <2>3, <2>4 DEF Stretch
<1>2. Stretch(C, s) \subseteq Stretch(D, s)
  BY <1>1
<1>3. Stretch(D, s) \subseteq Stretch(C, s)
  BY <1>1
<1> QED
  BY <1>2, <1>3

\* A stretch that nothing follows is an interval
LEMMA WholeStretch ==
    ASSUME NEW C \in SUBSET Nat, NEW a \in Nat, NEW b \in Nat, a < b,
           a..(b - 1) \subseteq C, b \notin C
    PROVE  StretchSeconds(C, a) = WholeSeconds(b - a)
<1>1. Stretch(C, a) \subseteq a..(b - 1)
  <2>1. ASSUME NEW t \in Stretch(C, a) PROVE t \in a..(b - 1)
    <3>1. t \in Nat /\ a <= t /\ a..t \subseteq C
      BY <2>1 DEF Stretch
    <3>2. ~(b <= t)
      BY <3>1
    <3> QED
      BY <3>1, <3>2
  <2> QED
    BY <2>1
<1>2. a..(b - 1) \subseteq Stretch(C, a)
  <2>1. ASSUME NEW t \in a..(b - 1) PROVE t \in Stretch(C, a)
    <3>1. a..t \subseteq C /\ t \in C /\ a <= t
      BY <2>1
    <3> QED
      BY <3>1 DEF Stretch
  <2> QED
    BY <2>1
<1>3. Cardinality(a..(b - 1)) = b - a
  BY FS_Interval
<1> QED
  BY <1>1, <1>2, <1>3 DEF StretchSeconds

\* Every unbroken stretch but the run's is in the total
ExactRun(run, C) ==
    /\ run \in Run /\ C \in SUBSET Nat
    /\ run.start < run.end
    /\ run.start \in Starts(C) /\ run.start..(run.end - 1) \subseteq C
    /\ \A t \in C : t < run.end
    /\ run.total = SumFunction([s \in Starts(C) \ {run.start} |-> StretchSeconds(C, s)])

LEMMA StretchesSummable ==
    ASSUME NEW C \in SUBSET Nat, NEW n \in Nat, \A t \in C : t < n, NEW A \in SUBSET C
    PROVE  Summable([s \in A |-> StretchSeconds(C, s)])
<1>0. ASSUME NEW B \in SUBSET C PROVE IsFiniteSet(B)
  <2>1. B \in SUBSET Nat /\ \A t \in B : t <= n
    OBVIOUS
  <2> QED
    BY <2>1, FS_BoundedSetOfNaturals
<1>1. IsFiniteSet(A)
  BY <1>0
<1>2. ASSUME NEW s \in A PROVE StretchSeconds(C, s) \in Nat
  <2>1. Stretch(C, s) \in SUBSET C
    BY DEF Stretch
  <2>2. IsFiniteSet(Stretch(C, s))
    BY <1>0, <2>1
  <2> QED
    BY <2>2, FS_CardinalityType, Seconds DEF StretchSeconds
<1> QED
  BY <1>1, <1>2 DEF Summable

\* When the run ends, the total has every stretch
LEMMA ExactTotal ==
    ASSUME NEW run, NEW C, ExactRun(run, C)
    PROVE  run.total + WholeSeconds(run.end - run.start)
               = SumFunction([s \in Starts(C) |-> StretchSeconds(C, s)])
<1> DEFINE f == [s \in Starts(C) |-> StretchSeconds(C, s)]
<1>0. /\ C \in SUBSET Nat /\ run.start \in Nat /\ run.end \in Nat /\ run.start < run.end
      /\ run.total \in Nat /\ run.end \notin C /\ run.start \in Starts(C)
      /\ run.start..(run.end - 1) \subseteq C /\ \A t \in C : t < run.end
  BY DEF ExactRun, Run
<1>1. Summable(f)
  <2>1. Starts(C) \in SUBSET C
    BY DEF Starts
  <2> QED
    BY <1>0, <2>1, StretchesSummable
<1>2. Without(f, run.start) = [s \in Starts(C) \ {run.start} |-> StretchSeconds(C, s)]
  BY DEF Without
<1>3. f[run.start] = WholeSeconds(run.end - run.start)
  BY <1>0, WholeStretch
<1>4. WholeSeconds(run.end - run.start) \in Nat
  BY <1>0, Seconds
<1>5. run.start \in DOMAIN f
  BY <1>0
<1>6. run.total = SumFunction(Without(f, run.start))
  BY <1>2 DEF ExactRun
<1> HIDE DEF f
<1>7. SumFunction(f) = f[run.start] + SumFunction(Without(f, run.start))
  BY <1>1, <1>5, SumRest
<1> QED
  BY <1>0, <1>3, <1>4, <1>6, <1>7 DEF f

\* An interval of the slice starts no earlier than the run before it
LEMMA ExactStep ==
    ASSUME NEW run, NEW C, ExactRun(run, C), NEW i \in Interval, run.start <= i.start
    PROVE  ExactRun(MergeNext(run, i), C \cup Span(i))
<1> DEFINE D == C \cup Span(i)
           next == MergeNext(run, i)
<1>0. /\ run \in Run /\ run.total \in Nat /\ run.start \in Nat /\ run.end \in Nat
      /\ C \in SUBSET Nat /\ run.start < run.end /\ \A t \in C : t < run.end
      /\ run.start \in C /\ run.start - 1 \notin C /\ run.start..(run.end - 1) \subseteq C
      /\ i.start \in Nat /\ i.end \in Nat /\ i.start < i.end
  BY DEF ExactRun, Run, Interval, Starts
<1>1. D \in SUBSET Nat
  BY <1>0 DEF Span
<1>2. CASE i.start > run.end
  <2>1. next = [total |-> run.total + WholeSeconds(run.end - run.start),
                start |-> i.start, end |-> i.end]
    BY <1>2 DEF MergeNext
  <2>2. WholeSeconds(run.end - run.start) \in Nat
    BY <1>0, Seconds
  <2>3. /\ next \in Run /\ next.start = i.start /\ next.end = i.end
        /\ next.total = run.total + WholeSeconds(run.end - run.start)
    BY <1>0, <2>1, <2>2 DEF Run
  <2>4. Starts(D) = Starts(C) \cup {i.start}
    <3>1. ASSUME NEW t \in Starts(D) PROVE t \in Starts(C) \cup {i.start}
      <4>1. t \in D /\ t - 1 \notin D /\ t \in Nat
        BY <1>1 DEF Starts
      <4>2. CASE t \in C
        BY <4>1, <4>2 DEF Starts
      <4>3. CASE t \in Span(i)
        BY <1>0, <4>1, <4>3 DEF Span
      <4> QED
        BY <4>1, <4>2, <4>3
    <3>2. i.start \in Starts(D)
      <4>1. i.start \in Span(i) /\ i.start - 1 \notin Span(i) /\ i.start - 1 \notin C
        BY <1>0, <1>2 DEF Span
      <4> QED
        BY <4>1 DEF Starts
    <3>3. ASSUME NEW t \in Starts(C) PROVE t \in Starts(D)
      <4>1. t \in C /\ t - 1 \notin C /\ t \in Nat /\ t < run.end
        BY <1>0 DEF Starts
      <4>2. t - 1 \notin Span(i)
        BY <1>0, <1>2, <4>1 DEF Span
      <4> QED
        BY <4>1, <4>2 DEF Starts
    <3> HIDE DEF D
    <3> QED
      BY <3>1, <3>2, <3>3
  <2>5. i.start \notin Starts(C)
    BY <1>0, <1>2 DEF Starts
  <2>6. Starts(D) \ {i.start} = Starts(C)
    BY <2>4, <2>5
  <2>7. ASSUME NEW s \in Starts(C) PROVE StretchSeconds(D, s) = StretchSeconds(C, s)
    <3>1. s \in Nat /\ s <= run.end
      BY <1>0 DEF Starts
    <3>2. run.end \notin C /\ run.end \notin D
      BY <1>0, <1>2 DEF Span
    <3>3. \A t \in Nat : t < run.end => (t \in C <=> t \in D)
      BY <1>0, <1>2 DEF Span
    <3>4. Stretch(C, s) = Stretch(D, s)
      <4> HIDE DEF D
      <4> QED
        BY <1>0, <1>1, <3>1, <3>2, <3>3, SameStretch
    <3> QED
      BY <3>4 DEF StretchSeconds
  <2>8. [s \in Starts(D) \ {i.start} |-> StretchSeconds(D, s)]
            = [s \in Starts(C) |-> StretchSeconds(C, s)]
    <3> HIDE DEF D
    <3> QED
      BY <2>6, <2>7
  <2>9. next.total = SumFunction([s \in Starts(D) \ {next.start} |-> StretchSeconds(D, s)])
    <3> HIDE DEF D, next
    <3> QED
      BY <2>3, <2>8, ExactTotal
  <2>10. next.start..(next.end - 1) \subseteq D
    BY <1>0, <2>3 DEF Span
  <2>11. \A t \in D : t < next.end
    BY <1>0, <1>2, <2>3 DEF Span
  <2> HIDE DEF D, next
  <2>12. ExactRun(next, D)
    BY <1>0, <1>1, <2>3, <2>4, <2>9, <2>10, <2>11 DEF ExactRun
  <2> QED
    BY <2>12 DEF D, next
<1>3. CASE ~(i.start > run.end)
  <2> DEFINE e == FurthestEnd(run.end, i)
  <2>1. e \in Nat /\ run.end <= e /\ i.end <= e /\ e \in {run.end, i.end}
    BY <1>0 DEF FurthestEnd
  <2>2. next = [run EXCEPT !.end = e]
    BY <1>3 DEF MergeNext
  <2> HIDE DEF e
  <2>3. next \in Run /\ next.start = run.start /\ next.end = e /\ next.total = run.total
    BY <1>0, <2>1, <2>2 DEF Run
  <2>4. Starts(D) = Starts(C)
    <3>1. ASSUME NEW t \in Starts(D) PROVE t \in Starts(C)
      <4>1. t \in D /\ t - 1 \notin C /\ t - 1 \notin Span(i) /\ t \in Nat
        BY <1>1 DEF Starts
      <4>2. t \in C
        <5>1. CASE t \in Span(i)
          <6>1. i.start <= t /\ t < i.end /\ ~(i.start <= t - 1)
            BY <1>0, <4>1, <5>1 DEF Span
          <6>2. t = i.start
            BY <1>0, <4>1, <6>1
          <6>3. CASE t < run.end
            BY <1>0, <4>1, <6>2, <6>3
          <6>4. CASE ~(t < run.end)
            <7>1. t = run.end /\ t - 1 \in run.start..(run.end - 1)
              BY <1>0, <1>3, <6>2, <6>4
            <7> QED
              BY <1>0, <4>1, <7>1
          <6> QED
            BY <6>3, <6>4
        <5> QED
          BY <4>1, <5>1
      <4> QED
        BY <4>1, <4>2 DEF Starts
    <3>2. ASSUME NEW t \in Starts(C) PROVE t \in Starts(D)
      <4>1. t \in C /\ t - 1 \notin C /\ t \in Nat /\ t < run.end
        BY <1>0 DEF Starts
      <4>2. t - 1 \notin Span(i)
        <5>1. CASE t - 1 \in Span(i)
          <6>1. run.start <= t - 1 /\ t - 1 \in Nat
            BY <1>0, <4>1, <5>1 DEF Span
          <6>2. t - 1 \in run.start..(run.end - 1)
            BY <1>0, <4>1, <6>1
          <6> QED
            BY <1>0, <4>1, <6>2
        <5> QED
          BY <5>1
      <4> QED
        BY <4>1, <4>2 DEF Starts
    <3> HIDE DEF D
    <3> QED
      BY <3>1, <3>2
  <2>5. ASSUME NEW s \in Starts(C) \ {run.start}
        PROVE  StretchSeconds(D, s) = StretchSeconds(C, s)
    <3> DEFINE b == run.start - 1
    <3>1. s \in Nat /\ s \in C /\ s - 1 \notin C /\ s # run.start /\ s < run.end
      BY <1>0, <2>5 DEF Starts
    <3>2. s <= b
      <4>1. CASE s > run.start
        <5>1. s - 1 \in run.start..(run.end - 1)
          BY <1>0, <3>1, <4>1
        <5> QED
          BY <1>0, <3>1, <5>1
      <4> QED
        BY <1>0, <3>1, <4>1
    <3>3. b \in Int /\ b \notin C /\ b \notin D
      BY <1>0 DEF Span
    <3>4. \A t \in Nat : t < b => (t \in C <=> t \in D)
      BY <1>0 DEF Span
    <3>5. C \in SUBSET Nat /\ D \in SUBSET Nat
      BY <1>0, <1>1
    <3> HIDE DEF b, D
    <3>6. Stretch(C, s) = Stretch(D, s)
      BY <3>1, <3>2, <3>3, <3>4, <3>5, SameStretch
    <3> QED
      BY <3>6 DEF StretchSeconds
  <2>6. [s \in Starts(D) \ {run.start} |-> StretchSeconds(D, s)]
            = [s \in Starts(C) \ {run.start} |-> StretchSeconds(C, s)]
    <3> HIDE DEF D
    <3> QED
      BY <2>4, <2>5
  <2>7. next.total = SumFunction([s \in Starts(D) \ {next.start} |-> StretchSeconds(D, s)])
    <3> HIDE DEF D, next
    <3> QED
      BY <2>3, <2>6 DEF ExactRun
  <2>8. next.start..(next.end - 1) \subseteq D
    <3>1. ASSUME NEW t \in run.start..(e - 1) PROVE t \in D
      <4>1. CASE t < run.end
        BY <1>0, <3>1, <4>1
      <4>2. CASE ~(t < run.end)
        <5>1. t \in Nat /\ i.start <= t /\ t < i.end
          BY <1>0, <1>3, <2>1, <3>1, <4>2
        <5> QED
          BY <5>1 DEF Span
      <4> QED
        BY <4>1, <4>2
    <3> HIDE DEF D, next
    <3> QED
      BY <2>3, <3>1
  <2>9. \A t \in D : t < next.end
    BY <1>0, <2>1, <2>3 DEF Span
  <2>10. run.start < e /\ run.start \in Starts(C)
    BY <1>0, <2>1 DEF ExactRun
  <2> HIDE DEF D, next
  <2>11. ExactRun(next, D)
    BY <1>1, <2>3, <2>4, <2>7, <2>8, <2>9, <2>10 DEF ExactRun
  <2> QED
    BY <2>11 DEF D, next
<1> QED
  BY <1>2, <1>3

\* What the first k intervals of a slice cover
Covers(q, k) == {t \in Nat : \E i \in 1..k : q[i].start <= t /\ t < q[i].end}

\* The loop's invariant
Loop(q, k) ==
    /\ BoundedRun(Runs(q)[k], q[1].start)
    /\ Runs(q)[k].start <= q[k].start
    /\ ExactRun(Runs(q)[k], Covers(q, k))
    /\ \E i \in 1..k : Runs(q)[k].end = q[i].end

LEMMA SortedFacts ==
    ASSUME NEW q, Sorted(q), NEW k \in 1..Len(q)
    PROVE  /\ Len(q) \in Nat /\ 1 \in 1..Len(q)
           /\ q[k] \in Interval /\ q[k].start \in Nat /\ q[k].end \in Nat
           /\ q[k].start < q[k].end
           /\ q[1].start <= q[k].start
<1>1. Len(q) \in Nat /\ 1 \in 1..Len(q) /\ \A j \in 1..Len(q) : q[j] \in Interval
  BY DEF Sorted
<1>2. q[k].start \in Nat /\ q[k].end \in Nat /\ q[k].start < q[k].end
  BY <1>1 DEF Interval
<1>3. 1 < k => q[1].start <= q[k].start
  BY <1>1 DEF Sorted
<1> QED
  BY <1>1, <1>2, <1>3

LEMMA LoopFirst ==
    ASSUME NEW q, Sorted(q)
    PROVE  Loop(q, 1)
<1> DEFINE run == Runs(q)[1]
           C == Covers(q, 1)
           a == q[1].start
           b == q[1].end
<1>0. a \in Nat /\ b \in Nat /\ a < b /\ 1 \in 1..Len(q) /\ Len(q) \in Nat
  BY SortedFacts DEF Sorted
<1>1. run = [total |-> 0, start |-> a, end |-> b]
  BY <1>0, RunsAre DEF Turn
<1>2. C = {t \in Nat : a <= t /\ t < b}
  BY DEF Covers
<1> HIDE DEF run, C, a, b
<1>3. run \in Run /\ run.start = a /\ run.end = b /\ run.total = 0
  BY <1>0, <1>1 DEF Run
<1>4. Starts(C) = {a}
  BY <1>0, <1>2 DEF Starts
<1>5. SumFunction([s \in Starts(C) \ {a} |-> StretchSeconds(C, s)]) = 0
  <2>1. DOMAIN [s \in Starts(C) \ {a} |-> StretchSeconds(C, s)] = {}
    BY <1>4
  <2> QED
    BY <2>1, SumEmpty
<1>6. ExactRun(run, C)
  BY <1>0, <1>2, <1>3, <1>4, <1>5 DEF ExactRun
<1>7. BoundedRun(run, a)
  BY <1>0, <1>3, TimeAssumption DEF BoundedRun
<1>8. \E i \in 1..1 : run.end = q[i].end
  BY <1>3 DEF b
<1> QED
  BY <1>0, <1>3, <1>6, <1>7, <1>8 DEF Loop, run, C, a, b

LEMMA LoopNext ==
    ASSUME NEW q, Sorted(q), NEW k \in 1..Len(q), k + 1 \in 1..Len(q), Loop(q, k)
    PROVE  Loop(q, k + 1)
<1> DEFINE run == Runs(q)[k]
           i == q[k + 1]
           next == Runs(q)[k + 1]
<1>0. /\ i \in Interval /\ i.start \in Nat /\ i.end \in Nat
      /\ q[1].start \in Nat /\ q[k].start <= i.start /\ q[k].start \in Nat
      /\ Len(q) \in Nat
  <2>1. k < k + 1
    OBVIOUS
  <2> QED
    BY <2>1, SortedFacts DEF Sorted
<1>1. next = MergeNext(run, i)
  <2>1. k + 1 # 1 /\ (k + 1) - 1 = k
    OBVIOUS
  <2>2. next = Turn(q, Runs(q), k + 1)
    BY <1>0, RunsAre
  <2> QED
    BY <2>1, <2>2 DEF Turn
<1>2. /\ BoundedRun(run, q[1].start) /\ run.start <= i.start
      /\ ExactRun(run, Covers(q, k))
      /\ run.start \in Nat /\ run.end \in Nat
  <2>1. /\ BoundedRun(run, q[1].start) /\ ExactRun(run, Covers(q, k))
        /\ run.start <= q[k].start
    BY Zenon DEF Loop
  <2>2. run.start \in Nat /\ run.end \in Nat
    BY <2>1 DEF BoundedRun, Run
  <2> HIDE DEF run, i
  <2>3. run.start <= i.start
    BY <1>0, <2>1, <2>2
  <2> QED
    BY <2>1, <2>2, <2>3
<1>3. Covers(q, k + 1) = Covers(q, k) \cup Span(i)
  <2>1. ASSUME NEW t \in Nat
        PROVE  t \in Covers(q, k + 1) <=> t \in Covers(q, k) \/ t \in Span(i)
    <3>1. k \in Nat /\ 1 <= k
      BY <1>0
    <3>2. \A j : j \in 1..(k + 1) <=> j \in 1..k \/ j = k + 1
      BY <3>1
    <3> QED
      BY <3>2, Zenon DEF Covers, Span
  <2>2. /\ Covers(q, k + 1) \subseteq Nat /\ Covers(q, k) \subseteq Nat
        /\ Span(i) \subseteq Nat
    BY DEF Covers, Span
  <2> QED
    BY <2>1, <2>2
<1>4. PICK j \in 1..k : run.end = q[j].end
  BY DEF Loop
<1> HIDE DEF run, i, next
<1>5. /\ BoundedRun(next, q[1].start) /\ next.start <= i.start
      /\ next.end = FurthestEnd(run.end, i)
  BY <1>0, <1>1, <1>2, BoundedStep
<1>6. ExactRun(next, Covers(q, k + 1))
  BY <1>0, <1>1, <1>2, <1>3, ExactStep
<1>7. \E l \in 1..(k + 1) : next.end = q[l].end
  <2>1. next.end = run.end \/ next.end = i.end
    BY <1>5 DEF FurthestEnd
  <2>2. j \in 1..(k + 1) /\ k + 1 \in 1..(k + 1)
    BY <1>0
  <2> QED
    BY <1>4, <2>1, <2>2 DEF i
<1> QED
  BY <1>5, <1>6, <1>7 DEF Loop, next, i

LEMMA LoopAlways ==
    ASSUME NEW q, Sorted(q)
    PROVE  Loop(q, Len(q))
<1> DEFINE T == {k \in Nat : k \in 1..Len(q) => Loop(q, k)}
<1>0. Len(q) \in Nat /\ Len(q) \in 1..Len(q)
  BY DEF Sorted
<1>1. 0 \in T
  OBVIOUS
<1>2. ASSUME NEW k \in Nat, k \in T PROVE k + 1 \in T
  <2>1. CASE k = 0
    BY <2>1, LoopFirst
  <2>2. CASE k # 0
    <3>1. ASSUME k + 1 \in 1..Len(q) PROVE Loop(q, k + 1)
      <4>1. k \in 1..Len(q)
        BY <1>0, <2>2, <3>1
      <4> QED
        BY <1>2, <3>1, <4>1, LoopNext
    <3> QED
      BY <3>1
  <2> QED
    BY <2>1, <2>2
<1>3. Len(q) \in T
  <2> HIDE DEF T
  <2> QED
    BY <1>0, <1>1, <1>2, EveryNat
<1> QED
  BY <1>0, <1>3

-----------------------------------------------------------------------------
(* The result of mergeAndSum.                                              *)

LEMMA MergeFacts ==
    ASSUME NEW S \in SUBSET Interval, IsFiniteSet(S), S # {}
    PROVE  \E q : /\ Sorted(q) /\ \A x : x \in S <=> \E i \in 1..Len(q) : x = q[i]
                  /\ MergeAndSum(S) = Runs(q)[Len(q)].total
                        + WholeSeconds(Runs(q)[Len(q)].end - Runs(q)[Len(q)].start)
<1> DEFINE q == CHOOSE p \in SortedByStart(S) : TRUE
<1>1. q \in SortedByStart(S)
  BY SortedExists
<1>2. MergeAndSum(S) = Runs(q)[Len(q)].total
          + WholeSeconds(Runs(q)[Len(q)].end - Runs(q)[Len(q)].start)
  BY DEF MergeAndSum
<1> HIDE DEF q
<1>3. q \in SetToSeqs(S) /\ \A i, j \in 1..Len(q) : i < j => q[i].start <= q[j].start
  BY <1>1 DEF SortedByStart
<1>4. /\ q \in Seq(S) /\ Len(q) = Cardinality(S)
      /\ \A x : x \in S <=> \E i \in 1..Len(q) : x = q[i]
  BY <1>3, Enumerations
<1>5. q \in Seq(Interval) /\ Len(q) \in Nat \ {0}
  <2>1. Len(q) \in Nat /\ Len(q) # 0
    BY <1>4, SubsetsOf
  <2>2. q \in Seq(Interval)
    BY <1>4
  <2> QED
    BY <2>1, <2>2
<1> QED
  BY <1>2, <1>3, <1>4, <1>5 DEF Sorted

\* mergeAndSum of every finite set of intervals, whatever overlaps, nests or
\* touches and however ties were sorted: each instant that some interval covers
\* counts once, in whole seconds per unbroken stretch of such instants.
THEOREM MergeExact ==
    ASSUME NEW S \in SUBSET Interval, IsFiniteSet(S),
           NEW C \in SUBSET Nat,
           \A t \in Nat : t \in C <=> \E i \in S : i.start <= t /\ t < i.end
    PROVE  MergeAndSum(S) = SumFunction([s \in Starts(C) |-> StretchSeconds(C, s)])
<1>1. CASE S = {}
  <2>1. Starts(C) = {}
    BY <1>1 DEF Starts
  <2>2. SumFunction([s \in Starts(C) |-> StretchSeconds(C, s)]) = 0
    BY <2>1, SumEmpty
  <2> QED
    BY <1>1, <2>2 DEF MergeAndSum
<1>2. CASE S # {}
  <2>1. PICK q : /\ Sorted(q) /\ \A x : x \in S <=> \E i \in 1..Len(q) : x = q[i]
                 /\ MergeAndSum(S) = Runs(q)[Len(q)].total
                        + WholeSeconds(Runs(q)[Len(q)].end - Runs(q)[Len(q)].start)
    BY <1>2, MergeFacts
  <2>2. C = Covers(q, Len(q))
    <3>1. \A t \in Nat : t \in C <=> t \in Covers(q, Len(q))
      BY <2>1, Zenon DEF Covers
    <3>2. Covers(q, Len(q)) \subseteq Nat
      BY DEF Covers
    <3> QED
      BY <3>1, <3>2
  <2>3. ExactRun(Runs(q)[Len(q)], C)
    BY <2>1, <2>2, LoopAlways DEF Loop
  <2> QED
    BY <2>1, <2>3, ExactTotal
<1> QED
  BY <1>1, <1>2

\* perDeviceSeconds, "never contributes more active time to the window than the
\* window itself contains": the merged seconds of intervals that lie in a window
\* are no more than the window's.
THEOREM MergeBound ==
    ASSUME NEW S \in SUBSET Interval, IsFiniteSet(S), NEW a \in Nat, NEW b \in Nat, a <= b,
           \A i \in S : a <= i.start /\ i.end <= b
    PROVE  MergeAndSum(S) \in Nat /\ MergeAndSum(S) * Second <= b - a
<1>1. CASE S = {}
  BY <1>1, TimeAssumption DEF MergeAndSum
<1>2. CASE S # {}
  <2>1. PICK q : /\ Sorted(q) /\ \A x : x \in S <=> \E i \in 1..Len(q) : x = q[i]
                 /\ MergeAndSum(S) = Runs(q)[Len(q)].total
                        + WholeSeconds(Runs(q)[Len(q)].end - Runs(q)[Len(q)].start)
    BY <1>2, MergeFacts
  <2> DEFINE run == Runs(q)[Len(q)]
             n == run.end - run.start
             w == WholeSeconds(n)
  <2>2. /\ BoundedRun(run, q[1].start)
        /\ \E i \in 1..Len(q) : run.end = q[i].end
    BY <2>1, LoopAlways DEF Loop
  <2>3. run.end <= b /\ a <= q[1].start /\ q[1].start \in Nat
    <3>1. \A i \in 1..Len(q) : q[i].end <= b /\ a <= q[i].start
      BY <2>1
    <3> QED
      BY <2>1, <2>2, <3>1, SortedFacts DEF Sorted
  <2>4. MergeAndSum(S) = run.total + w
    BY <2>1
  <2> HIDE DEF run
  <2>5. /\ run.total \in Nat /\ run.start \in Nat /\ run.end \in Nat /\ n \in Nat
        /\ run.total * Second <= run.start - q[1].start
    BY <2>2 DEF BoundedRun, Run
  <2>6. w \in Nat /\ w * Second <= n
    BY <2>5, Seconds
  <2> HIDE DEF w
  <2>7. /\ (run.total + w) * Second = run.total * Second + w * Second
        /\ run.total * Second \in Nat /\ w * Second \in Nat
    BY <2>5, <2>6, TimeAssumption
  <2> QED
    BY <2>3, <2>4, <2>5, <2>6, <2>7
<1> QED
  BY <1>1, <1>2

=============================================================================
