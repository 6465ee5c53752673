---------------------------- MODULE FiguresProofs ----------------------------
(***************************************************************************)
(* Proofs about the figures: what the program reads out of any series of   *)
(* snapshots (Spend), for every input the machine of Figures may choose,   *)
(* reported usage (Usage), for every set of reports, and renewal dates     *)
(* (Calendar), for every day.  The figures are folds, about which the      *)
(* first sections prove the facts that are needed; the last sections are   *)
(* about the two calendars and stand on their own.                         *)
(***************************************************************************)
EXTENDS Figures, Usage, FiniteSetTheorems, SequenceTheorems, WellFoundedInduction, TLAPS

-------------------------------------------------------------------------------
(* Folds and sums over a finite set                                         *)

\* What holds of no least number holds of none: the induction of this module.
LEMMA LeastOfNat ==
  ASSUME NEW T \in SUBSET Nat, T # {}
  PROVE  \E n \in T : \A m \in T : n <= m
<1> DEFINE less == {ss \in Nat \X Nat : ss[1] < ss[2]}
<1>1. IsWellFoundedOn(less, Nat)
  BY NatLessThanWellFounded DEF OpToRel
<1> HIDE DEF less
<1>2. PICK n \in T : \A m \in T : ~(<<m, n>> \in less)
  BY <1>1, WFMin
<1>3. \A m \in T : n <= m
  <2> TAKE m \in T
  <2>1. ~(m < n)
    BY <1>2 DEF less
  <2> QED  BY <2>1
<1> QED  BY <1>3

\* One step of a fold: take the element that pick gives, and apply its function.
FoldStep(base, h, pick, s, g) == IF s = {} THEN base ELSE h[pick[s]][g[s \ {pick[s]}]]

Takes(pick, S) == \A s \in SUBSET S : s # {} => pick[s] \in s

\* What a fold over S is made of, with results in V.
FoldOver(S, V, base, h, pick) == IsFiniteSet(S) /\ base \in V /\ h \in [S -> [V -> V]] /\ Takes(pick, S)

IsFold(g, S, V, base, h, pick) ==
  g \in [SUBSET S -> V] /\ \A s \in SUBSET S : g[s] = FoldStep(base, h, pick, s, g)

\* The function that a fold is defined by exists.
LEMMA FoldExists ==
  ASSUME NEW S, NEW V, NEW base, NEW h, NEW pick, FoldOver(S, V, base, h, pick)
  PROVE  \E g : IsFold(g, S, V, base, h, pick)
<1> USE DEF FoldOver, Takes
<1> DEFINE Small(n) == {s \in SUBSET S : Cardinality(s) <= n}
           Folds(n, g) == \A s \in Small(n) : g[s] = FoldStep(base, h, pick, s, g)
           T == {n \in Nat : ~\E g \in [Small(n) -> V] : Folds(n, g)}
<1>1. \A s \in SUBSET S : IsFiniteSet(s) /\ Cardinality(s) \in Nat
  BY FS_Subset, FS_CardinalityType
<1>2. \A s \in SUBSET S : s # {} => Cardinality(s \ {pick[s]}) = Cardinality(s) - 1 /\ s \ {pick[s]} \in SUBSET S
  BY <1>1, FS_RemoveElement
<1>3. \A s \in SUBSET S : Cardinality(s) = 0 => s = {}
  BY <1>1, FS_EmptySet
<1>4. T = {}
  <2> SUFFICES ASSUME T # {} PROVE FALSE
    OBVIOUS
  <2>1. PICK n \in T : \A m \in T : n <= m
    BY LeastOfNat
  <2>2. n # 0
    <3> SUFFICES ASSUME n = 0 PROVE FALSE
      OBVIOUS
    <3> DEFINE g == [s \in Small(0) |-> base]
    <3>1. g \in [Small(0) -> V]
      OBVIOUS
    <3>2. \A s \in Small(0) : s = {}
      BY <1>1, <1>3
    <3>3. Folds(0, g)
      BY <3>2 DEF FoldStep
    <3> QED  BY <3>1, <3>3
  <2>3. n \in Nat /\ n - 1 \in Nat /\ n - 1 \notin T
    <3>1. n \in Nat
      OBVIOUS
    <3> HIDE DEF T
    <3> QED  BY <2>1, <2>2, <3>1
  <2>4. PICK g \in [Small(n - 1) -> V] : Folds(n - 1, g)
    BY <2>3
  <2> DEFINE next == [s \in Small(n) |-> FoldStep(base, h, pick, s, g)]
  <2>5. \A s \in Small(n) : s # {} => s \ {pick[s]} \in Small(n - 1)
    <3> SUFFICES ASSUME NEW s \in Small(n), s # {} PROVE Cardinality(s \ {pick[s]}) <= n - 1
      OBVIOUS
    <3>1. Cardinality(s) \in Nat /\ Cardinality(s) <= n /\ Cardinality(s \ {pick[s]}) = Cardinality(s) - 1
      BY <1>1, <1>2
    <3> QED  BY <2>3, <3>1
  <2>6. next \in [Small(n) -> V]
    <3> SUFFICES ASSUME NEW s \in Small(n) PROVE FoldStep(base, h, pick, s, g) \in V
      OBVIOUS
    <3>1. CASE s = {}
      BY <3>1 DEF FoldStep
    <3>2. CASE s # {}
      <4>1. pick[s] \in S /\ g[s \ {pick[s]}] \in V
        BY <2>5, <3>2
      <4>2. h[pick[s]] \in [V -> V]
        BY <4>1
      <4>3. h[pick[s]][g[s \ {pick[s]}]] \in V
        BY <4>1, <4>2
      <4> HIDE DEF Small
      <4> QED  BY <3>2, <4>3 DEF FoldStep
    <3> QED  BY <3>1, <3>2
  <2>7. \A s \in Small(n - 1) : s \in Small(n) /\ next[s] = g[s]
    BY <1>1, <2>3, <2>4
  <2>8. Folds(n, next)
    <3> SUFFICES ASSUME NEW s \in Small(n) PROVE FoldStep(base, h, pick, s, g) = FoldStep(base, h, pick, s, next)
      OBVIOUS
    <3>1. s # {} => next[s \ {pick[s]}] = g[s \ {pick[s]}]
      BY <2>5, <2>7
    <3> HIDE DEF next
    <3> QED  BY <3>1 DEF FoldStep
  <2> QED  BY <2>1, <2>6, <2>8
<1>5. Small(Cardinality(S)) = SUBSET S
  <2>1. \A s \in SUBSET S : Cardinality(s) <= Cardinality(S)
    BY FS_Subset
  <2> QED  BY <2>1
<1>6. PICK g \in [Small(Cardinality(S)) -> V] : Folds(Cardinality(S), g)
  BY <1>1, <1>4
<1>7. IsFold(g, S, V, base, h, pick)
  BY <1>5, <1>6 DEF IsFold
<1> QED  BY <1>7

\* g sums c over the subsets of S, taking elements as pick says.
Sums(g, c, S, pick) ==
  /\ IsFiniteSet(S) /\ c \in [S -> Int] /\ g \in [SUBSET S -> Int]
  /\ Takes(pick, S)
  /\ g[{}] = 0
  /\ \A s \in SUBSET S : s # {} => g[s] = c[pick[s]] + g[s \ {pick[s]}]

\* A sum is the same in any order.
LEMMA SumOrder ==
  ASSUME NEW g, NEW c, NEW S, NEW pick, Sums(g, c, S, pick)
  PROVE  \A s \in SUBSET S : \A x \in s : g[s] = c[x] + g[s \ {x}]
<1> USE DEF Sums, Takes
<1> DEFINE T == {n \in Nat : \E s \in SUBSET S : Cardinality(s) = n /\ \E x \in s : g[s] # c[x] + g[s \ {x}]}
<1>1. \A s \in SUBSET S : IsFiniteSet(s) /\ Cardinality(s) \in Nat
  BY FS_Subset, FS_CardinalityType
<1>2. T = {}
  <2> SUFFICES ASSUME T # {} PROVE FALSE
    OBVIOUS
  <2>1. PICK n \in T : \A m \in T : n <= m
    BY LeastOfNat
  <2> PICK s \in SUBSET S : Cardinality(s) = n /\ \E x \in s : g[s] # c[x] + g[s \ {x}]
    OBVIOUS
  <2>2. PICK x \in s : Cardinality(s) = n /\ g[s] # c[x] + g[s \ {x}]
    OBVIOUS
  <2> DEFINE y == pick[s]
  <2>3. y \in s /\ g[s] = c[y] + g[s \ {y}] /\ x # y
    BY <2>2
  <2>4. n \in Nat /\ Cardinality(s \ {x}) = n - 1 /\ Cardinality(s \ {y}) = n - 1 /\ n - 1 \in Nat
    <3>1. IsFiniteSet(s) /\ s \ {x} \in SUBSET S /\ n \in Nat
      BY <1>1
    <3> HIDE DEF T, y
    <3>2. Cardinality(s \ {x}) = Cardinality(s) - 1 /\ Cardinality(s \ {y}) = Cardinality(s) - 1
      BY <2>3, <3>1, FS_RemoveElement
    <3>3. Cardinality(s \ {x}) \in Nat
      BY <1>1, <3>1
    <3> QED  BY <2>2, <3>1, <3>2, <3>3
  <2>5. n - 1 \notin T
    <3> HIDE DEF T
    <3> QED  BY <2>1, <2>4
  <2>6. /\ s \ {x} \in SUBSET S /\ s \ {y} \in SUBSET S
        /\ y \in s \ {x} /\ x \in s \ {y} /\ (s \ {x}) \ {y} = (s \ {y}) \ {x}
        /\ (s \ {x}) \ {y} \in SUBSET S
    BY <2>3
  <2>7. g[s \ {x}] = c[y] + g[(s \ {x}) \ {y}] /\ g[s \ {y}] = c[x] + g[(s \ {y}) \ {x}]
    BY <2>4, <2>5, <2>6
  <2> HIDE DEF T, y
  <2>8. c[x] \in Int /\ c[y] \in Int /\ g[(s \ {x}) \ {y}] \in Int
    BY <2>3, <2>6
  <2> DEFINE rest == g[(s \ {x}) \ {y}]
  <2>9. g[s] = c[y] + (c[x] + rest) /\ g[s \ {x}] = c[y] + rest /\ rest \in Int
    BY <2>3, <2>6, <2>7, <2>8
  <2> HIDE DEF rest
  <2> QED  BY <2>2, <2>8, <2>9
<1> QED  BY <1>1, <1>2

\* Two sums of the same amounts are the same, whatever carries them.
LEMMA SumImage ==
  ASSUME NEW g, NEW c, NEW S, NEW pick, Sums(g, c, S, pick),
         NEW k, NEW d, NEW R, NEW take, Sums(k, d, R, take),
         NEW m \in [S -> R],
         \A i \in S : \A j \in S : m[i] = m[j] => i = j,
         \A i \in S : c[i] = d[m[i]]
  PROVE  \A s \in SUBSET S : g[s] = k[{m[i] : i \in s}]
<1> DEFINE Image(s) == {m[i] : i \in s}
           T == {n \in Nat : \E s \in SUBSET S : Cardinality(s) = n /\ g[s] # k[Image(s)]}
<1>1. \A s \in SUBSET S : IsFiniteSet(s) /\ Cardinality(s) \in Nat
  BY FS_Subset, FS_CardinalityType DEF Sums
<1>2. T = {}
  <2> SUFFICES ASSUME T # {} PROVE FALSE
    OBVIOUS
  <2>1. PICK n \in T : \A l \in T : n <= l
    BY LeastOfNat
  <2>2. PICK s \in SUBSET S : Cardinality(s) = n /\ g[s] # k[Image(s)]
    OBVIOUS
  <2>3. s # {}
    <3> SUFFICES ASSUME s = {} PROVE FALSE
      OBVIOUS
    <3>1. Image(s) = {}
      OBVIOUS
    <3> QED  BY <2>2, <3>1 DEF Sums
  <2> DEFINE x == pick[s]
             rest == s \ {x}
  <2>4. x \in s /\ x \in S /\ g[s] = c[x] + g[rest]
    BY <2>3 DEF Sums, Takes
  <2>5. rest \in SUBSET S /\ Cardinality(rest) = n - 1 /\ n - 1 \in Nat /\ n \in Nat
    <3>1. IsFiniteSet(s) /\ rest \in SUBSET S /\ n \in Nat
      BY <1>1
    <3> HIDE DEF T, x
    <3>2. Cardinality(rest) = Cardinality(s) - 1
      BY <2>4, <3>1, FS_RemoveElement
    <3>3. Cardinality(rest) \in Nat
      BY <1>1, <3>1
    <3> QED  BY <2>2, <3>1, <3>2, <3>3
  <2>6. n - 1 \notin T
    <3> HIDE DEF T
    <3> QED  BY <2>1, <2>5
  <2>7. g[rest] = k[Image(rest)]
    <3> HIDE DEF rest
    <3> QED  BY <2>5, <2>6
  <2>8. Image(s) \in SUBSET R /\ m[x] \in Image(s) /\ Image(rest) = Image(s) \ {m[x]}
    BY <2>4
  <2>9. k[Image(s)] = d[m[x]] + k[Image(s) \ {m[x]}]
    <3> HIDE DEF Image
    <3> QED  BY <2>8, SumOrder
  <2> QED  BY <2>2, <2>4, <2>7, <2>8, <2>9
<1> QED  BY <1>1, <1>2

\* The elements MapThenSumSet takes.
OneOf(S) == [s \in SUBSET S |-> CHOOSE x \in s : TRUE]

\* There is a sum over any finite set, and what fits its definition is one.
LEMMA SumExists ==
  ASSUME NEW S, IsFiniteSet(S), NEW c \in [S -> Int]
  PROVE  /\ \E g : g = [s \in SUBSET S |-> IF s = {} THEN 0 ELSE c[OneOf(S)[s]] + g[s \ {OneOf(S)[s]}]]
         /\ \A g : g = [s \in SUBSET S |-> IF s = {} THEN 0 ELSE c[OneOf(S)[s]] + g[s \ {OneOf(S)[s]}]]
                   => Sums(g, c, S, OneOf(S))
<1> DEFINE pick == OneOf(S)
           h == [x \in S |-> [v \in Int |-> c[x] + v]]
           Fits(g) == \A s \in SUBSET S : g[s] = FoldStep(0, h, pick, s, g)
           Body(g, s) == IF s = {} THEN 0 ELSE c[pick[s]] + g[s \ {pick[s]}]
<1>1. \A s \in SUBSET S : s # {} => pick[s] \in s
  BY DEF OneOf
<1> HIDE DEF pick
<1>2. h \in [S -> [Int -> Int]]
  OBVIOUS
<1>3. ASSUME NEW g, NEW s \in SUBSET S, s # {}, g[s \ {pick[s]}] \in Int
      PROVE  FoldStep(0, h, pick, s, g) = c[pick[s]] + g[s \ {pick[s]}]
  <2>1. pick[s] \in S
    BY <1>1, <1>3
  <2> QED  BY <1>3, <2>1 DEF FoldStep
<1> HIDE DEF h
<1>4. \E g : g = [s \in SUBSET S |-> Body(g, s)]
  <2> DEFINE V == Int
             zero == 0
  <2>1. zero \in V /\ h \in [S -> [V -> V]]
    BY <1>2
  <2> HIDE DEF V, zero
  <2>2. \E g : IsFold(g, S, V, zero, h, pick)
    <3>1. FoldOver(S, V, zero, h, pick)
      BY <1>1, <2>1 DEF FoldOver, Takes
    <3> QED  BY <3>1, FoldExists
  <2>3. PICK g \in [SUBSET S -> Int] : Fits(g)
    BY <2>2 DEF V, zero, IsFold
  <2>4. ASSUME NEW s \in SUBSET S PROVE g[s] = Body(g, s)
    <3>1. CASE s = {}
      BY <2>3, <3>1 DEF FoldStep
    <3>2. CASE s # {}
      <4>1. g[s \ {pick[s]}] \in Int
        OBVIOUS
      <4> QED  BY <1>3, <2>3, <3>2, <4>1
    <3> QED  BY <3>1, <3>2
  <2> HIDE DEF Body
  <2>5. g = [s \in SUBSET S |-> Body(g, s)]
    BY <2>4
  <2> QED  BY <2>5
<1>5. ASSUME NEW g, g = [s \in SUBSET S |-> Body(g, s)]
      PROVE  Sums(g, c, S, pick)
  <2>1. \A s \in SUBSET S : g[s] = Body(g, s)
    <3> HIDE DEF Body
    <3> QED  BY <1>5
  <2>2. \A s \in SUBSET S : g[s] \in Int
    <3> DEFINE T == {n \in Nat : \E s \in SUBSET S : Cardinality(s) = n /\ g[s] \notin Int}
    <3>1. \A s \in SUBSET S : IsFiniteSet(s) /\ Cardinality(s) \in Nat
      BY FS_Subset, FS_CardinalityType
    <3>2. T = {}
      <4> SUFFICES ASSUME T # {} PROVE FALSE
        OBVIOUS
      <4>1. PICK n \in T : \A m \in T : n <= m
        BY LeastOfNat
      <4>2. PICK s \in SUBSET S : Cardinality(s) = n /\ g[s] \notin Int
        OBVIOUS
      <4>3. s # {}
        <5> SUFFICES ASSUME s = {} PROVE FALSE
          OBVIOUS
        <5>1. g[s] = 0
          BY <2>1
        <5> QED  BY <4>2, <5>1
      <4>4. pick[s] \in s /\ IsFiniteSet(s) /\ n \in Nat /\ s \ {pick[s]} \in SUBSET S
        BY <1>1, <3>1, <4>3
      <4> DEFINE rest == s \ {pick[s]}
      <4>5. Cardinality(rest) = n - 1
        BY <4>2, <4>4, FS_RemoveElement
      <4>6. Cardinality(rest) \in Nat
        BY <3>1, <4>4
      <4>7. g[rest] \in Int
        <5>1. Cardinality(rest) \notin T
          <6> HIDE DEF T, rest
          <6> QED  BY <4>1, <4>4, <4>5, <4>6
        <5> QED  BY <4>4, <4>6, <5>1
      <4>8. g[s] = c[pick[s]] + g[rest] /\ c[pick[s]] \in Int
        BY <2>1, <4>3, <4>4
      <4> QED  BY <4>2, <4>7, <4>8
    <3> QED  BY <3>1, <3>2
  <2>3. g \in [SUBSET S -> Int]
    <3> HIDE DEF Body
    <3> QED  BY <1>5, <2>2
  <2> QED  BY <1>1, <2>1, <2>3 DEF Sums, Takes
<1> QED  BY <1>4, <1>5 DEF pick

-------------------------------------------------------------------------------
(* The sum of a function's values                                           *)

\* SumFunctionOnSet is a sum in some order.
LEMMA SumIsSums ==
  ASSUME NEW S, IsFiniteSet(S), NEW f, \A x \in S : f[x] \in Int
  PROVE  \E g : Sums(g, [x \in S |-> f[x]], S, OneOf(S)) /\ SumFunctionOnSet(f, S) = g[S]
<1> DEFINE c == [i \in S |-> f[i]]
           one(s) == CHOOSE x \in s : TRUE
           Step(g) == [s \in SUBSET S |-> IF s = {} THEN 0 ELSE f[one(s)] + g[s \ {one(s)}]]
           iter == CHOOSE g : g = Step(g)
<1>2. SumFunctionOnSet(f, S) = iter[S]
  BY DEF SumFunctionOnSet, FoldFunctionOnSet, MapThenFoldSet
<1>3. \A s \in SUBSET S : s # {} => one(s) \in S /\ OneOf(S)[s] = one(s) /\ c[OneOf(S)[s]] = f[one(s)]
  BY DEF OneOf
<1> HIDE DEF one
<1>4. c \in [S -> Int]
  OBVIOUS
<1> HIDE DEF c
<1>5. ASSUME NEW g PROVE Step(g) = [s \in SUBSET S |-> IF s = {} THEN 0 ELSE c[OneOf(S)[s]] + g[s \ {OneOf(S)[s]}]]
  BY <1>3
<1>6. \E g : g = Step(g)
  <2>1. PICK g : g = [s \in SUBSET S |-> IF s = {} THEN 0 ELSE c[OneOf(S)[s]] + g[s \ {OneOf(S)[s]}]]
    BY <1>4, SumExists
  <2>2. g = Step(g)
    <3> HIDE DEF Step
    <3> QED  BY <1>5, <2>1
  <2> QED  BY <2>2
<1>7. iter = Step(iter)
  <2> HIDE DEF Step
  <2> QED  BY <1>6
<1> HIDE DEF iter, Step
<1>8. Sums(iter, c, S, OneOf(S))
  BY <1>4, <1>5, <1>7, SumExists
<1> QED  BY <1>2, <1>8 DEF c

\* f has whole values on the finite set S.
Whole(f, S) == IsFiniteSet(S) /\ \A x \in S : f[x] \in Int

\* Sums of the same amounts are the same: m takes S to R, one to one.
LEMMA SumMoved ==
  ASSUME NEW S, NEW f, Whole(f, S), NEW R, NEW d, Whole(d, R), NEW m \in [S -> R],
         \A i, j \in S : m[i] = m[j] => i = j,
         \A i \in S : f[i] = d[m[i]],
         \A r \in R : \E i \in S : m[i] = r
  PROVE  SumFunctionOnSet(f, S) = SumFunctionOnSet(d, R)
<1>1. PICK g : Sums(g, [x \in S |-> f[x]], S, OneOf(S)) /\ SumFunctionOnSet(f, S) = g[S]
  BY SumIsSums DEF Whole
<1>2. PICK k : Sums(k, [x \in R |-> d[x]], R, OneOf(R)) /\ SumFunctionOnSet(d, R) = k[R]
  BY SumIsSums DEF Whole
<1> DEFINE c == [x \in S |-> f[x]]
           b == [x \in R |-> d[x]]
<1>3. \A i \in S : c[i] = b[m[i]]
  OBVIOUS
<1>4. Sums(g, c, S, OneOf(S)) /\ Sums(k, b, R, OneOf(R))
  BY <1>1, <1>2
<1> HIDE DEF c, b
<1>5. \A i \in S : \A j \in S : m[i] = m[j] => i = j
  OBVIOUS
<1>6. \A s \in SUBSET S : g[s] = k[{m[i] : i \in s}]
  BY <1>3, <1>4, <1>5, SumImage
<1>7. {m[i] : i \in S} = R
  OBVIOUS
<1> QED  BY <1>1, <1>2, <1>6, <1>7

\* Sums of functions that agree are the same.
LEMMA SumSame ==
  ASSUME NEW S, NEW f, Whole(f, S), NEW d, \A x \in S : d[x] = f[x]
  PROVE  SumFunctionOnSet(f, S) = SumFunctionOnSet(d, S)
<1> DEFINE m == [x \in S |-> x]
<1>1. /\ m \in [S -> S] /\ \A i, j \in S : m[i] = m[j] => i = j
      /\ \A i \in S : f[i] = d[m[i]]
      /\ \A r \in S : \E i \in S : m[i] = r
  OBVIOUS
<1>2. Whole(d, S)
  BY DEF Whole
<1> HIDE DEF m
<1> QED  BY <1>1, <1>2, SumMoved

\* The sum of nothing is zero, and any value can be taken out of a sum.
LEMMA SumFacts ==
  ASSUME NEW S, NEW f, Whole(f, S)
  PROVE  /\ SumFunctionOnSet(f, S) \in Int
         /\ S = {} => SumFunctionOnSet(f, S) = 0
         /\ \A x \in S : SumFunctionOnSet(f, S) = f[x] + SumFunctionOnSet(f, S \ {x})
<1>1. PICK g : Sums(g, [x \in S |-> f[x]], S, OneOf(S)) /\ SumFunctionOnSet(f, S) = g[S]
  BY SumIsSums DEF Whole
<1>2. SumFunctionOnSet(f, S) \in Int /\ (S = {} => SumFunctionOnSet(f, S) = 0)
  BY <1>1 DEF Sums
<1>3. ASSUME NEW x \in S PROVE SumFunctionOnSet(f, S) = f[x] + SumFunctionOnSet(f, S \ {x})
  <2> DEFINE R == S \ {x}
             c == [y \in S |-> f[y]]
             b == [y \in R |-> f[y]]
             m == [y \in R |-> y]
  <2>1. Whole(f, R)
    BY FS_RemoveElement DEF Whole
  <2>2. PICK k : Sums(k, b, R, OneOf(R)) /\ SumFunctionOnSet(f, R) = k[R]
    BY <2>1, SumIsSums DEF Whole
  <2>3. Sums(g, c, S, OneOf(S))
    BY <1>1
  <2>4. m \in [R -> S] /\ (\A i \in R : \A j \in R : m[i] = m[j] => i = j) /\ (\A i \in R : b[i] = c[m[i]])
    OBVIOUS
  <2>5. R \in SUBSET R /\ {m[i] : i \in R} = R
    OBVIOUS
  <2>6. c[x] = f[x] /\ S \ {x} = R
    OBVIOUS
  <2> HIDE DEF R, c, b, m
  <2>7. k[R] = g[R]
    <3>1. \A s \in SUBSET R : k[s] = g[{m[i] : i \in s}]
      BY <2>2, <2>3, <2>4, SumImage
    <3> QED  BY <2>5, <3>1
  <2>8. g[S] = c[x] + g[S \ {x}]
    BY <2>3, SumOrder
  <2> QED  BY <1>1, <2>2, <2>6, <2>7, <2>8
<1> QED  BY <1>2, <1>3

\* One more value.
LEMMA SumAdds ==
  ASSUME NEW S, NEW f, NEW x, x \notin S, Whole(f, S \cup {x})
  PROVE  SumFunctionOnSet(f, S \cup {x}) = f[x] + SumFunctionOnSet(f, S)
<1>1. (S \cup {x}) \ {x} = S
  OBVIOUS
<1> QED  BY <1>1, SumFacts

\* What is whole on a set is whole on its parts.
LEMMA WholePart ==
  ASSUME NEW S, NEW f, Whole(f, S), NEW R \in SUBSET S
  PROVE  Whole(f, R)
BY FS_Subset DEF Whole

\* The sum over two sets that have nothing in common.
LEMMA SumSplit ==
  ASSUME NEW S, NEW f, Whole(f, S)
  PROVE  \A A, B \in SUBSET S : A \cap B = {} => SumFunctionOnSet(f, A \cup B) = SumFunctionOnSet(f, A) + SumFunctionOnSet(f, B)
<1> DEFINE Splits(A, B) == SumFunctionOnSet(f, A \cup B) = SumFunctionOnSet(f, A) + SumFunctionOnSet(f, B)
           T == {n \in Nat : \E A, B \in SUBSET S : A \cap B = {} /\ Cardinality(B) = n /\ ~Splits(A, B)}
<1>1. \A B \in SUBSET S : IsFiniteSet(B) /\ Cardinality(B) \in Nat
  BY FS_Subset, FS_CardinalityType DEF Whole
<1>2. T = {}
  <2> SUFFICES ASSUME T # {} PROVE FALSE
    OBVIOUS
  <2>1. PICK n \in T : \A m \in T : n <= m
    BY LeastOfNat
  <2>2. PICK A \in SUBSET S, B \in SUBSET S : A \cap B = {} /\ Cardinality(B) = n /\ ~Splits(A, B)
    OBVIOUS
  <2>3. Whole(f, A) /\ Whole(f, B) /\ Whole(f, A \cup B)
    BY WholePart
  <2>4. CASE B = {}
    <3>1. SumFunctionOnSet(f, B) = 0
      BY <2>3, <2>4, SumFacts
    <3>2. SumFunctionOnSet(f, A) \in Int
      BY <2>3, SumFacts
    <3>3. A \cup B = A
      BY <2>4
    <3>4. SumFunctionOnSet(f, A \cup B) = SumFunctionOnSet(f, A) + SumFunctionOnSet(f, B)
      <4> DEFINE a == SumFunctionOnSet(f, A)
                 b == SumFunctionOnSet(f, B)
      <4>1. a \in Int /\ b = 0 /\ SumFunctionOnSet(f, A \cup B) = a
        BY <3>1, <3>2, <3>3
      <4> HIDE DEF a, b
      <4>2. a = a + b
        BY <4>1
      <4> QED  BY <4>1, <4>2 DEF a, b
    <3> QED  BY <2>2, <3>4
  <2>5. CASE B # {}
    <3>1. PICK x \in B : TRUE
      BY <2>5
    <3> DEFINE C == B \ {x}
    <3>2. C \in SUBSET S /\ A \cap C = {} /\ x \notin A \cup C /\ (A \cup C) \cup {x} = A \cup B /\ C \cup {x} = B /\ x \notin C
      BY <2>2, <3>1
    <3>3. Cardinality(C) = n - 1 /\ n \in Nat
      <4>1. IsFiniteSet(B) /\ n \in Nat
        BY <1>1
      <4> HIDE DEF T
      <4> QED  BY <2>2, <3>1, <4>1, FS_RemoveElement
    <3> HIDE DEF C
    <3>4. Splits(A, C)
      <4>1. Cardinality(C) \in Nat
        BY <1>1, <3>2
      <4>2. Cardinality(C) \notin T
        <5> HIDE DEF T
        <5> QED  BY <2>1, <3>3, <4>1
      <4> QED  BY <3>2, <4>1, <4>2
    <3>5. /\ SumFunctionOnSet(f, A \cup B) = f[x] + SumFunctionOnSet(f, A \cup C)
          /\ SumFunctionOnSet(f, B) = f[x] + SumFunctionOnSet(f, C)
      BY <2>3, <3>2, SumAdds
    <3>6. f[x] \in Int /\ SumFunctionOnSet(f, A) \in Int /\ SumFunctionOnSet(f, C) \in Int
      <4>1. Whole(f, C)
        BY <3>2, WholePart
      <4> QED  BY <2>3, <3>1, <4>1, SumFacts DEF Whole
    <3> QED  BY <2>2, <3>4, <3>5, <3>6
  <2> QED  BY <2>4, <2>5
<1> QED  BY <1>1, <1>2

\* A sum of zeros.
LEMMA SumOfZeros ==
  ASSUME NEW S, NEW f, Whole(f, S), \A x \in S : f[x] = 0
  PROVE  SumFunctionOnSet(f, S) = 0
<1> DEFINE T == {n \in Nat : \E B \in SUBSET S : Cardinality(B) = n /\ SumFunctionOnSet(f, B) # 0}
<1>1. \A B \in SUBSET S : IsFiniteSet(B) /\ Cardinality(B) \in Nat
  BY FS_Subset, FS_CardinalityType DEF Whole
<1>2. T = {}
  <2> SUFFICES ASSUME T # {} PROVE FALSE
    OBVIOUS
  <2>1. PICK n \in T : \A m \in T : n <= m
    BY LeastOfNat
  <2>2. PICK B \in SUBSET S : Cardinality(B) = n /\ SumFunctionOnSet(f, B) # 0
    OBVIOUS
  <2>3. Whole(f, B)
    BY WholePart
  <2>4. PICK x \in B : TRUE
    BY <2>2, <2>3, SumFacts
  <2> DEFINE C == B \ {x}
  <2>5. C \in SUBSET S /\ Whole(f, C)
    BY WholePart
  <2>6. Cardinality(C) = n - 1 /\ n \in Nat /\ Cardinality(C) \in Nat
    <3>1. IsFiniteSet(B) /\ n \in Nat /\ Cardinality(C) \in Nat
      BY <1>1
    <3> HIDE DEF T
    <3> QED  BY <2>2, <2>4, <3>1, FS_RemoveElement
  <2>7. SumFunctionOnSet(f, B) = f[x] + SumFunctionOnSet(f, C)
    BY <2>3, SumFacts
  <2> HIDE DEF C
  <2>8. Cardinality(C) \notin T
    <3> HIDE DEF T
    <3> QED  BY <2>1, <2>6
  <2>9. SumFunctionOnSet(f, C) = 0
    BY <2>5, <2>6, <2>8
  <2> QED  BY <2>2, <2>4, <2>7, <2>9
<1> QED  BY <1>1, <1>2

\* Zeros may be left out.
LEMMA SumLessZeros ==
  ASSUME NEW S, NEW f, Whole(f, S), NEW R \in SUBSET S, \A x \in S \ R : f[x] = 0
  PROVE  SumFunctionOnSet(f, S) = SumFunctionOnSet(f, R)
<1>1. Whole(f, R) /\ Whole(f, S \ R)
  BY WholePart
<1>2. SumFunctionOnSet(f, S \ R) = 0 /\ SumFunctionOnSet(f, R) \in Int
  BY <1>1, SumOfZeros, SumFacts
<1>3. R \in SUBSET S /\ S \ R \in SUBSET S /\ R \cap (S \ R) = {} /\ R \cup (S \ R) = S
  OBVIOUS
<1>4. SumFunctionOnSet(f, R \cup (S \ R)) = SumFunctionOnSet(f, R) + SumFunctionOnSet(f, S \ R)
  BY <1>3, SumSplit
<1> QED  BY <1>2, <1>3, <1>4

\* The elements of S in part k.
PartOf(S, part, k) == {x \in S : part[x] = k}

\* Parts that are numbered from 1 to n add up to the whole.
LEMMA SumOfParts ==
  ASSUME NEW S, NEW f, Whole(f, S), NEW n \in Nat, NEW part \in [S -> 1..n],
         NEW F, \A k \in 1..n : F[k] = SumFunctionOnSet(f, PartOf(S, part, k))
  PROVE  SumFunctionOnSet(F, 1..n) = SumFunctionOnSet(f, S)
<1> DEFINE To(m) == {x \in S : part[x] <= m}
           At(m) == PartOf(S, part, m)
           Adds(m) == SumFunctionOnSet(F, 1..m) = SumFunctionOnSet(f, To(m))
           T == {m \in 0..n : ~Adds(m)}
<1>1. \A k \in 1..n : F[k] \in Int
  <2> SUFFICES ASSUME NEW k \in 1..n PROVE F[k] \in Int
    OBVIOUS
  <2>1. At(k) \in SUBSET S
    BY DEF PartOf
  <2> HIDE DEF At
  <2>2. Whole(f, At(k)) /\ F[k] = SumFunctionOnSet(f, At(k))
    BY <2>1, WholePart DEF At
  <2> QED  BY <2>2, SumFacts
<1>2. \A m \in 0..n : Whole(F, 1..m)
  BY <1>1, FS_Interval DEF Whole
<1>3. T = {}
  <2> SUFFICES ASSUME T # {} PROVE FALSE
    OBVIOUS
  <2>1. PICK m \in T : \A l \in T : m <= l
    <3>1. T \in SUBSET Nat
      OBVIOUS
    <3> HIDE DEF T
    <3> QED  BY <3>1, LeastOfNat
  <2>2. m \in 0..n /\ ~Adds(m)
    OBVIOUS
  <2>3. m # 0
    <3> SUFFICES ASSUME m = 0 PROVE FALSE
      OBVIOUS
    <3>1. To(0) = {} /\ 1..0 = {}
      OBVIOUS
    <3>2. SumFunctionOnSet(f, To(0)) = 0
      <4>1. Whole(f, To(0))
        BY WholePart
      <4> QED  BY <3>1, <4>1, SumFacts
    <3>3. SumFunctionOnSet(F, 1..0) = 0
      BY <1>2, <3>1, SumFacts
    <3> QED  BY <2>2, <3>2, <3>3
  <2>4. m - 1 \in 0..n /\ m - 1 \notin T
    <3>1. m - 1 \in 0..n /\ m \in Int
      BY <2>2, <2>3
    <3> HIDE DEF T
    <3> QED  BY <2>1, <3>1
  <2>5. Adds(m - 1)
    BY <2>4
  <2>6. 1..m = (1..(m - 1)) \cup {m} /\ m \notin 1..(m - 1) /\ To(m) = To(m - 1) \cup At(m) /\ To(m - 1) \cap At(m) = {}
    BY <2>2, <2>3 DEF PartOf
  <2>7. SumFunctionOnSet(F, 1..m) = F[m] + SumFunctionOnSet(F, 1..(m - 1))
    BY <1>2, <2>2, <2>6, SumAdds
  <2>8. SumFunctionOnSet(f, To(m)) = SumFunctionOnSet(f, To(m - 1)) + SumFunctionOnSet(f, At(m))
    <3>1. To(m - 1) \in SUBSET S /\ At(m) \in SUBSET S
      BY DEF PartOf
    <3> HIDE DEF To, At
    <3> QED  BY <2>6, <3>1, SumSplit
  <2>9. m \in 1..n /\ F[m] = SumFunctionOnSet(f, At(m)) /\ F[m] \in Int
    BY <1>1, <2>2, <2>3
  <2>10. SumFunctionOnSet(F, 1..(m - 1)) \in Int
    BY <1>2, <2>4, SumFacts
  <2> QED  BY <2>2, <2>5, <2>7, <2>8, <2>9, <2>10
<1>4. To(n) = S
  OBVIOUS
<1> HIDE DEF To
<1> QED  BY <1>3, <1>4

-------------------------------------------------------------------------------
(* A series of snapshots                                                    *)

\* What a series consists of.
LEMMA SeriesFacts ==
  ASSUME NEW s \in Seq(Snapshots)
  PROVE  /\ Len(s) \in Nat /\ DOMAIN s = 1..Len(s)
         /\ \A i \in 1..Len(s) : s[i].at \in Nat \ {0} /\ s[i].bal \in Int /\ s[i].project \in STRING /\ s[i].name \in STRING
<1>1. Len(s) \in Nat /\ DOMAIN s = 1..Len(s) /\ \A i \in 1..Len(s) : s[i] \in Snapshots
  OBVIOUS
<1> QED  BY <1>1 DEF Snapshots

\* What is spent and topped up between two snapshots; the difference is what the balance lost.
LEMMA FlowFacts ==
  ASSUME NEW s \in Seq(Snapshots)
  PROVE  /\ \A i \in 2..Len(s) : /\ Spending(s)[i] \in Nat /\ TopUps(s)[i] \in Nat
                                 /\ Spending(s)[i] = Spent(s, i) /\ TopUps(s)[i] = Gained(s, i)
                                 /\ Spending(s)[i] - TopUps(s)[i] = s[i - 1].bal - s[i].bal
         /\ Whole(Spending(s), 2..Len(s)) /\ Whole(TopUps(s), 2..Len(s))
         /\ DOMAIN Spending(s) = 2..Len(s) /\ DOMAIN TopUps(s) = 2..Len(s)
<1>1. Len(s) \in Nat /\ \A i \in 1..Len(s) : s[i].bal \in Int
  BY SeriesFacts
<1>2. \A i \in 2..Len(s) : i - 1 \in 1..Len(s) /\ i \in 1..Len(s)
  BY <1>1
<1>3. ASSUME NEW i \in 2..Len(s)
      PROVE  /\ Spending(s)[i] \in Nat /\ TopUps(s)[i] \in Nat
             /\ Spending(s)[i] = Spent(s, i) /\ TopUps(s)[i] = Gained(s, i)
             /\ Spending(s)[i] - TopUps(s)[i] = s[i - 1].bal - s[i].bal
  <2> DEFINE a == s[i - 1].bal
             b == s[i].bal
  <2>1. a \in Int /\ b \in Int
    BY <1>1, <1>2
  <2>2. Spending(s)[i] = Larger(a - b, 0) /\ TopUps(s)[i] = Larger(b - a, 0)
    BY DEF Spending, TopUps, Spent, Gained
  <2>3. Spent(s, i) = Larger(a - b, 0) /\ Gained(s, i) = Larger(b - a, 0)
    BY DEF Spent, Gained
  <2> HIDE DEF a, b
  <2>4. Larger(a - b, 0) \in Nat /\ Larger(b - a, 0) \in Nat /\ Larger(a - b, 0) - Larger(b - a, 0) = a - b
    BY <2>1 DEF Larger
  <2> QED  BY <2>2, <2>3, <2>4 DEF a, b
<1>4. IsFiniteSet(2..Len(s))
  <2> DEFINE n == Len(s)
  <2>1. 2 \in Int /\ n \in Int
    BY <1>1
  <2> HIDE DEF n
  <2>2. IsFiniteSet(2..n)
    BY <2>1, FS_Interval
  <2> QED  BY <2>2 DEF n
<1> QED  BY <1>3, <1>4 DEF Whole, Spending, TopUps

\* Differences in a row.
LEMMA Telescope ==
  ASSUME NEW a \in Int, NEW b \in Int, NEW c \in Int, NEW p \in Int, NEW q \in Int, NEW x \in Int, NEW y \in Int,
         p - q = a - b, x - y = b - c
  PROVE  (x + p) - (y + q) = a - c
OBVIOUS

\* Spending less top-ups up to any snapshot is what the balance has lost by then.
LEMMA FlowsBalance ==
  ASSUME NEW s \in Seq(Snapshots), s # <<>>
  PROVE  SumFunction(Spending(s)) - SumFunction(TopUps(s)) = s[1].bal - s[Len(s)].bal
<1> DEFINE n == Len(s)
           Balances(k) == SumFunctionOnSet(Spending(s), 2..k) - SumFunctionOnSet(TopUps(s), 2..k) = s[1].bal - s[k].bal
           T == {k \in 1..n : ~Balances(k)}
<1>1. n \in Nat /\ n >= 1 /\ \A i \in 1..n : s[i].bal \in Int
  BY SeriesFacts
<1>2. \A k \in 1..n : 2..k \in SUBSET (2..n)
  BY <1>1
<1>3. \A k \in 1..n : Whole(Spending(s), 2..k) /\ Whole(TopUps(s), 2..k)
  BY <1>2, FlowFacts, WholePart
<1>4. T = {}
  <2> SUFFICES ASSUME T # {} PROVE FALSE
    OBVIOUS
  <2>1. PICK k \in T : \A l \in T : k <= l
    <3>1. T \in SUBSET Nat
      BY <1>1
    <3> HIDE DEF T
    <3> QED  BY <3>1, LeastOfNat
  <2>2. k \in 1..n /\ ~Balances(k)
    OBVIOUS
  <2>3. k # 1
    <3> SUFFICES ASSUME k = 1 PROVE FALSE
      OBVIOUS
    <3>1. 2..1 = {}
      OBVIOUS
    <3>2. SumFunctionOnSet(Spending(s), 2..k) = 0 /\ SumFunctionOnSet(TopUps(s), 2..k) = 0
      BY <1>3, <2>2, <3>1, SumFacts
    <3> QED  BY <1>1, <2>2, <3>2
  <2>4. k - 1 \in 1..n /\ k - 1 \notin T /\ k \in 2..n
    <3>1. k - 1 \in 1..n /\ k \in Int /\ k \in 2..n
      BY <1>1, <2>2, <2>3
    <3> HIDE DEF T
    <3> QED  BY <2>1, <3>1
  <2>5. Balances(k - 1)
    BY <2>4
  <2>6. 2..k = (2..(k - 1)) \cup {k} /\ k \notin 2..(k - 1)
    BY <1>1, <2>4
  <2>7. /\ SumFunctionOnSet(Spending(s), 2..k) = Spending(s)[k] + SumFunctionOnSet(Spending(s), 2..(k - 1))
        /\ SumFunctionOnSet(TopUps(s), 2..k) = TopUps(s)[k] + SumFunctionOnSet(TopUps(s), 2..(k - 1))
    BY <1>3, <2>2, <2>6, SumAdds
  <2>8. SumFunctionOnSet(Spending(s), 2..(k - 1)) \in Int /\ SumFunctionOnSet(TopUps(s), 2..(k - 1)) \in Int
    BY <1>3, <2>4, SumFacts
  <2>9. Spending(s)[k] \in Nat /\ TopUps(s)[k] \in Nat /\ Spending(s)[k] - TopUps(s)[k] = s[k - 1].bal - s[k].bal
    BY <2>4, FlowFacts
  <2>10. s[1].bal \in Int /\ s[k - 1].bal \in Int /\ s[k].bal \in Int
    BY <1>1, <2>2, <2>4
  <2>11. Balances(k)
    <3> DEFINE p == SumFunctionOnSet(Spending(s), 2..(k - 1))
               q == SumFunctionOnSet(TopUps(s), 2..(k - 1))
               x == Spending(s)[k]
               y == TopUps(s)[k]
    <3>1. p - q = s[1].bal - s[k - 1].bal /\ x - y = s[k - 1].bal - s[k].bal
      BY <2>5, <2>9
    <3>2. p \in Int /\ q \in Int /\ x \in Int /\ y \in Int
      BY <2>8, <2>9
    <3> DEFINE b1 == s[1].bal  bj == s[k - 1].bal  bk == s[k].bal
    <3>3. p - q = b1 - bj /\ x - y = bj - bk /\ b1 \in Int /\ bj \in Int /\ bk \in Int
      BY <2>10, <3>1
    <3> HIDE DEF p, q, x, y, b1, bj, bk
    <3>4. (x + p) - (y + q) = b1 - bk
      BY <3>2, <3>3, Telescope
    <3> QED  BY <2>7, <3>4 DEF p, q, x, y, b1, bk
  <2> QED  BY <2>2, <2>11
<1>5. Balances(n)
  BY <1>1, <1>4
<1> QED  BY <1>5, FlowFacts DEF SumFunction

-------------------------------------------------------------------------------
(* The costs                                                               *)

\* What was spent across a month's boundary is in one of the months, once, for
\* every series and boundary (SpendInMonth).
THEOREM EveryMonthSplits ==
  ASSUME NEW points, IsSeries(points), NEW boundary \in Int
  PROVE  MonthsSplit(points, boundary)
<1> DEFINE n == Len(points)
           A == {i \in 2..n : points[i].at >= points[1].at /\ points[i].at <= boundary - 1}
           B == {i \in 2..n : points[i].at >= boundary /\ points[i].at <= points[n].at}
<1>1. points \in Seq(Snapshots) /\ n \in Nat /\ n >= 1 /\ DOMAIN points = 1..n
  BY SeriesFacts DEF IsSeries
<1>2. \A i \in 1..n : points[i].at \in Nat
  BY <1>1, SeriesFacts
<1>3. \A i \in 2..n : points[i].at >= points[1].at /\ points[i].at <= points[n].at
  <2> SUFFICES ASSUME NEW i \in 2..n PROVE points[i].at >= points[1].at /\ points[i].at <= points[n].at
    OBVIOUS
  <2>1. i \in 1..n /\ 1 \in 1..n /\ n \in 1..n /\ 1 <= i /\ i <= n
    BY <1>1
  <2>2. points[1].at <= points[i].at /\ points[i].at <= points[n].at
    BY <1>1, <2>1 DEF IsSeries
  <2> QED  BY <1>2, <2>1, <2>2
<1>4. A \in SUBSET (2..n) /\ B \in SUBSET (2..n) /\ A \cap B = {} /\ A \cup B = 2..n
  <2>1. \A i \in 2..n : points[i].at \in Int
    BY <1>1, <1>2
  <2> QED  BY <1>3, <2>1
<1>5. Whole(Spending(points), 2..n)
  BY <1>1, FlowFacts
<1>6. SpendInMonth(points, points[1].at, boundary - 1) = SumFunctionOnSet(Spending(points), A)
  BY DEF SpendInMonth
<1>7. SpendInMonth(points, boundary, points[n].at) = SumFunctionOnSet(Spending(points), B)
  BY DEF SpendInMonth
<1>8. SumFunction(Spending(points)) = SumFunctionOnSet(Spending(points), 2..n)
  BY <1>1, FlowFacts DEF SumFunction
<1> HIDE DEF A, B
<1>9. SumFunctionOnSet(Spending(points), A \cup B) = SumFunctionOnSet(Spending(points), A) + SumFunctionOnSet(Spending(points), B)
  BY <1>4, <1>5, SumSplit
<1> QED  BY <1>4, <1>6, <1>7, <1>8, <1>9 DEF MonthsSplit

-------------------------------------------------------------------------------
(* Selecting and sorting                                                    *)

\* R orders I.
TotalOn(I, R) ==
  /\ \A i, j \in I : <<i, j>> \in R \/ <<j, i>> \in R
  /\ \A i, j \in I : <<i, j>> \in R /\ <<j, i>> \in R => i = j
  /\ \A i, j, k \in I : <<i, j>> \in R /\ <<j, k>> \in R => <<i, k>> \in R

Upto(I, R, i) == {j \in I : <<j, i>> \in R}
RankIn(I, R, i) == Cardinality(Upto(I, R, i))

\* In an order every element has a rank of its own and no rank is left out.
LEMMA RankFacts ==
  ASSUME NEW I, IsFiniteSet(I), NEW R, TotalOn(I, R)
  PROVE  /\ \A i \in I : RankIn(I, R, i) \in 1..Cardinality(I)
         /\ \A i, j \in I : <<i, j>> \in R /\ i # j => RankIn(I, R, i) < RankIn(I, R, j)
         /\ \A k \in 1..Cardinality(I) : \E i \in I : RankIn(I, R, i) = k
<1> DEFINE n == Cardinality(I)
           rank == [i \in I |-> RankIn(I, R, i)]
<1>1. n \in Nat
  BY FS_CardinalityType
<1>2. \A i \in I : IsFiniteSet(Upto(I, R, i)) /\ RankIn(I, R, i) \in Nat /\ RankIn(I, R, i) <= n
  <2> SUFFICES ASSUME NEW i \in I PROVE IsFiniteSet(Upto(I, R, i)) /\ RankIn(I, R, i) \in Nat /\ RankIn(I, R, i) <= n
    OBVIOUS
  <2>1. Upto(I, R, i) \in SUBSET I
    BY DEF Upto
  <2> QED  BY <2>1, FS_Subset, FS_CardinalityType DEF RankIn
<1>3. \A i \in I : RankIn(I, R, i) \in 1..n
  <2> SUFFICES ASSUME NEW i \in I PROVE RankIn(I, R, i) # 0
    BY <1>1, <1>2
  <2>1. i \in Upto(I, R, i)
    BY DEF Upto, TotalOn
  <2> QED  BY <1>2, <2>1, FS_EmptySet DEF RankIn
<1>4. ASSUME NEW i \in I, NEW j \in I, <<i, j>> \in R, i # j
      PROVE  RankIn(I, R, i) < RankIn(I, R, j)
  <2>1. Upto(I, R, i) \subseteq Upto(I, R, j)
    BY <1>4 DEF Upto, TotalOn
  <2>2. j \in Upto(I, R, j) /\ j \notin Upto(I, R, i)
    BY <1>4 DEF Upto, TotalOn
  <2>3. RankIn(I, R, i) <= RankIn(I, R, j) /\ RankIn(I, R, i) # RankIn(I, R, j)
    <3> DEFINE U == Upto(I, R, j)
               W == Upto(I, R, i)
    <3>1. IsFiniteSet(U) /\ W \in SUBSET U /\ W # U
      BY <1>2, <2>1, <2>2
    <3> HIDE DEF U, W
    <3>2. Cardinality(W) <= Cardinality(U) /\ Cardinality(W) # Cardinality(U)
      BY <3>1, FS_Subset
    <3> QED  BY <3>2 DEF U, W, RankIn
  <2> QED  BY <1>2, <2>3
<1>5. ASSUME NEW i \in I, NEW j \in I, RankIn(I, R, i) = RankIn(I, R, j) PROVE i = j
  <2>1. RankIn(I, R, i) \in Int /\ RankIn(I, R, j) \in Int
    BY <1>2
  <2>2. <<i, j>> \in R \/ <<j, i>> \in R
    BY DEF TotalOn
  <2> QED  BY <1>4, <1>5, <2>1, <2>2
<1>6. rank \in Injection(I, 1..n)
  BY <1>3, <1>5 DEF Injection, IsInjective
<1>7. IsFiniteSet(1..n) /\ Cardinality(1..n) = n
  BY <1>1, FS_Interval
<1>8. rank \in Surjection(I, 1..n)
  <2> HIDE DEF rank
  <2> QED  BY <1>6, <1>7, FS_Injection
<1>9. \A k \in 1..n : \E i \in I : rank[i] = k
  <2> HIDE DEF rank
  <2> QED  BY <1>8 DEF Surjection
<1> QED  BY <1>3, <1>4, <1>9

\* m lists the members of I in the order R.
Lists(m, I, R) ==
  /\ m \in [1..Cardinality(I) -> I]
  /\ \A k, l \in 1..Cardinality(I) : k < l => <<m[k], m[l]>> \in R /\ m[k] # m[l]
  /\ \A i \in I : \E k \in 1..Cardinality(I) : m[k] = i

\* What Arranged returns.
LEMMA ArrangedFacts ==
  ASSUME NEW s, NEW I, IsFiniteSet(I), NEW R, TotalOn(I, R)
  PROVE  \E m : Lists(m, I, R) /\ Arranged(s, I, R) = [k \in 1..Cardinality(I) |-> s[m[k]]]
<1> DEFINE n == Cardinality(I)
           m == [k \in 1..n |-> CHOOSE i \in I : RankIn(I, R, i) = k]
<1>1. n \in Nat
  BY FS_CardinalityType
<1>2. \A k \in 1..n : m[k] \in I /\ RankIn(I, R, m[k]) = k
  BY RankFacts
<1>3. Arranged(s, I, R) = [k \in 1..n |-> s[m[k]]]
  BY DEF Arranged, RankIn, Upto
<1>4. m \in [1..n -> I]
  BY <1>2
<1>5. \A i \in I : RankIn(I, R, i) \in 1..n
  BY RankFacts
<1>6. \A i, j \in I : <<i, j>> \in R /\ i # j => RankIn(I, R, i) < RankIn(I, R, j)
  BY RankFacts
<1> HIDE DEF m
<1>7. ASSUME NEW i \in I, NEW j \in I, RankIn(I, R, i) = RankIn(I, R, j) PROVE i = j
  <2>1. RankIn(I, R, i) \in Int /\ RankIn(I, R, j) \in Int
    BY <1>1, <1>5
  <2>2. <<i, j>> \in R \/ <<j, i>> \in R
    BY DEF TotalOn
  <2> QED  BY <1>6, <1>7, <2>1, <2>2
<1>8. \A i \in I : \E k \in 1..n : m[k] = i
  <2> SUFFICES ASSUME NEW i \in I PROVE \E k \in 1..n : m[k] = i
    OBVIOUS
  <2> DEFINE k == RankIn(I, R, i)
  <2>1. k \in 1..n /\ m[k] \in I /\ RankIn(I, R, m[k]) = k
    BY <1>2, <1>5
  <2>2. m[k] = i
    BY <1>7, <2>1
  <2> QED  BY <2>1, <2>2
<1>9. ASSUME NEW k \in 1..n, NEW l \in 1..n, k < l PROVE <<m[k], m[l]>> \in R /\ m[k] # m[l]
  <2>1. m[k] \in I /\ m[l] \in I /\ RankIn(I, R, m[k]) = k /\ RankIn(I, R, m[l]) = l
    BY <1>2
  <2>2. m[k] # m[l]
    BY <1>1, <1>9, <2>1
  <2>3. CASE <<m[l], m[k]>> \in R
    <3>1. RankIn(I, R, m[l]) < RankIn(I, R, m[k])
      BY <1>6, <2>1, <2>2, <2>3
    <3> QED  BY <1>1, <1>9, <2>1, <3>1
  <2> QED  BY <2>1, <2>2, <2>3 DEF TotalOn
<1> QED  BY <1>3, <1>4, <1>8, <1>9 DEF Lists

\* A list of all the numbers from 1 to n that goes up is 1 to n.
LEMMA UpwardsIsSame ==
  ASSUME NEW n \in Nat, NEW m \in [1..n -> 1..n], \A k, l \in 1..n : k < l => m[k] < m[l]
  PROVE  \A k \in 1..n : m[k] = k
<1> DEFINE Low == {k \in 1..n : m[k] < k}
           High == {j \in Nat : n - j \in 1..n /\ m[n - j] > n - j}
<1>1. Low = {}
  <2> SUFFICES ASSUME Low # {} PROVE FALSE
    OBVIOUS
  <2>1. PICK k \in Low : \A l \in Low : k <= l
    <3>1. Low \in SUBSET Nat
      OBVIOUS
    <3> HIDE DEF Low
    <3> QED  BY <3>1, LeastOfNat
  <2>2. k \in 1..n /\ m[k] < k /\ m[k] \in 1..n
    OBVIOUS
  <2>3. k - 1 \in 1..n /\ m[k - 1] < m[k] /\ m[k - 1] \in 1..n
    <3> HIDE DEF Low
    <3>1. k \in Int /\ m[k] \in Int /\ 1 <= m[k] /\ m[k] < k /\ k <= n
      BY <2>2
    <3>2. k - 1 \in 1..n /\ k - 1 < k
      BY <3>1
    <3> QED  BY <2>2, <3>2
  <2>4. k - 1 \in Low
    BY <2>2, <2>3
  <2> HIDE DEF Low
  <2> QED  BY <2>1, <2>2, <2>4
<1>2. High = {}
  <2> SUFFICES ASSUME High # {} PROVE FALSE
    OBVIOUS
  <2>1. PICK j \in High : \A l \in High : j <= l
    BY LeastOfNat
  <2> DEFINE k == n - j
  <2>2. j \in Nat /\ k \in 1..n /\ m[k] > k /\ m[k] \in 1..n
    OBVIOUS
  <2>3. k + 1 \in 1..n /\ m[k] < m[k + 1] /\ m[k + 1] \in 1..n
    <3>1. k \in 1..n /\ m[k] \in 1..n /\ k < m[k]
      BY <2>2
    <3> HIDE DEF High, k
    <3>2. k \in Int /\ m[k] \in Int /\ 1 <= k /\ k < m[k] /\ m[k] <= n
      BY <3>1
    <3>3. k + 1 \in 1..n /\ k < k + 1
      BY <3>2
    <3> QED  BY <3>1, <3>3
  <2>4. j - 1 \in Nat /\ n - (j - 1) = k + 1 /\ m[k + 1] > k + 1
    BY <2>2, <2>3
  <2>5. j - 1 \in High
    BY <2>3, <2>4
  <2> HIDE DEF High
  <2> QED  BY <2>1, <2>2, <2>5
<1> QED
  <2> SUFFICES ASSUME NEW k \in 1..n PROVE m[k] = k
    OBVIOUS
  <2>1. ~(m[k] < k)
    BY <1>1
  <2>2. ~(m[k] > k)
    <3>1. n - (n - k) = k /\ n - k \in Nat
      OBVIOUS
    <3>2. n - k \notin High
      BY <1>2
    <3> QED  BY <3>1, <3>2
  <2>3. m[k] \in 1..n
    OBVIOUS
  <2> QED  BY <2>1, <2>2, <2>3

-------------------------------------------------------------------------------
(* Folds over a sequence                                                    *)

\* Max finds the greatest element of a finite set of numbers.
LEMMA GreatestOf ==
  ASSUME NEW n \in Nat, NEW s \in SUBSET (1..n), s # {}
  PROVE  Max(s) \in s /\ \A y \in s : y <= Max(s)
<1> DEFINE T == {m \in Nat : \A y \in s : y <= m}
<1>1. n \in T
  OBVIOUS
<1>2. PICK m \in T : \A l \in T : m <= l
  BY <1>1, LeastOfNat
<1>3. m \in s
  <2> SUFFICES ASSUME m \notin s PROVE FALSE
    OBVIOUS
  <2>1. m \in Nat /\ \A y \in s : y \in Nat /\ y >= 1 /\ y < m
    BY <1>2
  <2>2. m # 0
    <3>1. PICK y \in s : TRUE
      OBVIOUS
    <3>2. m \in Nat /\ y \in Nat /\ y >= 1 /\ y < m
      BY <2>1
    <3> HIDE DEF T
    <3> QED  BY <3>2
  <2>3. m - 1 \in Nat /\ \A y \in s : y <= m - 1
    BY <2>1, <2>2
  <2>4. m - 1 \in T
    BY <2>3
  <2> HIDE DEF T
  <2> QED  BY <1>2, <2>1, <2>4
<1>4. \E x \in s : \A y \in s : x >= y
  <2>1. \A y \in s : m >= y
    OBVIOUS
  <2> QED  BY <1>3, <2>1
<1>5. Max(s) \in s /\ \A y \in s : Max(s) >= y
  BY <1>4 DEF Max
<1> HIDE DEF T
<1>6. Max(s) \in Nat /\ \A y \in s : y \in Nat
  <2>1. \A y \in s : y \in 1..n
    OBVIOUS
  <2>2. \A y \in s : y \in Nat
    <3> TAKE y \in s
    <3>1. y \in 1..n
      BY <2>1
    <3> QED  BY ONLY <3>1, n \in Nat
  <2> QED  BY <1>5, <2>2
<1>7. \A y \in s : y <= Max(s)
  <2> TAKE y \in s
  <2>1. Max(s) >= y /\ y \in Nat /\ Max(s) \in Nat
    BY <1>5, <1>6
  <2> QED  BY ONLY <2>1
<1> QED  BY <1>5, <1>7

\* A fold from the left takes the greatest position last.
LEMMA PrefixFacts ==
  ASSUME NEW n \in Nat, NEW k \in 1..n
  PROVE  Max(1..k) = k /\ (1..k) \ {k} = 1..(k - 1) /\ 1..k \in SUBSET (1..n) /\ 1..k # {}
<1>1. 1..k \in SUBSET (1..n) /\ k \in 1..k /\ (1..k) \ {k} = 1..(k - 1)
  OBVIOUS
<1>2. Max(1..k) \in 1..k /\ k <= Max(1..k)
  BY <1>1, GreatestOf
<1> QED  BY <1>1, <1>2

\* g folds the functions h[1], ..., h[n] from the left, with results in V.
FoldsLeft(g, n, V, base, h) ==
  /\ g \in [SUBSET (1..n) -> V]
  /\ \A s \in SUBSET (1..n) : g[s] = IF s = {} THEN base ELSE h[Max(s)][g[s \ {Max(s)}]]

\* The function that FoldLeft is defined by exists.
LEMMA FoldLeftExists ==
  ASSUME NEW n \in Nat, NEW V, NEW base \in V, NEW h \in [1..n -> [V -> V]]
  PROVE  \E g : FoldsLeft(g, n, V, base, h)
<1> DEFINE D == 1..n
           pick == [s \in SUBSET D |-> Max(s)]
<1>1. \A s \in SUBSET D : s # {} => Max(s) \in s /\ pick[s] = Max(s)
  BY GreatestOf
<1>2. IsFiniteSet(D)
  BY FS_Interval
<1> HIDE DEF pick, D
<1>3. FoldOver(D, V, base, h, pick)
  BY <1>1, <1>2 DEF FoldOver, Takes, D
<1>4. PICK g : IsFold(g, D, V, base, h, pick)
  BY <1>3, FoldExists
<1>5. \A s \in SUBSET D : g[s] = IF s = {} THEN base ELSE h[Max(s)][g[s \ {Max(s)}]]
  BY <1>1, <1>4 DEF IsFold, FoldStep
<1>6. FoldsLeft(g, n, V, base, h)
  BY <1>4, <1>5 DEF FoldsLeft, IsFold, D
<1> QED  BY <1>6

-------------------------------------------------------------------------------
(* The runway estimates and the summary of spending                         *)

Days(s) == Day4(s[1].at)..Day4(s[Len(s)].at)
On(s, d) == {i \in 2..Len(s) : Day4(s[i].at) = d}
Flows(s) == [consumed : Int, toppedUp : Int, perDay : [Days(s) -> Int]]

\* What splitFlows does with the snapshot at i.
FlowStep(s, acc, i) ==
  [consumed |-> acc.consumed + Spent(s, i),
   toppedUp |-> acc.toppedUp + Gained(s, i),
   perDay |-> [acc.perDay EXCEPT ![Day4(s[i].at)] = @ + Spent(s, i)]]

\* The days of a series in order are those from its first snapshot to its last.
LEMMA DaysFacts ==
  ASSUME NEW s, IsSeries(s)
  PROVE  /\ Day4(s[1].at) \in Nat /\ Day4(s[Len(s)].at) \in Nat /\ Day4(s[1].at) <= Day4(s[Len(s)].at)
         /\ \A i \in 1..Len(s) : Day4(s[i].at) \in Days(s)
         /\ s[1].at \in Nat /\ s[Len(s)].at \in Nat /\ s[1].at <= s[Len(s)].at
<1>1. s \in Seq(Snapshots) /\ Len(s) \in Nat /\ Len(s) >= 1 /\ DOMAIN s = 1..Len(s)
  BY SeriesFacts DEF IsSeries
<1>2. \A i \in 1..Len(s) : s[i].at \in Nat
  BY <1>1, SeriesFacts
<1>3. ASSUME NEW p \in Nat, NEW q \in Nat, p <= q
      PROVE  p \div 4 \in Nat /\ q \div 4 \in Nat /\ p \div 4 <= q \div 4
  BY <1>3
<1>4. ASSUME NEW i \in 1..Len(s), NEW j \in 1..Len(s), i <= j
      PROVE  Day4(s[i].at) \in Nat /\ Day4(s[j].at) \in Nat /\ Day4(s[i].at) <= Day4(s[j].at)
  <2>1. s[i].at <= s[j].at
    BY <1>1, <1>4 DEF IsSeries
  <2> QED  BY <1>2, <1>3, <2>1 DEF Day4, DayTicks
<1>5. ASSUME NEW i \in 1..Len(s) PROVE Day4(s[i].at) \in Days(s)
  <2>1. 1 \in 1..Len(s) /\ Len(s) \in 1..Len(s) /\ 1 <= i /\ i <= Len(s)
    BY <1>1
  <2>2. /\ Day4(s[1].at) \in Nat /\ Day4(s[i].at) \in Nat /\ Day4(s[Len(s)].at) \in Nat
        /\ Day4(s[1].at) <= Day4(s[i].at) /\ Day4(s[i].at) <= Day4(s[Len(s)].at)
    BY <1>4, <2>1
  <2> QED  BY <2>2 DEF Days
<1>6. 1 \in 1..Len(s) /\ Len(s) \in 1..Len(s) /\ 1 <= Len(s)
  BY <1>1
<1>7. s[1].at <= s[Len(s)].at
  BY <1>1, <1>6 DEF IsSeries
<1> QED  BY <1>2, <1>4, <1>5, <1>6, <1>7

\* splitFlows, one snapshot at a time.
LEMMA FlowTrace ==
  ASSUME NEW s, IsSeries(s), Len(s) >= 2
  PROVE  \E a : /\ a \in [0..(Len(s) - 1) -> Flows(s)]
                /\ a[0] = [consumed |-> 0, toppedUp |-> 0, perDay |-> [d \in Days(s) |-> 0]]
                /\ \A k \in 1..(Len(s) - 1) : a[k] = FlowStep(s, a[k - 1], k + 1)
                /\ SplitFlows(s) = a[Len(s) - 1]
<1> DEFINE n == Len(s) - 1
           D == 1..n
           e == [k \in D |-> k + 1]
           V == Flows(s)
           base == [consumed |-> 0, toppedUp |-> 0, perDay |-> [d \in Days(s) |-> 0]]
           Body(g, t) == IF t = {} THEN base ELSE FlowStep(s, g[t \ {Max(t)}], e[Max(t)])
           iter == CHOOSE g : g = [t \in SUBSET D |-> Body(g, t)]
           h == [i \in D |-> [v \in V |-> FlowStep(s, v, i + 1)]]
<1>1. s \in Seq(Snapshots) /\ Len(s) \in Nat /\ DOMAIN s = 1..Len(s) /\ n \in Nat
  BY SeriesFacts DEF IsSeries
<1>2. SplitFlows(s) = iter[DOMAIN e]
  BY DEF SplitFlows, FoldLeft, MapThenFoldSet, FlowStep, Days
<1>3. base \in V
  BY DEF Flows
<1>4. ASSUME NEW i \in D, NEW v \in V PROVE FlowStep(s, v, i + 1) \in V
  <2>1. i + 1 \in 2..Len(s) /\ i + 1 \in 1..Len(s)
    BY <1>1
  <2>2. Spent(s, i + 1) \in Int /\ Gained(s, i + 1) \in Int
    BY <1>1, <2>1, FlowFacts
  <2>3. Day4(s[i + 1].at) \in Days(s)
    BY <2>1, DaysFacts
  <2> QED  BY <2>2, <2>3 DEF FlowStep, Flows
<1>5. h \in [D -> [V -> V]]
  BY <1>4
<1>6. \A t \in SUBSET D : t # {} => Max(t) \in t
  BY <1>1, GreatestOf
<1> HIDE DEF base, V
<1>7. PICK g : FoldsLeft(g, n, V, base, h)
  <2> HIDE DEF h, n
  <2> QED  BY <1>1, <1>3, <1>5, FoldLeftExists DEF n
<1>8. ASSUME NEW t \in SUBSET D, t # {} PROVE h[Max(t)][g[t \ {Max(t)}]] = FlowStep(s, g[t \ {Max(t)}], Max(t) + 1)
  <2>1. Max(t) \in D /\ g[t \ {Max(t)}] \in V
    <3> HIDE DEF h
    <3> QED  BY <1>6, <1>7, <1>8 DEF FoldsLeft
  <2> QED  BY <2>1
<1>9. ASSUME NEW t \in SUBSET D, t # {} PROVE e[Max(t)] = Max(t) + 1
  BY <1>6, <1>9
<1>10. g = [t \in SUBSET D |-> Body(g, t)]
  <2>1. ASSUME NEW t \in SUBSET D PROVE g[t] = Body(g, t)
    <3> HIDE DEF h, e
    <3> QED  BY <1>7, <1>8, <1>9 DEF FoldsLeft
  <2> HIDE DEF Body, h
  <2> QED  BY <1>7, <2>1 DEF FoldsLeft
<1>11. iter = [t \in SUBSET D |-> Body(iter, t)]
  <2> HIDE DEF Body
  <2> QED  BY <1>10
<1> HIDE DEF iter
<1>12. iter[{}] = base /\ \A t \in SUBSET D : t # {} => iter[t] = FlowStep(s, iter[t \ {Max(t)}], Max(t) + 1)
  BY <1>9, <1>11
<1> DEFINE a == [k \in 0..n |-> iter[1..k]]
<1>13. ASSUME NEW k \in 1..n PROVE a[k] = FlowStep(s, a[k - 1], k + 1)
  <2>1. Max(1..k) = k /\ (1..k) \ {k} = 1..(k - 1) /\ 1..k \in SUBSET D /\ 1..k # {}
    BY <1>1, PrefixFacts
  <2>2. k \in 0..n /\ k - 1 \in 0..n
    BY <1>1
  <2> QED  BY <1>12, <2>1, <2>2
<1>14. a[0] = base
  <2>1. 1..0 = {} /\ 0 \in 0..n
    BY <1>1
  <2> QED  BY <1>12, <2>1
<1>15. a \in [0..n -> V]
  <2> DEFINE T == {k \in 0..n : a[k] \notin V}
  <2>1. T = {}
    <3> SUFFICES ASSUME T # {} PROVE FALSE
      OBVIOUS
    <3>1. PICK k \in T : \A l \in T : k <= l
      <4>1. T \in SUBSET Nat
        OBVIOUS
      <4> HIDE DEF T
      <4> QED  BY <4>1, LeastOfNat
    <3>2. k \in 0..n /\ a[k] \notin V
      OBVIOUS
    <3> HIDE DEF a
    <3>3. k # 0
      BY <1>3, <1>14, <3>2
    <3>4. k - 1 \in 0..n /\ k \in 1..n /\ k - 1 \notin T
      <4>1. k - 1 \in 0..n /\ k \in 1..n /\ k - 1 < k
        BY <1>1, <3>2, <3>3
      <4> HIDE DEF T
      <4> QED  BY <3>1, <4>1
    <3>5. a[k - 1] \in V /\ a[k] = FlowStep(s, a[k - 1], k + 1)
      BY <1>13, <3>4
    <3> QED  BY <1>4, <3>2, <3>4, <3>5
  <2> QED  BY <2>1
<1>16. DOMAIN e = 1..n /\ n \in 0..n
  BY <1>1
<1>17. SplitFlows(s) = a[n]
  BY <1>2, <1>16
<1> HIDE DEF a
<1> QED  BY <1>13, <1>14, <1>15, <1>17 DEF base, V

\* splitFlows sums what was spent and gained, and what was spent on each day.
LEMMA SplitFlowsFacts ==
  ASSUME NEW s, IsSeries(s), Len(s) >= 2
  PROVE  /\ SplitFlows(s).consumed = SumFunction(Spending(s))
         /\ SplitFlows(s).toppedUp = SumFunction(TopUps(s))
         /\ \A d \in Days(s) : SplitFlows(s).perDay[d] = SumFunctionOnSet(Spending(s), On(s, d))
<1> DEFINE n == Len(s) - 1
           At(k, d) == {i \in 2..k : Day4(s[i].at) = d}
           Reads(f, k) == /\ f.consumed = SumFunctionOnSet(Spending(s), 2..k)
                          /\ f.toppedUp = SumFunctionOnSet(TopUps(s), 2..k)
                          /\ \A d \in Days(s) : f.perDay[d] = SumFunctionOnSet(Spending(s), At(k, d))
<1>1. PICK a : /\ a \in [0..n -> Flows(s)]
               /\ a[0] = [consumed |-> 0, toppedUp |-> 0, perDay |-> [d \in Days(s) |-> 0]]
               /\ \A k \in 1..n : a[k] = FlowStep(s, a[k - 1], k + 1)
               /\ SplitFlows(s) = a[n]
  BY FlowTrace
<1>2. s \in Seq(Snapshots) /\ Len(s) \in Nat /\ DOMAIN s = 1..Len(s) /\ n \in Nat
  BY SeriesFacts DEF IsSeries
<1>3. DOMAIN Spending(s) = 2..Len(s) /\ DOMAIN TopUps(s) = 2..Len(s)
  BY DEF Spending, TopUps
<1>4. \A k \in 1..Len(s) : Whole(Spending(s), 2..k) /\ Whole(TopUps(s), 2..k)
  <2> TAKE k \in 1..Len(s)
  <2>1. 2..k \in SUBSET (2..Len(s))
    BY <1>2
  <2> QED  BY <1>2, <2>1, FlowFacts, WholePart
<1>5. ASSUME NEW k \in 1..Len(s), NEW d PROVE Whole(Spending(s), At(k, d)) /\ SumFunctionOnSet(Spending(s), At(k, d)) \in Int
  <2>1. At(k, d) \in SUBSET (2..k)
    OBVIOUS
  <2> HIDE DEF At
  <2> QED  BY <1>4, <2>1, WholePart, SumFacts
<1>6. Reads(a[0], 1)
  <2>1. 2..1 = {} /\ \A d : At(1, d) = {}
    OBVIOUS
  <2>2. 1 \in 1..Len(s)
    BY <1>2
  <2>3. SumFunctionOnSet(Spending(s), 2..1) = 0 /\ SumFunctionOnSet(TopUps(s), 2..1) = 0
    BY <1>4, <2>1, <2>2, SumFacts
  <2>4. \A d \in Days(s) : SumFunctionOnSet(Spending(s), At(1, d)) = 0
    <3> HIDE DEF At
    <3> QED  BY <1>5, <2>1, <2>2, SumFacts
  <2> QED  BY <1>1, <2>3, <2>4
<1>7. ASSUME NEW k \in 1..n, Reads(a[k - 1], k) PROVE Reads(a[k], k + 1)
  <2> DEFINE i == k + 1
             d0 == Day4(s[i].at)
  <2>1. k - 1 \in 0..n /\ k \in 0..n /\ k \in 1..Len(s) /\ i \in 1..Len(s) /\ i \in 2..Len(s)
    BY <1>2
  <2>2. a[k - 1] \in Flows(s) /\ a[k] = FlowStep(s, a[k - 1], i)
    BY <1>1, <2>1
  <2>3. 2..i = (2..k) \cup {i} /\ i \notin 2..k
    BY <2>1
  <2>4. d0 \in Days(s)
    BY <2>1, DaysFacts
  <2>5. Spending(s)[i] = Spent(s, i) /\ TopUps(s)[i] = Gained(s, i) /\ Spent(s, i) \in Int /\ Gained(s, i) \in Int
    BY <1>2, <2>1, FlowFacts
  <2>6. /\ SumFunctionOnSet(Spending(s), 2..i) = Spending(s)[i] + SumFunctionOnSet(Spending(s), 2..k)
        /\ SumFunctionOnSet(TopUps(s), 2..i) = TopUps(s)[i] + SumFunctionOnSet(TopUps(s), 2..k)
    <3> HIDE DEF i
    <3> QED  BY <1>4, <2>1, <2>3, SumAdds
  <2>7. SumFunctionOnSet(Spending(s), 2..k) \in Int /\ SumFunctionOnSet(TopUps(s), 2..k) \in Int
    BY <1>4, <2>1, SumFacts
  <2>8. a[k].consumed = a[k - 1].consumed + Spent(s, i) /\ a[k].toppedUp = a[k - 1].toppedUp + Gained(s, i)
    BY <2>2 DEF FlowStep
  <2>9. /\ a[k].consumed = SumFunctionOnSet(Spending(s), 2..i)
        /\ a[k].toppedUp = SumFunctionOnSet(TopUps(s), 2..i)
    <3> DEFINE p == SumFunctionOnSet(Spending(s), 2..k)
               q == SumFunctionOnSet(TopUps(s), 2..k)
    <3>1. p \in Int /\ q \in Int /\ a[k - 1].consumed = p /\ a[k - 1].toppedUp = q
      BY <1>7, <2>7
    <3> HIDE DEF p, q, i
    <3> QED  BY <2>5, <2>6, <2>8, <3>1 DEF p, q
  <2>10. ASSUME NEW d \in Days(s) PROVE a[k].perDay[d] = SumFunctionOnSet(Spending(s), At(i, d))
    <3> DEFINE p == SumFunctionOnSet(Spending(s), At(k, d))
    <3>1. a[k - 1].perDay[d] = p /\ p \in Int
      BY <1>5, <1>7, <2>1
    <3>2. a[k].perDay = [a[k - 1].perDay EXCEPT ![d0] = @ + Spent(s, i)] /\ a[k - 1].perDay \in [Days(s) -> Int]
      BY <2>2 DEF FlowStep, Flows
    <3>3. CASE d = d0
      <4>1. At(i, d) = At(k, d) \cup {i} /\ i \notin At(k, d)
        BY <2>3, <3>3
      <4> HIDE DEF At, i, d0, p
      <4>2. SumFunctionOnSet(Spending(s), At(i, d)) = Spending(s)[i] + SumFunctionOnSet(Spending(s), At(k, d))
        <5>1. Whole(Spending(s), At(i, d))
          BY <1>5, <2>1
        <5>2. Whole(Spending(s), At(k, d) \cup {i})
          BY <4>1, <5>1
        <5> DEFINE B == At(k, d)
                   f == Spending(s)
        <5>3. i \notin B /\ Whole(f, B \cup {i})
          BY <4>1, <5>2
        <5> HIDE DEF B, f
        <5>4. SumFunctionOnSet(f, B \cup {i}) = f[i] + SumFunctionOnSet(f, B)
          BY <5>3, SumAdds
        <5> QED  BY <4>1, <5>4 DEF B, f
      <4>3. a[k].perDay[d] = p + Spent(s, i)
        BY <3>1, <3>2, <3>3, <2>4
      <4> QED  BY <2>5, <3>1, <4>2, <4>3 DEF p
    <3>4. CASE d # d0
      <4>1. At(i, d) = At(k, d)
        BY <2>3, <3>4
      <4> HIDE DEF At, i, d0, p
      <4>2. a[k].perDay[d] = p
        BY <3>1, <3>2, <3>4
      <4> QED  BY <4>1, <4>2 DEF p
    <3> QED  BY <3>3, <3>4
  <2> HIDE DEF At
  <2> QED  BY <2>9, <2>10
<1> DEFINE T == {k \in 0..n : ~Reads(a[k], k + 1)}
<1> HIDE DEF Reads
<1>8. T = {}
  <2> SUFFICES ASSUME T # {} PROVE FALSE
    OBVIOUS
  <2>1. PICK k \in T : \A l \in T : k <= l
    <3>1. T \in SUBSET Nat
      OBVIOUS
    <3> HIDE DEF T
    <3> QED  BY <3>1, LeastOfNat
  <2>2. k \in 0..n /\ ~Reads(a[k], k + 1)
    OBVIOUS
  <2>3. k # 0
    <3> SUFFICES ASSUME k = 0 PROVE FALSE
      OBVIOUS
    <3> QED  BY <1>6, <2>2
  <2>4. k \in 1..n /\ k - 1 \in 0..n /\ k - 1 \notin T /\ (k - 1) + 1 = k
    <3>1. k - 1 \in 0..n /\ k \in 1..n /\ k - 1 < k /\ (k - 1) + 1 = k
      BY <1>2, <2>2, <2>3
    <3> HIDE DEF T
    <3> QED  BY <2>1, <3>1
  <2>5. Reads(a[k - 1], k)
    BY <2>4
  <2> QED  BY <1>7, <2>2, <2>4, <2>5
<1>9. n \in 0..n /\ n + 1 = Len(s)
  BY <1>2
<1>10. Reads(a[n], Len(s))
  BY <1>8, <1>9
<1>11. \A d : At(Len(s), d) = On(s, d)
  BY DEF On
<1> QED  BY <1>1, <1>3, <1>10, <1>11 DEF Reads, SumFunction

-------------------------------------------------------------------------------
(* The series an estimate is made of                                        *)

\* The positions of a sequence in the order it has.
Forward(n) == {p \in (1..n) \X (1..n) : p[1] <= p[2]}

\* The order of a sequence is an order of any of its positions.
LEMMA ForwardOrders ==
  ASSUME NEW n \in Nat, NEW I \in SUBSET (1..n)
  PROVE  TotalOn(I, Forward(n)) /\ IsFiniteSet(I)
<1>1. IsFiniteSet(I)
  <2>1. IsFiniteSet(1..n)
    BY FS_Interval
  <2> QED  BY <2>1, FS_Subset
<1>2. \A i, j \in I : <<i, j>> \in Forward(n) <=> i <= j
  BY DEF Forward
<1>3. \A i \in I : i \in Int
  OBVIOUS
<1> QED  BY <1>1, <1>2, <1>3 DEF TotalOn

\* m lists the positions I of s from the first to the last, and r is what s has there.
Selects(m, r, s, I) ==
  /\ m \in [1..Cardinality(I) -> I] /\ Cardinality(I) \in Nat
  /\ \A k, l \in 1..Cardinality(I) : k < l => m[k] < m[l]
  /\ \A i \in I : \E k \in 1..Cardinality(I) : m[k] = i
  /\ r = [k \in 1..Cardinality(I) |-> s[m[k]]]

\* What Where returns.
LEMMA WhereFacts ==
  ASSUME NEW V, NEW s \in Seq(V), NEW I \in SUBSET (DOMAIN s)
  PROVE  /\ \E m : Selects(m, Arranged(s, I, Forward(Len(s))), s, I)
         /\ Arranged(s, I, Forward(Len(s))) \in Seq(V)
<1>1. Len(s) \in Nat /\ DOMAIN s = 1..Len(s)
  OBVIOUS
<1> DEFINE n == Cardinality(I)
           R == Forward(Len(s))
<1>2. TotalOn(I, R) /\ IsFiniteSet(I)
  BY <1>1, ForwardOrders
<1>3. n \in Nat
  BY <1>2, FS_CardinalityType
<1>4. PICK m : Lists(m, I, R) /\ Arranged(s, I, R) = [k \in 1..n |-> s[m[k]]]
  BY <1>2, ArrangedFacts
<1>5. m \in [1..n -> I] /\ \A i \in I : \E k \in 1..n : m[k] = i
  BY <1>4 DEF Lists
<1>6. ASSUME NEW k \in 1..n, NEW l \in 1..n, k < l PROVE m[k] < m[l]
  <2>1. <<m[k], m[l]>> \in R /\ m[k] # m[l]
    BY <1>4, <1>6 DEF Lists
  <2>2. m[k] \in 1..Len(s) /\ m[l] \in 1..Len(s) /\ m[k] <= m[l]
    BY <2>1 DEF Forward
  <2> QED  BY <2>1, <2>2
<1>7. \A k \in 1..n : s[m[k]] \in V
  BY <1>1, <1>5
<1>8. [k \in 1..n |-> s[m[k]]] \in Seq(V)
  BY <1>3, <1>7
<1> QED  BY <1>3, <1>4, <1>5, <1>6, <1>8 DEF Selects

\* All of a sequence, in the order it has, is the sequence.
LEMMA AllOfIt ==
  ASSUME NEW V, NEW s \in Seq(V)
  PROVE  Arranged(s, DOMAIN s, Forward(Len(s))) = s
<1> DEFINE n == Len(s)
           D == DOMAIN s
<1>1. n \in Nat /\ D = 1..n /\ Cardinality(D) = n
  <2>1. Len(s) \in Nat /\ DOMAIN s = 1..Len(s)
    OBVIOUS
  <2> QED  BY <2>1, FS_Interval
<1>2. D \in SUBSET DOMAIN s
  OBVIOUS
<1> HIDE DEF D
<1>3. PICK m : Selects(m, Arranged(s, D, Forward(n)), s, D)
  BY <1>2, WhereFacts
<1>4. m \in [1..n -> 1..n] /\ \A k, l \in 1..n : k < l => m[k] < m[l]
  BY <1>1, <1>3 DEF Selects
<1>5. \A k \in 1..n : m[k] = k
  BY <1>1, <1>4, UpwardsIsSame
<1>6. Arranged(s, D, Forward(n)) = [k \in 1..n |-> s[k]]
  BY <1>1, <1>3, <1>5 DEF Selects
<1>7. s = [k \in 1..n |-> s[k]]
  OBVIOUS
<1> QED  BY <1>6, <1>7 DEF D

\* A series in order, all of it dated, is what validPoints makes of it.
LEMMA SeriesIsValid ==
  ASSUME NEW s, IsSeries(s)
  PROVE  ValidPoints(s) = s
<1> DEFINE n == Len(s)
           dated == {i \in DOMAIN s : s[i].at # 0}
           less == {p \in Pairs(s) : s[p[1]].at < s[p[2]].at}
           sorted == {p \in Pairs(s) : p \in less \/ (p[1] <= p[2] /\ <<p[2], p[1]>> \notin less)}
<1>1. s \in Seq(Snapshots) /\ n \in Nat /\ DOMAIN s = 1..n
  BY SeriesFacts DEF IsSeries
<1>2. \A i \in 1..n : s[i].at \in Nat /\ s[i].at # 0
  <2> TAKE i \in 1..n
  <2>1. s[i].at \in Nat \ {0}
    BY <1>1, SeriesFacts
  <2> QED  BY <2>1
<1>3. \A i, j \in 1..n : i <= j => s[i].at <= s[j].at
  BY <1>1 DEF IsSeries
<1>4. dated = DOMAIN s
  BY <1>1, <1>2
<1>5. sorted = Forward(n)
  <2>1. ASSUME NEW i \in 1..n, NEW j \in 1..n
        PROVE  (s[i].at < s[j].at \/ (i <= j /\ ~(s[j].at < s[i].at))) <=> i <= j
    <3>1. i \in Int /\ j \in Int /\ s[i].at \in Int /\ s[j].at \in Int
      BY <1>2
    <3>2. (i <= j => s[i].at <= s[j].at) /\ (j <= i => s[j].at <= s[i].at)
      BY <1>3
    <3> QED  BY <3>1, <3>2
  <2>2. ASSUME NEW p \in (1..n) \X (1..n)
        PROVE  (p \in less \/ (p[1] <= p[2] /\ <<p[2], p[1]>> \notin less)) <=> p[1] <= p[2]
    <3>1. p[1] \in 1..n /\ p[2] \in 1..n /\ p = <<p[1], p[2]>>
      OBVIOUS
    <3>2. (p \in less <=> s[p[1]].at < s[p[2]].at) /\ (<<p[2], p[1]>> \in less <=> s[p[2]].at < s[p[1]].at)
      BY <3>1 DEF Pairs
    <3> QED  BY <2>1, <3>1, <3>2
  <2> HIDE DEF less
  <2> QED  BY <2>2 DEF Forward, Pairs
<1>6. ValidPoints(s) = Arranged(s, dated, sorted)
  BY DEF ValidPoints, SortedBy
<1> HIDE DEF dated, sorted
<1> QED  BY <1>1, <1>4, <1>5, <1>6, AllOfIt

\* The length of a list written as a function.
LEMMA LenOf ==
  ASSUME NEW n \in Nat, NEW f, DOMAIN f = 1..n, NEW V, \A k \in 1..n : f[k] \in V, f = [k \in 1..n |-> f[k]]
  PROVE  f \in Seq(V) /\ Len(f) = n
<1>1. f \in [1..n -> V]
  OBVIOUS
<1>2. f \in Seq(V)
  BY <1>1
<1> QED  BY <1>2

\* spendView's days: every day from the first snapshot to the last, with the sum of what was spent on it.
LEMMA ViewFacts ==
  ASSUME NEW s, IsSeries(s), NEW now \in Nat
  PROVE  LET v == SpendView(s, now)
             c == Day4(s[Len(s)].at) - Day4(s[1].at) + 1
         IN  /\ c \in Nat /\ c >= 1
             /\ v.consumed = SumFunction(Spending(s)) /\ v.toppedUp = SumFunction(TopUps(s))
             /\ DOMAIN v.daily = 1..c /\ Len(v.daily) = c
             /\ \A k \in 1..c : /\ v.daily[k].date = Day4(s[1].at) + k - 1
                                /\ v.daily[k].consumed = SumFunctionOnSet(Spending(s), On(s, Day4(s[1].at) + k - 1))
                                /\ v.daily[k].toppedUp = SumFunctionOnSet(TopUps(s), On(s, Day4(s[1].at) + k - 1))
             /\ v.perDay = IF Len(s) < 2 THEN Nil ELSE <<SumFunction(Spending(s)) * DayTicks, s[Len(s)].at - s[1].at>>
             /\ v.today = IF v.daily[c].date = Day4(now) THEN <<v.daily[c].consumed>> ELSE Nil
             /\ v.spike = LET mid == Median2([k \in 1..(c - 1) |-> v.daily[k].consumed])
                          IN  IF v.daily[c].date = Day4(now) /\ c - 1 >= MinBaselineDays /\ mid > 0
                              THEN <<2 * v.daily[c].consumed, mid>> ELSE Nil
<1> DEFINE v == SpendView(s, now)
           c == Day4(s[Len(s)].at) - Day4(s[1].at) + 1
           days == Day4(s[1].at)..Day4(s[Len(s)].at)
           row(k) == [date |-> Day4(s[1].at) + k - 1,
                      consumed |-> SumFunctionOnSet(Spending(s), On(s, Day4(s[1].at) + k - 1)),
                      toppedUp |-> SumFunctionOnSet(TopUps(s), On(s, Day4(s[1].at) + k - 1))]
           daily == [k \in 1..Cardinality(days) |-> row(k)]
           earlier == [k \in 1..(Len(daily) - 1) |-> daily[k].consumed]
           isToday == daily[Len(daily)].date = Day4(now)
<1>1. c \in Nat /\ c >= 1 /\ Cardinality(days) = c
  <2>1. Day4(s[1].at) \in Nat /\ Day4(s[Len(s)].at) \in Nat /\ Day4(s[1].at) <= Day4(s[Len(s)].at)
    BY DaysFacts
  <2> DEFINE p == Day4(s[1].at)
             q == Day4(s[Len(s)].at)
  <2> HIDE DEF p, q
  <2>2. p \in Nat /\ q \in Nat /\ p <= q
    BY <2>1 DEF p, q
  <2>3. Cardinality(p..q) = q - p + 1
    BY <2>2, FS_Interval
  <2>4. q - p + 1 \in Nat /\ q - p + 1 >= 1
    BY <2>2
  <2> QED  BY <2>3, <2>4 DEF p, q
<1>2. v = [consumed |-> SumFunction(Spending(s)), toppedUp |-> SumFunction(TopUps(s)), daily |-> daily,
           perDay |-> IF Len(s) < 2 THEN Nil ELSE <<SumFunction(Spending(s)) * DayTicks, s[Len(s)].at - s[1].at>>,
           today |-> IF isToday THEN <<daily[Len(daily)].consumed>> ELSE Nil,
           spike |-> IF isToday /\ Len(earlier) >= MinBaselineDays /\ Median2(earlier) > 0
                     THEN <<2 * daily[Len(daily)].consumed, Median2(earlier)>> ELSE Nil]
  BY DEF SpendView, On
<1> HIDE DEF row
<1>3. Len(daily) = c /\ DOMAIN daily = 1..c /\ \A k \in 1..c : daily[k] = row(k)
  <2>1. daily = [k \in 1..c |-> row(k)]
    BY <1>1
  <2> HIDE DEF daily, c
  <2> DEFINE V == {row(k) : k \in 1..c}
  <2>2. DOMAIN daily = 1..c /\ \A k \in 1..c : daily[k] = row(k) /\ daily[k] \in V
    BY <2>1
  <2>3. daily = [k \in 1..c |-> daily[k]]
    BY <2>1
  <2> HIDE DEF V
  <2>4. Len(daily) = c
    BY <1>1, <2>2, <2>3, LenOf
  <2> QED  BY <2>2, <2>4
<1> HIDE DEF daily, days
<1>4. Len(earlier) = c - 1
  <2> DEFINE n == c - 1
             V == {daily[k].consumed : k \in 1..n}
             f == [k \in 1..n |-> daily[k].consumed]
  <2>1. n \in Nat
    BY <1>1
  <2>2. DOMAIN f = 1..n /\ (\A k \in 1..n : f[k] \in V) /\ f = [k \in 1..n |-> f[k]]
    OBVIOUS
  <2>3. Len(f) = n
    <3> HIDE DEF f, V, n
    <3> QED  BY <2>1, <2>2, LenOf
  <2>4. earlier = f
    BY <1>3
  <2> QED  BY <2>3, <2>4
<1>5. earlier = [k \in 1..(c - 1) |-> daily[k].consumed]
  BY <1>3
<1>6. \A k \in 1..c : daily[k] = row(k)
  BY <1>3
<1> HIDE DEF c, earlier, v
<1>7. v.daily = daily /\ v.consumed = SumFunction(Spending(s)) /\ v.toppedUp = SumFunction(TopUps(s))
  BY <1>2
<1>8. v.perDay = IF Len(s) < 2 THEN Nil ELSE <<SumFunction(Spending(s)) * DayTicks, s[Len(s)].at - s[1].at>>
  BY <1>2
<1>9. v.today = IF daily[c].date = Day4(now) THEN <<daily[c].consumed>> ELSE Nil
  BY <1>2, <1>3
<1>10. v.spike = IF daily[c].date = Day4(now) /\ c - 1 >= MinBaselineDays /\ Median2(earlier) > 0
                 THEN <<2 * daily[c].consumed, Median2(earlier)>> ELSE Nil
  BY <1>2, <1>3, <1>4
<1>11. \A k \in 1..c : /\ v.daily[k].date = Day4(s[1].at) + k - 1
                       /\ v.daily[k].consumed = SumFunctionOnSet(Spending(s), On(s, Day4(s[1].at) + k - 1))
                       /\ v.daily[k].toppedUp = SumFunctionOnSet(TopUps(s), On(s, Day4(s[1].at) + k - 1))
  <2>1. \A k \in 1..c : v.daily[k] = row(k)
    BY <1>6, <1>7
  <2>2. \A k : /\ row(k).date = Day4(s[1].at) + k - 1
               /\ row(k).consumed = SumFunctionOnSet(Spending(s), On(s, Day4(s[1].at) + k - 1))
               /\ row(k).toppedUp = SumFunctionOnSet(TopUps(s), On(s, Day4(s[1].at) + k - 1))
    BY DEF row
  <2> QED  BY <2>1, <2>2
<1>12. v.spike = LET mid == Median2([k \in 1..(c - 1) |-> v.daily[k].consumed])
                 IN  IF v.daily[c].date = Day4(now) /\ c - 1 >= MinBaselineDays /\ mid > 0
                     THEN <<2 * v.daily[c].consumed, mid>> ELSE Nil
  BY <1>5, <1>7, <1>10
<1> QED  BY <1>1, <1>3, <1>7, <1>8, <1>9, <1>11, <1>12 DEF c, v

\* spend_summary agrees with the runway estimates on every series in order: the same
\* spending, days, rate, part of today and spike (runway.go, mcpserver/spend.go).
THEOREM EstimatesRead ==
  ASSUME NEW s, IsSeries(s), NEW now \in Nat
  PROVE  SpendAgreesWithRunway(s, now)
<1> DEFINE n == Len(s)
           span == s[n].at - s[1].at
           flows == SplitFlows(s)
           c == Day4(s[n].at) - Day4(s[1].at) + 1
           v == SpendView(s, now)
           known == [NoRunway EXCEPT !.consumed = flows.consumed, !.toppedUp = flows.toppedUp,
                                     !.confidence = Confidence(n, span)]
           daily == FillDaily(flows.perDay, s[1].at, s[n].at)
           today == Spike(daily, Day4(now))
           full == [known EXCEPT
                      !.burn = <<flows.consumed * DayTicks, span>>,
                      !.runway = IF flows.consumed = 0 THEN Nil
                                 ELSE <<Larger(s[n].bal, 0) * span, flows.consumed * DayTicks>>,
                      !.daily = daily, !.today = today[1], !.spike = today[2]]
<1>1. s \in Seq(Snapshots) /\ n \in Nat /\ n >= 1 /\ DOMAIN s = 1..n
  BY SeriesFacts DEF IsSeries
<1>2. Compute(s, now) = IF n < 2 THEN NoRunway ELSE IF known.confidence = "none" THEN known ELSE full
  BY SeriesIsValid DEF Compute
<1>3. /\ c \in Nat /\ c >= 1
      /\ v.consumed = SumFunction(Spending(s)) /\ v.toppedUp = SumFunction(TopUps(s))
      /\ DOMAIN v.daily = 1..c /\ Len(v.daily) = c
      /\ \A k \in 1..c : /\ v.daily[k].date = Day4(s[1].at) + k - 1
                         /\ v.daily[k].consumed = SumFunctionOnSet(Spending(s), On(s, Day4(s[1].at) + k - 1))
      /\ v.perDay = IF n < 2 THEN Nil ELSE <<SumFunction(Spending(s)) * DayTicks, span>>
      /\ v.today = IF v.daily[c].date = Day4(now) THEN <<v.daily[c].consumed>> ELSE Nil
      /\ v.spike = LET mid == Median2([k \in 1..(c - 1) |-> v.daily[k].consumed])
                   IN  IF v.daily[c].date = Day4(now) /\ c - 1 >= MinBaselineDays /\ mid > 0
                       THEN <<2 * v.daily[c].consumed, mid>> ELSE Nil
  BY ViewFacts
<1>4. CASE n < 2
  <2>1. Compute(s, now) = NoRunway
    BY <1>2, <1>4
  <2>2. 2..n = {} /\ DOMAIN Spending(s) = 2..n /\ DOMAIN TopUps(s) = 2..n
    BY <1>1, <1>4 DEF Spending, TopUps
  <2>3. SumFunction(Spending(s)) = 0 /\ SumFunction(TopUps(s)) = 0
    BY <1>1, <2>2, FlowFacts, SumFacts DEF SumFunction
  <2>4. NoRunway.consumed = 0 /\ NoRunway.toppedUp = 0 /\ NoRunway.confidence = "none"
    BY DEF NoRunway
  <2> HIDE DEF v
  <2>5. Compute(s, now).consumed = v.consumed /\ Compute(s, now).toppedUp = v.toppedUp /\ Compute(s, now).confidence = "none"
    BY <1>3, <2>1, <2>3, <2>4
  <2> QED  BY <2>5 DEF v, SpendAgreesWithRunway
<1>5. CASE n >= 2
  <2>1. /\ flows.consumed = SumFunction(Spending(s)) /\ flows.toppedUp = SumFunction(TopUps(s))
        /\ \A d \in Days(s) : flows.perDay[d] = SumFunctionOnSet(Spending(s), On(s, d))
    BY <1>5, SplitFlowsFacts
  <2>2. Compute(s, now) = IF known.confidence = "none" THEN known ELSE full
    BY <1>1, <1>2, <1>5
  <2>3. known.consumed = flows.consumed /\ known.toppedUp = flows.toppedUp
    BY DEF NoRunway
  <2>4. full.consumed = flows.consumed /\ full.toppedUp = flows.toppedUp /\ full.confidence = known.confidence
    BY DEF NoRunway
  <2>5. full.burn = <<flows.consumed * DayTicks, span>> /\ full.daily = daily /\ full.today = today[1] /\ full.spike = today[2]
    BY DEF NoRunway
  <2>6. DOMAIN daily = 1..c /\ daily = [k \in 1..c |-> daily[k]]
        /\ \A k \in 1..c : daily[k].date = Day4(s[1].at) + k - 1 /\ daily[k].consumed = flows.perDay[Day4(s[1].at) + k - 1]
    BY DEF FillDaily
  <2> HIDE DEF known, full, flows, v, today, daily
  <2>7. Len(daily) = c
    <3> DEFINE V == {daily[k] : k \in 1..c}
    <3>1. \A k \in 1..c : daily[k] \in V
      OBVIOUS
    <3> HIDE DEF V, c
    <3> QED  BY <1>3, <2>6, <3>1, LenOf
  <2>8. \A k \in 1..c : daily[k].date = v.daily[k].date /\ daily[k].consumed = v.daily[k].consumed
    <3> TAKE k \in 1..c
    <3>1. Day4(s[1].at) \in Nat /\ Day4(s[n].at) \in Nat
      BY DaysFacts
    <3>2. Day4(s[1].at) + k - 1 \in Days(s)
      <4> DEFINE p == Day4(s[1].at)
                 q == Day4(s[n].at)
      <4> HIDE DEF p, q
      <4>1. p \in Nat /\ q \in Nat /\ k \in 1..(q - p + 1)
        BY <3>1 DEF p, q
      <4>2. p + k - 1 \in p..q
        BY <4>1
      <4> QED  BY <4>2 DEF p, q, Days
    <3> HIDE DEF c
    <3> QED  BY <1>3, <2>1, <2>6, <3>2
  <2>9. daily # <<>>
    <3> HIDE DEF c
    <3> QED  BY <1>3, <2>6
  <2> DEFINE earlier == [k \in 1..(c - 1) |-> v.daily[k].consumed]
             mid == Median2(earlier)
  <2>10. [i \in 1..(Len(daily) - 1) |-> daily[i].consumed] = earlier
    <3>1. \A k \in 1..(c - 1) : k \in 1..c
      BY <1>3
    <3> HIDE DEF c
    <3> QED  BY <2>7, <2>8, <3>1
  <2>11. c \in 1..c
    BY <1>3
  <2> HIDE DEF c, earlier
  <2>12. today = IF daily[c].date # Day4(now) THEN <<Nil, Nil>>
                 ELSE IF c - 1 < MinBaselineDays \/ ~(mid > 0) THEN <<<<daily[c].consumed>>, Nil>>
                 ELSE <<<<daily[c].consumed>>, <<2 * daily[c].consumed, mid>>>>
    BY <2>7, <2>9, <2>10 DEF today, Spike
  <2>13. c - 1 < MinBaselineDays <=> ~(c - 1 >= MinBaselineDays)
    BY <1>3 DEF MinBaselineDays
  <2>14. v.spike = IF v.daily[c].date = Day4(now) /\ c - 1 >= MinBaselineDays /\ mid > 0
                   THEN <<2 * v.daily[c].consumed, mid>> ELSE Nil
    BY <1>3 DEF earlier
  <2>15. v.today = IF v.daily[c].date = Day4(now) THEN <<v.daily[c].consumed>> ELSE Nil
    BY <1>3
  <2>16. daily[c].date = v.daily[c].date /\ daily[c].consumed = v.daily[c].consumed
    BY <2>8, <2>11
  <2> HIDE DEF mid
  <2>17. today[1] = v.today /\ today[2] = v.spike
    <3> DEFINE x == v.daily[c].consumed
    <3>1. CASE v.daily[c].date # Day4(now)
      BY <2>12, <2>14, <2>15, <2>16, <3>1
    <3>2. CASE v.daily[c].date = Day4(now) /\ (c - 1 < MinBaselineDays \/ ~(mid > 0))
      <4>1. today = <<<<x>>, Nil>>
        BY <2>12, <2>16, <3>2
      <4>2. v.spike = Nil /\ v.today = <<x>>
        BY <2>13, <2>14, <2>15, <3>2
      <4> QED  BY <4>1, <4>2
    <3>3. CASE v.daily[c].date = Day4(now) /\ ~(c - 1 < MinBaselineDays) /\ mid > 0
      <4>1. today = <<<<x>>, <<2 * x, mid>>>>
        BY <2>12, <2>16, <3>3
      <4>2. v.spike = <<2 * x, mid>> /\ v.today = <<x>>
        BY <2>13, <2>14, <2>15, <3>3
      <4> QED  BY <4>1, <4>2
    <3> QED  BY <3>1, <3>2, <3>3
  <2>18. v.perDay = <<SumFunction(Spending(s)) * DayTicks, span>>
    BY <1>1, <1>3, <1>5
  <2> DEFINE r == Compute(s, now)
  <2>19. r.consumed = v.consumed /\ r.toppedUp = v.toppedUp
    BY <1>3, <2>1, <2>2, <2>3, <2>4
  <2>20. ASSUME r.confidence # "none"
         PROVE  /\ r.burn = v.perDay /\ r.today = v.today /\ r.spike = v.spike
                /\ Len(r.daily) = Len(v.daily)
                /\ \A k \in DOMAIN r.daily : /\ r.daily[k].date = v.daily[k].date
                                            /\ r.daily[k].consumed = v.daily[k].consumed
    <3>1. r = full
      BY <2>2, <2>20
    <3> HIDE DEF r, span
    <3>2. r.burn = v.perDay /\ r.today = v.today /\ r.spike = v.spike
      BY <2>1, <2>5, <2>17, <2>18, <3>1
    <3>3. r.daily = daily /\ Len(r.daily) = Len(v.daily)
      BY <1>3, <2>5, <2>7, <3>1
    <3> QED  BY <2>6, <2>8, <3>2, <3>3
  <2> QED  BY <2>19, <2>20 DEF v, SpendAgreesWithRunway
<1> QED  BY <1>1, <1>4, <1>5

-------------------------------------------------------------------------------
(* The points of a trend                                                    *)

\* The least and the greatest element of a set of numbers.
LEMMA MinMaxAre ==
  ASSUME NEW S \in SUBSET Int, NEW m \in S
  PROVE  /\ (\A y \in S : m <= y) => Min(S) = m
         /\ (\A y \in S : m >= y) => Max(S) = m
<1>1. ASSUME \A y \in S : m <= y PROVE Min(S) = m
  <2>1. Min(S) \in S /\ \A y \in S : Min(S) <= y
    BY <1>1 DEF Min
  <2>2. Min(S) <= m /\ m <= Min(S) /\ Min(S) \in Int /\ m \in Int
    BY <1>1, <2>1
  <2> QED  BY <2>2
<1>2. ASSUME \A y \in S : m >= y PROVE Max(S) = m
  <2>1. Max(S) \in S /\ \A y \in S : Max(S) >= y
    BY <1>2 DEF Max
  <2>2. Max(S) >= m /\ m >= Max(S) /\ Max(S) \in Int /\ m \in Int
    BY <1>2, <2>1
  <2> QED  BY <2>2
<1> QED  BY <1>1, <1>2

\* One of finitely many numbers is the least, and one the greatest.
LEMMA ExtremesExist ==
  ASSUME NEW n \in Nat, n >= 1, NEW f, \A i \in 1..n : f[i] \in Int
  PROVE  /\ \E i \in 1..n : \A j \in 1..n : f[i] <= f[j]
         /\ \E i \in 1..n : \A j \in 1..n : f[i] >= f[j]
<1> DEFINE Low(k) == \E i \in 1..k : \A j \in 1..k : f[i] <= f[j]
           High(k) == \E i \in 1..k : \A j \in 1..k : f[i] >= f[j]
           T == {k \in 1..n : ~(Low(k) /\ High(k))}
<1>1. T = {}
  <2> SUFFICES ASSUME T # {} PROVE FALSE
    OBVIOUS
  <2>1. PICK k \in T : \A l \in T : k <= l
    <3>1. T \in SUBSET Nat
      OBVIOUS
    <3> HIDE DEF T
    <3> QED  BY <3>1, LeastOfNat
  <2>2. k \in 1..n /\ ~(Low(k) /\ High(k))
    OBVIOUS
  <2>3. k # 1
    <3> SUFFICES ASSUME k = 1 PROVE FALSE
      OBVIOUS
    <3>1. 1..1 = {1} /\ f[1] \in Int
      BY <2>2
    <3>2. Low(1) /\ High(1)
      BY <3>1
    <3> HIDE DEF Low, High
    <3> QED  BY <2>2, <3>2
  <2>4. k - 1 \in 1..n /\ k - 1 \notin T /\ 1..k = (1..(k - 1)) \cup {k}
    <3>1. k - 1 \in 1..n /\ k - 1 < k /\ k - 1 \in Nat /\ k \in Nat
      BY <2>2, <2>3
    <3>2. 1..k = (1..(k - 1)) \cup {k}
      BY <2>2
    <3> HIDE DEF T
    <3> QED  BY <2>1, <3>1, <3>2
  <2>5. Low(k - 1) /\ High(k - 1)
    BY <2>4
  <2>6. PICK i \in 1..(k - 1) : \A j \in 1..(k - 1) : f[i] <= f[j]
    BY <2>5
  <2>7. PICK h \in 1..(k - 1) : \A j \in 1..(k - 1) : f[h] >= f[j]
    BY <2>5
  <2>8. \A j \in 1..k : f[j] \in Int
    BY <2>2
  <2>9. i \in 1..k /\ h \in 1..k /\ k \in 1..k
    BY <2>2, <2>4
  <2>10. Low(k)
    <3>1. CASE f[i] <= f[k]
      BY <2>4, <2>6, <2>9, <3>1
    <3>2. CASE ~(f[i] <= f[k])
      <4>1. \A j \in 1..k : f[k] <= f[j]
        BY <2>4, <2>6, <2>8, <2>9, <3>2
      <4> QED  BY <2>9, <4>1
    <3> QED  BY <3>1, <3>2
  <2>11. High(k)
    <3>1. CASE f[h] >= f[k]
      BY <2>4, <2>7, <2>9, <3>1
    <3>2. CASE ~(f[h] >= f[k])
      <4>1. \A j \in 1..k : f[k] >= f[j]
        BY <2>4, <2>7, <2>8, <2>9, <3>2
      <4> QED  BY <2>9, <4>1
    <3> QED  BY <3>1, <3>2
  <2> QED  BY <2>2, <2>10, <2>11
<1>2. n \in 1..n
  OBVIOUS
<1>3. Low(n) /\ High(n)
  BY <1>1, <1>2
<1> QED  BY <1>3

Points == [at : Int, bal : Int, low : Int, high : Int, n : Nat, below : BOOLEAN]
KeyOf(interval, at) == IF interval = "raw" THEN at ELSE BucketStart(at, interval)
Opened(interval, x) ==
  [at |-> KeyOf(interval, x.at), bal |-> x.bal, low |-> x.bal, high |-> x.bal, n |-> 1, below |-> x.below]
Joined(p, x) ==
  [p EXCEPT !.bal = x.bal, !.below = x.below, !.n = @ + 1, !.low = Smaller(@, x.bal), !.high = Larger(@, x.bal)]
Joins(interval, points, x) ==
  interval # "raw" /\ points # <<>> /\ points[Len(points)].at = BucketStart(x.at, interval)

\* What bucket does with snapshot x.
BucketStep(interval, points, x) ==
  IF Joins(interval, points, x) THEN [points EXCEPT ![Len(points)] = Joined(@, x)]
  ELSE Append(points, Opened(interval, x))

\* The start of a bucket is a time, and later times have no earlier starts.
LEMMA KeyFacts ==
  ASSUME NEW interval, NEW p \in Nat, NEW q \in Nat, p <= q
  PROVE  /\ KeyOf(interval, p) \in Int /\ KeyOf(interval, q) \in Int
         /\ KeyOf(interval, p) <= KeyOf(interval, q)
         /\ interval = "raw" /\ p < q => KeyOf(interval, p) < KeyOf(interval, q)
<1>1. p - (p % 28) \in Int /\ q - (q % 28) \in Int /\ p - (p % 28) <= q - (q % 28)
  OBVIOUS
<1>2. p - (p % 4) \in Int /\ q - (q % 4) \in Int /\ p - (p % 4) <= q - (q % 4)
  OBVIOUS
<1>3. 7 * DayTicks = 28 /\ DayTicks = 4
  BY DEF DayTicks
<1>4. CASE interval = "raw"
  BY <1>4 DEF KeyOf
<1>5. CASE interval # "raw" /\ interval = "hour"
  <2>1. KeyOf(interval, p) = p /\ KeyOf(interval, q) = q
    BY <1>5 DEF KeyOf, BucketStart
  <2> QED  BY <1>5, <2>1
<1>6. CASE interval # "raw" /\ interval = "week"
  <2>1. KeyOf(interval, p) = p - (p % (7 * DayTicks)) /\ KeyOf(interval, q) = q - (q % (7 * DayTicks))
    BY <1>6 DEF KeyOf, BucketStart
  <2> QED  BY <1>1, <1>3, <1>6, <2>1
<1>7. CASE interval # "raw" /\ interval # "hour" /\ interval # "week"
  <2>1. KeyOf(interval, p) = p - (p % DayTicks) /\ KeyOf(interval, q) = q - (q % DayTicks)
    BY <1>7 DEF KeyOf, BucketStart
  <2> QED  BY <1>2, <1>3, <1>7, <2>1
<1> QED  BY <1>4, <1>5, <1>6, <1>7

\* A point with other figures is a point.
LEMMA PointChanged ==
  ASSUME NEW q \in Points, NEW bal \in Int, NEW below \in BOOLEAN, NEW low \in Int, NEW high \in Int
  PROVE  [q EXCEPT !.bal = bal, !.below = below, !.n = @ + 1, !.low = low, !.high = high] \in Points
<1>1. [q EXCEPT !.bal = bal] \in Points
  BY DEF Points
<1>2. ASSUME NEW z \in Points PROVE [z EXCEPT !.below = below] \in Points
  BY DEF Points
<1>3. ASSUME NEW z \in Points PROVE [z EXCEPT !.n = @ + 1] \in Points
  BY DEF Points
<1>4. ASSUME NEW z \in Points PROVE [z EXCEPT !.low = low] \in Points
  BY DEF Points
<1>5. ASSUME NEW z \in Points PROVE [z EXCEPT !.high = high] \in Points
  BY DEF Points
<1> QED  BY <1>1, <1>2, <1>3, <1>4, <1>5 DEF Points

\* What a snapshot leaves and changes of the point it joins.
LEMMA JoinedFields ==
  ASSUME NEW q \in Points, NEW x \in Snapshots
  PROVE  /\ Joined(q, x).at = q.at /\ Joined(q, x).bal = x.bal /\ Joined(q, x).n = q.n + 1
         /\ Joined(q, x).low = Smaller(q.low, x.bal) /\ Joined(q, x).high = Larger(q.high, x.bal)
BY DEF Joined, Points

\* A step of bucket gives a list of points.
LEMMA BucketStepType ==
  ASSUME NEW interval, NEW p \in Seq(Points), NEW x \in Snapshots
  PROVE  BucketStep(interval, p, x) \in Seq(Points)
<1>1. x.at \in Nat /\ x.bal \in Int /\ x.below \in BOOLEAN
  BY DEF Snapshots
<1>2. Opened(interval, x) \in Points
  <2>1. KeyOf(interval, x.at) \in Int
    BY <1>1, KeyFacts
  <2> QED  BY <1>1, <2>1 DEF Opened, Points
<1>3. ASSUME NEW q \in Points PROVE Joined(q, x) \in Points
  <2>1. Smaller(q.low, x.bal) \in Int /\ Larger(q.high, x.bal) \in Int
    BY <1>1 DEF Points, Smaller, Larger
  <2> HIDE DEF Points
  <2> QED  BY <1>1, <2>1, PointChanged DEF Joined
<1>4. CASE Joins(interval, p, x)
  <2>1. Len(p) \in DOMAIN p /\ p[Len(p)] \in Points
    BY <1>4 DEF Joins
  <2>2. [p EXCEPT ![Len(p)] = Joined(@, x)] \in Seq(Points)
    BY <1>3, <2>1
  <2> QED  BY <1>4, <2>2 DEF BucketStep
<1>5. CASE ~Joins(interval, p, x)
  BY <1>2, <1>5 DEF BucketStep
<1> QED  BY <1>4, <1>5

\* bucket, one snapshot at a time.
LEMMA BucketTrace ==
  ASSUME NEW s \in Seq(Snapshots), NEW interval
  PROVE  \E a : /\ a \in [0..Len(s) -> Seq(Points)]
                /\ a[0] = <<>>
                /\ \A k \in 1..Len(s) : a[k] = BucketStep(interval, a[k - 1], s[k])
                /\ Bucket(s, interval) = a[Len(s)]
<1> DEFINE n == Len(s)
           D == 1..n
           V == Seq(Points)
           base == <<>>
           Body(g, t) == IF t = {} THEN base ELSE BucketStep(interval, g[t \ {Max(t)}], s[Max(t)])
           iter == CHOOSE g : g = [t \in SUBSET DOMAIN s |-> Body(g, t)]
           h == [i \in D |-> [v \in V |-> BucketStep(interval, v, s[i])]]
<1>1. n \in Nat /\ DOMAIN s = D /\ \A i \in D : s[i] \in Snapshots
  OBVIOUS
<1>2. Bucket(s, interval) = iter[DOMAIN s]
  BY DEF Bucket, FoldLeft, MapThenFoldSet, BucketStep, Joins, Opened, Joined, KeyOf
<1>3. base \in V
  OBVIOUS
<1>4. ASSUME NEW i \in D, NEW v \in V PROVE BucketStep(interval, v, s[i]) \in V
  BY <1>1, BucketStepType
<1>5. h \in [D -> [V -> V]]
  BY <1>4
<1>6. \A t \in SUBSET D : t # {} => Max(t) \in t
  BY <1>1, GreatestOf
<1> HIDE DEF base, V
<1>7. PICK g : FoldsLeft(g, n, V, base, h)
  <2> HIDE DEF h, n
  <2> QED  BY <1>1, <1>3, <1>5, FoldLeftExists
<1>8. ASSUME NEW t \in SUBSET D, t # {} PROVE h[Max(t)][g[t \ {Max(t)}]] = BucketStep(interval, g[t \ {Max(t)}], s[Max(t)])
  <2>1. Max(t) \in D /\ g[t \ {Max(t)}] \in V
    <3> HIDE DEF h
    <3> QED  BY <1>6, <1>7, <1>8 DEF FoldsLeft
  <2> QED  BY <2>1
<1>10. g = [t \in SUBSET DOMAIN s |-> Body(g, t)]
  <2>1. ASSUME NEW t \in SUBSET D PROVE g[t] = Body(g, t)
    <3> HIDE DEF h
    <3> QED  BY <1>7, <1>8 DEF FoldsLeft
  <2> HIDE DEF Body, h
  <2> QED  BY <1>1, <1>7, <2>1 DEF FoldsLeft
<1>11. iter = [t \in SUBSET DOMAIN s |-> Body(iter, t)]
  <2> HIDE DEF Body
  <2> QED  BY <1>10
<1> HIDE DEF iter
<1>12. iter[{}] = base /\ \A t \in SUBSET D : t # {} => iter[t] = BucketStep(interval, iter[t \ {Max(t)}], s[Max(t)])
  BY <1>1, <1>11
<1> DEFINE a == [k \in 0..n |-> iter[1..k]]
<1>13. ASSUME NEW k \in 1..n PROVE a[k] = BucketStep(interval, a[k - 1], s[k])
  <2>1. Max(1..k) = k /\ (1..k) \ {k} = 1..(k - 1) /\ 1..k \in SUBSET D /\ 1..k # {}
    BY <1>1, PrefixFacts
  <2>2. k \in 0..n /\ k - 1 \in 0..n
    BY <1>1
  <2> QED  BY <1>12, <2>1, <2>2
<1>14. a[0] = base
  <2>1. 1..0 = {} /\ 0 \in 0..n
    BY <1>1
  <2> QED  BY <1>12, <2>1
<1>15. a \in [0..n -> V]
  <2> DEFINE T == {k \in 0..n : a[k] \notin V}
  <2>1. T = {}
    <3> SUFFICES ASSUME T # {} PROVE FALSE
      OBVIOUS
    <3>1. PICK k \in T : \A l \in T : k <= l
      <4>1. T \in SUBSET Nat
        OBVIOUS
      <4> HIDE DEF T
      <4> QED  BY <4>1, LeastOfNat
    <3>2. k \in 0..n /\ a[k] \notin V
      OBVIOUS
    <3> HIDE DEF a
    <3>3. k # 0
      BY <1>3, <1>14, <3>2
    <3>4. k - 1 \in 0..n /\ k \in 1..n /\ k - 1 \notin T
      <4>1. k - 1 \in 0..n /\ k \in 1..n /\ k - 1 < k
        BY <1>1, <3>2, <3>3
      <4> HIDE DEF T
      <4> QED  BY <3>1, <4>1
    <3>5. a[k - 1] \in V /\ a[k] = BucketStep(interval, a[k - 1], s[k])
      BY <1>13, <3>4
    <3> QED  BY <1>4, <3>2, <3>4, <3>5
  <2> QED  BY <2>1
<1>16. n \in 0..n
  BY <1>1
<1>17. Bucket(s, interval) = a[n]
  BY <1>1, <1>2, <1>16
<1> HIDE DEF a
<1> QED  BY <1>13, <1>14, <1>15, <1>17 DEF base, V

Sizes(p) == [i \in DOMAIN p |-> p[i].n]

\* The points p hold the first k snapshots of s, each of them in one point.
Grouped(p, s, k, interval) ==
  /\ p \in Seq(Points) /\ p # <<>>
  /\ \A i \in 2..Len(p) : p[i - 1].at < p[i].at
  /\ p[Len(p)].at = KeyOf(interval, s[k].at) /\ p[Len(p)].bal = s[k].bal
  /\ SumFunctionOnSet(Sizes(p), 1..Len(p)) = k
  /\ \A i \in 1..Len(p) : (\E j \in 1..k : p[i].low = s[j].bal) /\ (\E j \in 1..k : p[i].high = s[j].bal)
  /\ \A j \in 1..k : \E i \in 1..Len(p) : p[i].low <= s[j].bal /\ s[j].bal <= p[i].high

\* The first snapshot opens the first point.
LEMMA FirstGroup ==
  ASSUME NEW s, IsSeries(s), NEW interval
  PROVE  Grouped(BucketStep(interval, <<>>, s[1]), s, 1, interval)
<1> DEFINE q == BucketStep(interval, <<>>, s[1])
           x == Opened(interval, s[1])
<1>1. s \in Seq(Snapshots) /\ 1 \in 1..Len(s) /\ s[1] \in Snapshots /\ s[1].bal \in Int
  <2>1. s \in Seq(Snapshots) /\ s # <<>>
    BY DEF IsSeries
  <2>2. 1 \in 1..Len(s) /\ s[1] \in Snapshots
    BY <2>1
  <2> QED  BY <2>1, <2>2, SeriesFacts
<1>2. <<>> \in Seq(Points)
  OBVIOUS
<1>3. q \in Seq(Points)
  BY <1>1, <1>2, BucketStepType
<1>4. q = Append(<<>>, x)
  BY DEF BucketStep, Joins
<1>5. x.at = KeyOf(interval, s[1].at) /\ x.bal = s[1].bal /\ x.low = s[1].bal /\ x.high = s[1].bal /\ x.n = 1
  BY DEF Opened
<1> HIDE DEF q, x
<1>6. Len(q) = 1 /\ q[1] = x /\ q # <<>> /\ DOMAIN q = {1}
  BY <1>2, <1>4
<1>7. SumFunctionOnSet(Sizes(q), 1..1) = 1
  <2>1. 1..1 = {1} /\ {1} \ {1} = {} /\ Sizes(q)[1] = 1
    BY <1>5, <1>6 DEF Sizes
  <2>2. IsFiniteSet({1}) /\ IsFiniteSet({})
    BY FS_Singleton, FS_EmptySet
  <2>3. Whole(Sizes(q), {1}) /\ Whole(Sizes(q), {})
    BY <2>1, <2>2 DEF Whole
  <2>4. SumFunctionOnSet(Sizes(q), {}) = 0
    BY <2>3, SumFacts
  <2>5. SumFunctionOnSet(Sizes(q), {1}) = Sizes(q)[1] + SumFunctionOnSet(Sizes(q), {1} \ {1})
    <3> DEFINE f == Sizes(q)
    <3> HIDE DEF f
    <3>1. Whole(f, {1}) /\ 1 \in {1}
      BY <2>3 DEF f
    <3>2. SumFunctionOnSet(f, {1}) = f[1] + SumFunctionOnSet(f, {1} \ {1})
      BY <3>1, SumFacts
    <3> QED  BY <3>2 DEF f
  <2> QED  BY <2>1, <2>4, <2>5
<1>8. 1..1 = {1} /\ 2..1 = {}
  OBVIOUS
<1>9. (\A i \in 1..1 : (\E j \in 1..1 : q[i].low = s[j].bal) /\ (\E j \in 1..1 : q[i].high = s[j].bal))
      /\ \A j \in 1..1 : \E i \in 1..1 : q[i].low <= s[j].bal /\ s[j].bal <= q[i].high
  BY <1>1, <1>5, <1>6, <1>8
<1>10. q[Len(q)].at = KeyOf(interval, s[1].at) /\ q[Len(q)].bal = s[1].bal
  BY <1>5, <1>6
<1>11. Grouped(q, s, 1, interval)
  BY <1>3, <1>6, <1>7, <1>8, <1>9, <1>10 DEF Grouped
<1> QED  BY <1>11 DEF q

\* A snapshot joins the last point.
LEMMA JoinGroup ==
  ASSUME NEW s, IsSeries(s), NEW interval, NEW k \in 2..Len(s), NEW p, Grouped(p, s, k - 1, interval),
         Joins(interval, p, s[k])
  PROVE  Grouped(BucketStep(interval, p, s[k]), s, k, interval)
<1> DEFINE x == s[k]
           q == BucketStep(interval, p, x)
           n == Len(p)
<1>1. s \in Seq(Snapshots) /\ Len(s) \in Nat /\ k \in 1..Len(s) /\ k - 1 \in 1..Len(s) /\ x \in Snapshots
  <2>1. s \in Seq(Snapshots)
    BY DEF IsSeries
  <2> QED  BY <2>1
<1>2. p \in Seq(Points) /\ p # <<>>
  BY DEF Grouped
<1>3. n \in Nat /\ n \in 1..n /\ DOMAIN p = 1..n /\ \A i \in 1..n : p[i] \in Points
  BY <1>2
<1>4. q = [p EXCEPT ![n] = Joined(@, x)]
  BY DEF BucketStep
<1>5. q \in Seq(Points)
  BY <1>1, <1>2, BucketStepType
<1>6. \A j \in 1..Len(s) : s[j].bal \in Int
  BY <1>1, SeriesFacts
<1>0. /\ \A i \in 2..n : p[i - 1].at < p[i].at
      /\ SumFunctionOnSet(Sizes(p), 1..n) = k - 1
      /\ \A i \in 1..n : (\E j \in 1..(k - 1) : p[i].low = s[j].bal) /\ (\E j \in 1..(k - 1) : p[i].high = s[j].bal)
      /\ \A j \in 1..(k - 1) : \E i \in 1..n : p[i].low <= s[j].bal /\ s[j].bal <= p[i].high
      /\ p[n].at = BucketStart(s[k].at, interval) /\ interval # "raw"
  BY DEF Grouped, Joins
<1> HIDE DEF q, n
<1>7. DOMAIN q = 1..n /\ Len(q) = n /\ q # <<>> /\ q[n] = Joined(p[n], x) /\ \A i \in 1..(n - 1) : q[i] = p[i]
  <2>1. DOMAIN q = 1..n
    BY <1>3, <1>4
  <2>2. Len(q) = n /\ q # <<>>
    BY <1>3, <1>5, <2>1
  <2> QED  BY <1>3, <1>4, <2>1, <2>2
<1>8. /\ q[n].at = p[n].at /\ q[n].bal = x.bal /\ q[n].n = p[n].n + 1
      /\ q[n].low = Smaller(p[n].low, x.bal) /\ q[n].high = Larger(p[n].high, x.bal)
  BY <1>1, <1>3, <1>7, JoinedFields
<1>9. q[n].at = KeyOf(interval, x.at)
  BY <1>0, <1>8 DEF KeyOf
<1>10. \A i \in 2..n : q[i - 1].at < q[i].at
  <2> SUFFICES ASSUME NEW i \in 2..n PROVE q[i - 1].at < q[i].at
    OBVIOUS
  <2>1. p[i - 1].at < p[i].at
    BY <1>0
  <2>2. i - 1 \in 1..(n - 1) /\ (i = n \/ i \in 1..(n - 1))
    BY <1>3
  <2>3. q[i - 1].at = p[i - 1].at /\ q[i].at = p[i].at
    BY <1>7, <1>8, <2>2
  <2> QED  BY <2>1, <2>3
<1>11. SumFunctionOnSet(Sizes(q), 1..n) = k
  <2> DEFINE f == Sizes(p)
             g == Sizes(q)
             R == 1..(n - 1)
  <2>1. \A i \in 1..n : f[i] = p[i].n /\ g[i] = q[i].n /\ p[i].n \in Int /\ q[i].n \in Int
    <3>1. \A i \in 1..n : p[i] \in Points /\ q[i] \in Points
      BY <1>3, <1>5, <1>7
    <3>2. \A z \in Points : z.n \in Int
      BY DEF Points
    <3> QED  BY <1>3, <1>7, <3>1, <3>2 DEF Sizes
  <2>2. \A i \in R : i \in 1..n /\ g[i] = f[i]
    BY <1>3, <1>7, <2>1
  <2>3. g[n] = f[n] + 1 /\ f[n] \in Int
    BY <1>3, <1>8, <2>1
  <2>4. (1..n) \ {n} = R /\ R \in SUBSET (1..n) /\ IsFiniteSet(1..n)
    <3>1. IsFiniteSet(1..n)
      BY <1>3, FS_Interval
    <3> QED  BY <1>3, <3>1
  <2> HIDE DEF f, g, R
  <2>5. Whole(f, 1..n) /\ Whole(g, 1..n)
    BY <2>1, <2>4 DEF Whole
  <2>6. Whole(f, R)
    BY <2>4, <2>5, WholePart
  <2>7. SumFunctionOnSet(f, R) = SumFunctionOnSet(g, R) /\ SumFunctionOnSet(f, R) \in Int
    BY <2>2, <2>6, SumSame, SumFacts
  <2>8. SumFunctionOnSet(f, 1..n) = f[n] + SumFunctionOnSet(f, (1..n) \ {n})
    BY <1>3, <2>5, SumFacts
  <2>9. SumFunctionOnSet(g, 1..n) = g[n] + SumFunctionOnSet(g, (1..n) \ {n})
    BY <1>3, <2>5, SumFacts
  <2>10. SumFunctionOnSet(f, 1..n) = k - 1
    BY <1>0 DEF f
  <2>11. SumFunctionOnSet(g, 1..n) = SumFunctionOnSet(f, 1..n) + 1
    <3> DEFINE r == SumFunctionOnSet(f, R)
    <3>1. r \in Int /\ SumFunctionOnSet(f, 1..n) = f[n] + r /\ SumFunctionOnSet(g, 1..n) = g[n] + r
      BY <2>4, <2>7, <2>8, <2>9
    <3> HIDE DEF r
    <3> QED  BY <2>3, <3>1
  <2> QED  BY <1>1, <2>10, <2>11 DEF g
<1>12. p[n].low \in Int /\ p[n].high \in Int /\ x.bal \in Int
  BY <1>1, <1>3, <1>6 DEF Points
<1>13. \A i \in 1..n : (\E j \in 1..k : q[i].low = s[j].bal) /\ (\E j \in 1..k : q[i].high = s[j].bal)
  <2> SUFFICES ASSUME NEW i \in 1..n PROVE (\E j \in 1..k : q[i].low = s[j].bal) /\ (\E j \in 1..k : q[i].high = s[j].bal)
    OBVIOUS
  <2>1. (\E j \in 1..(k - 1) : p[i].low = s[j].bal) /\ (\E j \in 1..(k - 1) : p[i].high = s[j].bal)
    BY <1>0
  <2>2. k \in 1..k /\ \A j \in 1..(k - 1) : j \in 1..k
    BY <1>1
  <2>3. CASE i = n
    <3>1. q[i].low = p[i].low \/ q[i].low = s[k].bal
      BY <1>8, <2>3 DEF Smaller
    <3>2. q[i].high = p[i].high \/ q[i].high = s[k].bal
      BY <1>8, <2>3 DEF Larger
    <3> QED  BY <2>1, <2>2, <3>1, <3>2
  <2>4. CASE i # n
    <3>1. i \in 1..(n - 1)
      BY <1>3, <2>4
    <3> QED  BY <1>7, <2>1, <2>2, <3>1
  <2> QED  BY <2>3, <2>4
<1>14. \A j \in 1..k : \E i \in 1..n : q[i].low <= s[j].bal /\ s[j].bal <= q[i].high
  <2> SUFFICES ASSUME NEW j \in 1..k PROVE \E i \in 1..n : q[i].low <= s[j].bal /\ s[j].bal <= q[i].high
    OBVIOUS
  <2>1. q[n].low <= p[n].low /\ q[n].low <= x.bal /\ p[n].high <= q[n].high /\ x.bal <= q[n].high
    BY <1>8, <1>12 DEF Smaller, Larger
  <2>2. q[n].low \in Int /\ q[n].high \in Int
    BY <1>8, <1>12 DEF Smaller, Larger
  <2>3. CASE j = k
    BY <1>3, <2>1, <2>3
  <2>4. CASE j # k
    <3>1. j \in 1..(k - 1) /\ j \in 1..Len(s)
      BY <1>1, <2>4
    <3>2. PICK i \in 1..n : p[i].low <= s[j].bal /\ s[j].bal <= p[i].high
      BY <1>0, <3>1
    <3>3. CASE i = n
      <4>1. s[j].bal \in Int
        BY <1>6, <3>1
      <4>2. q[n].low <= s[j].bal /\ s[j].bal <= q[n].high
        BY <1>12, <2>1, <2>2, <3>2, <3>3, <4>1
      <4> QED  BY <1>3, <4>2
    <3>4. CASE i # n
      <4>1. i \in 1..(n - 1)
        BY <1>3, <3>4
      <4> QED  BY <1>7, <3>2, <4>1
    <3> QED  BY <3>3, <3>4
  <2> QED  BY <2>3, <2>4
<1>15. Grouped(q, s, k, interval)
  BY <1>5, <1>7, <1>8, <1>9, <1>10, <1>11, <1>13, <1>14 DEF Grouped, n
<1> QED  BY <1>15 DEF q

\* A snapshot opens a point, later than the last one.
LEMMA OpenGroup ==
  ASSUME NEW s, IsApart(s), NEW interval, NEW k \in 2..Len(s), NEW p, Grouped(p, s, k - 1, interval),
         ~Joins(interval, p, s[k])
  PROVE  Grouped(BucketStep(interval, p, s[k]), s, k, interval)
<1> DEFINE x == s[k]
           q == BucketStep(interval, p, x)
           n == Len(p)
           y == Opened(interval, x)
<1>1. s \in Seq(Snapshots) /\ Len(s) \in Nat /\ k \in 1..Len(s) /\ k - 1 \in 1..Len(s) /\ x \in Snapshots /\ DOMAIN s = 1..Len(s)
  <2>1. s \in Seq(Snapshots)
    BY DEF IsApart, IsSeries
  <2> QED  BY <2>1
<1>2. p \in Seq(Points) /\ p # <<>>
  BY DEF Grouped
<1>3. n \in Nat /\ n \in 1..n /\ DOMAIN p = 1..n /\ \A i \in 1..n : p[i] \in Points
  BY <1>2
<1>4. q = Append(p, y)
  BY DEF BucketStep
<1>5. q \in Seq(Points)
  BY <1>1, <1>2, BucketStepType
<1>6. \A j \in 1..Len(s) : s[j].bal \in Int /\ s[j].at \in Nat
  BY <1>1, SeriesFacts
<1>7. /\ \A i \in 2..n : p[i - 1].at < p[i].at
      /\ SumFunctionOnSet(Sizes(p), 1..n) = k - 1
      /\ \A i \in 1..n : (\E j \in 1..(k - 1) : p[i].low = s[j].bal) /\ (\E j \in 1..(k - 1) : p[i].high = s[j].bal)
      /\ \A j \in 1..(k - 1) : \E i \in 1..n : p[i].low <= s[j].bal /\ s[j].bal <= p[i].high
      /\ p[n].at = KeyOf(interval, s[k - 1].at)
      /\ interval = "raw" \/ p[n].at # BucketStart(x.at, interval)
  BY <1>2 DEF Grouped, Joins
<1>8. y.at = KeyOf(interval, x.at) /\ y.bal = x.bal /\ y.low = x.bal /\ y.high = x.bal /\ y.n = 1
  BY DEF Opened
<1> DEFINE l == n + 1
<1>9. DOMAIN q = 1..l /\ Len(q) = l /\ q # <<>> /\ q[l] = y /\ \A i \in 1..n : q[i] = p[i]
  BY <1>2, <1>3, <1>4
<1> HIDE DEF q, n, y
<1>10. l \in Nat /\ l \in 1..l /\ 1..l = (1..n) \cup {l} /\ l \notin 1..n
  BY <1>3
<1>11. p[n].at < y.at
  <2>1. s[k - 1].at < s[k].at /\ s[k - 1].at \in Nat /\ s[k].at \in Nat
    <3>1. k - 1 < k
      BY <1>1
    <3> QED  BY <1>1, <1>6, <3>1 DEF IsApart
  <2>2. s[k - 1].at <= s[k].at
    BY <2>1
  <2>3. /\ KeyOf(interval, s[k - 1].at) \in Int /\ KeyOf(interval, s[k].at) \in Int
        /\ KeyOf(interval, s[k - 1].at) <= KeyOf(interval, s[k].at)
        /\ interval = "raw" => KeyOf(interval, s[k - 1].at) < KeyOf(interval, s[k].at)
    BY <2>1, <2>2, KeyFacts
  <2>4. CASE interval = "raw"
    BY <1>7, <1>8, <2>3, <2>4
  <2>5. CASE interval # "raw"
    <3>1. y.at = BucketStart(x.at, interval)
      BY <1>8, <2>5 DEF KeyOf
    <3>2. p[n].at # y.at
      BY <1>7, <2>5, <3>1
    <3> QED  BY <1>7, <1>8, <2>3, <3>2
  <2> QED  BY <2>4, <2>5
<1>12. \A i \in 2..l : q[i - 1].at < q[i].at
  <2> SUFFICES ASSUME NEW i \in 2..l PROVE q[i - 1].at < q[i].at
    OBVIOUS
  <2>1. CASE i = l
    <3>1. i - 1 = n
      BY <1>3, <2>1
    <3>2. q[i - 1] = p[n] /\ q[i] = y
      BY <1>3, <1>9, <2>1, <3>1
    <3> QED  BY <1>11, <3>2
  <2>2. CASE i # l
    <3>1. i \in 2..n /\ i \in 1..n /\ i - 1 \in 1..n
      BY <1>3, <2>2
    <3> QED  BY <1>7, <1>9, <3>1
  <2> QED  BY <2>1, <2>2
<1>13. SumFunctionOnSet(Sizes(q), 1..l) = k
  <2> DEFINE f == Sizes(p)
             g == Sizes(q)
  <2>1. \A i \in 1..l : g[i] = q[i].n /\ q[i].n \in Int
    <3>1. \A i \in 1..l : q[i] \in Points
      BY <1>5, <1>9
    <3>2. \A z \in Points : z.n \in Int
      BY DEF Points
    <3> QED  BY <1>9, <3>1, <3>2 DEF Sizes
  <2>2. \A i \in 1..n : i \in 1..l /\ g[i] = f[i] /\ f[i] \in Int
    <3>1. \A i \in 1..n : f[i] = p[i].n /\ i \in 1..l
      BY <1>3, <1>10 DEF Sizes
    <3> QED  BY <1>9, <2>1, <3>1
  <2>3. g[l] = 1
    BY <1>8, <1>9, <1>10, <2>1
  <2>4. IsFiniteSet(1..n) /\ IsFiniteSet(1..l)
    BY <1>3, <1>10, FS_Interval
  <2> HIDE DEF f, g, l
  <2>5. Whole(f, 1..n) /\ Whole(g, 1..l)
    BY <2>1, <2>2, <2>4 DEF Whole
  <2>6. SumFunctionOnSet(f, 1..n) = SumFunctionOnSet(g, 1..n)
    BY <2>2, <2>5, SumSame
  <2>7. SumFunctionOnSet(g, (1..n) \cup {l}) = g[l] + SumFunctionOnSet(g, 1..n)
    <3>1. Whole(g, (1..n) \cup {l}) /\ l \notin 1..n
      BY <1>10, <2>5
    <3> QED  BY <3>1, SumAdds
  <2>8. SumFunctionOnSet(f, 1..n) = k - 1
    BY <1>7 DEF f
  <2>9. SumFunctionOnSet(g, 1..l) = 1 + (k - 1)
    BY <1>10, <2>3, <2>6, <2>7, <2>8
  <2> QED  BY <1>1, <2>9 DEF g
<1>14. k \in 1..k /\ \A j \in 1..(k - 1) : j \in 1..k
  BY <1>1
<1>15. \A i \in 1..l : (\E j \in 1..k : q[i].low = s[j].bal) /\ (\E j \in 1..k : q[i].high = s[j].bal)
  <2> SUFFICES ASSUME NEW i \in 1..l PROVE (\E j \in 1..k : q[i].low = s[j].bal) /\ (\E j \in 1..k : q[i].high = s[j].bal)
    OBVIOUS
  <2> HIDE DEF l
  <2>1. CASE i = l
    BY <1>8, <1>9, <1>14, <2>1
  <2>2. CASE i \in 1..n
    <3>1. (\E j \in 1..(k - 1) : p[i].low = s[j].bal) /\ (\E j \in 1..(k - 1) : p[i].high = s[j].bal)
      BY <1>7, <2>2
    <3>2. q[i] = p[i]
      BY <1>9, <2>2
    <3> QED  BY <1>14, <3>1, <3>2
  <2> QED  BY <1>10, <2>1, <2>2
<1>16. \A j \in 1..k : \E i \in 1..l : q[i].low <= s[j].bal /\ s[j].bal <= q[i].high
  <2> SUFFICES ASSUME NEW j \in 1..k PROVE \E i \in 1..l : q[i].low <= s[j].bal /\ s[j].bal <= q[i].high
    OBVIOUS
  <2> HIDE DEF l
  <2>1. CASE j = k
    <3>1. x.bal \in Int
      BY <1>1, <1>6
    <3> QED  BY <1>8, <1>9, <1>10, <2>1, <3>1
  <2>2. CASE j # k
    <3>1. j \in 1..(k - 1)
      BY <1>1, <2>2
    <3>2. PICK i \in 1..n : p[i].low <= s[j].bal /\ s[j].bal <= p[i].high
      BY <1>7, <3>1
    <3> QED  BY <1>9, <1>10, <3>2
  <2> QED  BY <2>1, <2>2
<1>17. q[l].at = KeyOf(interval, x.at) /\ q[l].bal = x.bal
  BY <1>8, <1>9
<1>18. Grouped(q, s, k, interval)
  BY <1>5, <1>9, <1>12, <1>13, <1>15, <1>16, <1>17 DEF Grouped
<1> QED  BY <1>18 DEF q

\* The points that bucket returns hold every snapshot, each in one point, in order.
LEMMA BucketFacts ==
  ASSUME NEW s, IsApart(s), NEW interval
  PROVE  Grouped(Bucket(s, interval), s, Len(s), interval)
<1> DEFINE n == Len(s)
<1>1. IsSeries(s) /\ s \in Seq(Snapshots) /\ n \in Nat /\ n >= 1 /\ DOMAIN s = 1..n
  BY SeriesFacts DEF IsApart, IsSeries
<1>2. PICK a : /\ a \in [0..n -> Seq(Points)] /\ a[0] = <<>>
               /\ \A k \in 1..n : a[k] = BucketStep(interval, a[k - 1], s[k])
               /\ Bucket(s, interval) = a[n]
  BY <1>1, BucketTrace
<1> DEFINE T == {k \in 1..n : ~Grouped(a[k], s, k, interval)}
<1>3. T = {}
  <2> SUFFICES ASSUME T # {} PROVE FALSE
    OBVIOUS
  <2>1. PICK k \in T : \A l \in T : k <= l
    <3>1. T \in SUBSET Nat
      OBVIOUS
    <3> HIDE DEF T
    <3> QED  BY <3>1, LeastOfNat
  <2>2. k \in 1..n /\ ~Grouped(a[k], s, k, interval)
    OBVIOUS
  <2>3. k # 1
    <3> SUFFICES ASSUME k = 1 PROVE FALSE
      OBVIOUS
    <3>1. a[1] = BucketStep(interval, a[0], s[1])
      <4>1. 1 \in 1..n /\ 1 - 1 = 0
        BY <1>1
      <4> QED  BY <1>2, <4>1
    <3> QED  BY <1>1, <1>2, <2>2, <3>1, FirstGroup
  <2>4. k \in 2..n /\ k - 1 \in 1..n /\ k - 1 \notin T
    <3>1. k \in 2..n /\ k - 1 \in 1..n /\ k - 1 < k
      BY <1>1, <2>2, <2>3
    <3> HIDE DEF T
    <3> QED  BY <2>1, <3>1
  <2>5. Grouped(a[k - 1], s, k - 1, interval)
    BY <2>4
  <2>6. a[k] = BucketStep(interval, a[k - 1], s[k])
    BY <1>2, <2>2
  <2> HIDE DEF T, n
  <2>7. k \in 2..Len(s)
    BY <2>4 DEF n
  <2>8. CASE Joins(interval, a[k - 1], s[k])
    BY <1>1, <2>2, <2>5, <2>6, <2>7, <2>8, JoinGroup
  <2>9. CASE ~Joins(interval, a[k - 1], s[k])
    BY <2>2, <2>5, <2>6, <2>7, <2>9, OpenGroup
  <2> QED  BY <2>8, <2>9
<1>4. n \in 1..n
  BY <1>1
<1> QED  BY <1>2, <1>3, <1>4

\* What was spent or gained on each day adds up to all of it.
LEMMA DaysAddUp ==
  ASSUME NEW s, IsSeries(s), NEW f, Whole(f, 2..Len(s)), NEW c, c = Day4(s[Len(s)].at) - Day4(s[1].at) + 1,
         NEW F, \A k \in 1..c : F[k] = SumFunctionOnSet(f, On(s, Day4(s[1].at) + k - 1))
  PROVE  SumFunctionOnSet(F, 1..c) = SumFunctionOnSet(f, 2..Len(s))
<1> DEFINE S == 2..Len(s)
           first == Day4(s[1].at)
           last == Day4(s[Len(s)].at)
           part == [i \in S |-> Day4(s[i].at) - first + 1]
<1>1. first \in Nat /\ last \in Nat /\ first <= last /\ \A i \in S : Day4(s[i].at) \in first..last
  <2>1. Len(s) \in Nat /\ \A i \in S : i \in 1..Len(s)
    BY DEF IsSeries
  <2> QED  BY <2>1, DaysFacts DEF Days
<1> HIDE DEF first, last
<1>2. c = last - first + 1 /\ c \in Nat
  <2>1. c = last - first + 1
    BY DEF first, last
  <2> QED  BY <1>1, <2>1
<1>3. \A i \in S : part[i] \in 1..c
  <2> TAKE i \in S
  <2> DEFINE d == Day4(s[i].at)
  <2>1. d \in first..last
    BY <1>1
  <2> HIDE DEF d
  <2>2. d - first + 1 \in 1..c
    BY <1>1, <1>2, <2>1
  <2> QED  BY <2>2 DEF d
<1>4. ASSUME NEW k \in 1..c PROVE PartOf(S, part, k) = On(s, first + k - 1)
  <2>1. ASSUME NEW i \in S PROVE part[i] = k <=> Day4(s[i].at) = first + k - 1
    <3> DEFINE d == Day4(s[i].at)
    <3>1. d \in first..last
      BY <1>1
    <3> HIDE DEF d
    <3>2. d - first + 1 = k <=> d = first + k - 1
      BY <1>1, <1>2, <3>1
    <3> QED  BY <3>2 DEF d
  <2> QED  BY <2>1 DEF On, PartOf
<1>5. part \in [S -> 1..c]
  BY <1>3
<1>6. \A k \in 1..c : F[k] = SumFunctionOnSet(f, PartOf(S, part, k))
  BY <1>4 DEF first
<1> HIDE DEF part, S
<1>7. SumFunctionOnSet(F, 1..c) = SumFunctionOnSet(f, S)
  <2>1. Whole(f, S)
    BY DEF S
  <2> QED  BY <1>2, <1>5, <1>6, <2>1, SumOfParts
<1> QED  BY <1>7 DEF S

\* spend_summary of a series: the flows make up what the balance lost, and the days the flows.
ViewAddsUp(s) ==
  LET v == SpendView(s, s[Len(s)].at)
  IN  /\ v.consumed = SumFunction(Spending(s)) /\ v.toppedUp = SumFunction(TopUps(s))
      /\ v.consumed - v.toppedUp = s[1].bal - s[Len(s)].bal
      /\ SumFunction([k \in DOMAIN v.daily |-> v.daily[k].consumed]) = v.consumed
      /\ SumFunction([k \in DOMAIN v.daily |-> v.daily[k].toppedUp]) = v.toppedUp

\* spendView of every series.
LEMMA ViewSums ==
  ASSUME NEW s, IsApart(s)
  PROVE  ViewAddsUp(s)
<1> DEFINE n == Len(s)
           v == SpendView(s, s[n].at)
<1>1. IsSeries(s) /\ s \in Seq(Snapshots) /\ s # <<>> /\ n \in Nat /\ n >= 1 /\ DOMAIN s = 1..n /\ 1 \in 1..n /\ n \in 1..n
  <2>1. IsSeries(s) /\ s \in Seq(Snapshots) /\ s # <<>>
    BY DEF IsApart, IsSeries
  <2> QED  BY <2>1, SeriesFacts
<1>2. \A i \in 1..n : s[i].at \in Nat /\ s[i].bal \in Int
  BY <1>1, SeriesFacts
<1>3. SumFunction(Spending(s)) - SumFunction(TopUps(s)) = s[1].bal - s[n].bal
  BY <1>1, FlowsBalance
<1>4. /\ v.consumed = SumFunction(Spending(s)) /\ v.toppedUp = SumFunction(TopUps(s))
      /\ SumFunction([k \in DOMAIN v.daily |-> v.daily[k].consumed]) = v.consumed
      /\ SumFunction([k \in DOMAIN v.daily |-> v.daily[k].toppedUp]) = v.toppedUp
  <2> DEFINE c == Day4(s[n].at) - Day4(s[1].at) + 1
             F == [k \in DOMAIN v.daily |-> v.daily[k].consumed]
             G == [k \in DOMAIN v.daily |-> v.daily[k].toppedUp]
  <2>1. s[n].at \in Nat
    BY <1>1, <1>2
  <2>2. /\ v.consumed = SumFunction(Spending(s)) /\ v.toppedUp = SumFunction(TopUps(s))
        /\ DOMAIN v.daily = 1..c
        /\ \A k \in 1..c : /\ v.daily[k].consumed = SumFunctionOnSet(Spending(s), On(s, Day4(s[1].at) + k - 1))
                           /\ v.daily[k].toppedUp = SumFunctionOnSet(TopUps(s), On(s, Day4(s[1].at) + k - 1))
    BY <1>1, <2>1, ViewFacts
  <2> HIDE DEF v
  <2>3. DOMAIN F = 1..c /\ DOMAIN G = 1..c
    BY <2>2
  <2>4. /\ \A k \in 1..c : F[k] = SumFunctionOnSet(Spending(s), On(s, Day4(s[1].at) + k - 1))
        /\ \A k \in 1..c : G[k] = SumFunctionOnSet(TopUps(s), On(s, Day4(s[1].at) + k - 1))
    BY <2>2
  <2> HIDE DEF F, G
  <2>5. Whole(Spending(s), 2..n) /\ Whole(TopUps(s), 2..n)
    BY <1>1, FlowFacts
  <2>6. SumFunctionOnSet(F, 1..c) = SumFunctionOnSet(Spending(s), 2..n)
    BY <1>1, <2>4, <2>5, DaysAddUp
  <2>7. SumFunctionOnSet(G, 1..c) = SumFunctionOnSet(TopUps(s), 2..n)
    BY <1>1, <2>4, <2>5, DaysAddUp
  <2>8. DOMAIN Spending(s) = 2..n /\ DOMAIN TopUps(s) = 2..n
    BY DEF Spending, TopUps
  <2>9. SumFunction(F) = SumFunction(Spending(s)) /\ SumFunction(G) = SumFunction(TopUps(s))
    BY <2>3, <2>6, <2>7, <2>8 DEF SumFunction
  <2> QED  BY <2>2, <2>9 DEF F, G
<1> HIDE DEF v
<1>5. v.consumed - v.toppedUp = s[1].bal - s[n].bal
  BY <1>3, <1>4
<1> QED  BY <1>4, <1>5 DEF ViewAddsUp, v

\* What summarize and bucket make of a series: the points hold each sample once.
TellsAll(s, interval) ==
  LET t == Summarize(s)
      b == Bucket(s, interval)
      balances == {s[i].bal : i \in DOMAIN s}
  IN  /\ t.count = Len(s) /\ t.consumed = SumFunction(Spending(s))
      /\ t.consumed - t.toppedUp = s[1].bal - s[Len(s)].bal /\ t.change = 0 - (s[1].bal - s[Len(s)].bal)
      /\ t.low = Min(balances) /\ t.high = Max(balances)
      /\ SumFunction([i \in DOMAIN b |-> b[i].n]) = Len(s)
      /\ \A i \in DOMAIN b \ {1} : b[i - 1].at < b[i].at
      /\ b[Len(b)].bal = s[Len(s)].bal
      /\ Min({b[i].low : i \in DOMAIN b}) = t.low /\ Max({b[i].high : i \in DOMAIN b}) = t.high

\* Whatever the grouping, summary and points tell everything of the series they are given.
LEMMA SummaryTellsAll ==
  ASSUME NEW s, IsApart(s), NEW interval
  PROVE  TellsAll(s, interval)
<1> DEFINE n == Len(s)
           lost == s[1].bal - s[n].bal
           t == Summarize(s)
           b == Bucket(s, interval)
           balances == {s[i].bal : i \in DOMAIN s}
<1>1. IsSeries(s) /\ s \in Seq(Snapshots) /\ s # <<>> /\ n \in Nat /\ n >= 1 /\ DOMAIN s = 1..n /\ 1 \in 1..n /\ n \in 1..n
  <2>1. IsSeries(s) /\ s \in Seq(Snapshots) /\ s # <<>>
    BY DEF IsApart, IsSeries
  <2> QED  BY <2>1, SeriesFacts
<1>2. \A i \in 1..n : s[i].at \in Nat /\ s[i].bal \in Int
  BY <1>1, SeriesFacts
<1>3. SumFunction(Spending(s)) - SumFunction(TopUps(s)) = lost
  BY <1>1, FlowsBalance
<1>5. /\ t.consumed = SumFunction(Spending(s)) /\ t.toppedUp = SumFunction(TopUps(s)) /\ t.change = 0 - lost
      /\ t.low = Min(balances) /\ t.high = Max(balances) /\ t.count = n
  <2>1. s[1].bal \in Int /\ s[n].bal \in Int
    BY <1>1, <1>2
  <2>2. s[n].bal - s[1].bal = 0 - lost
    BY <2>1
  <2> QED  BY <2>2 DEF Summarize
<1>7. /\ b \in Seq(Points) /\ b # <<>>
      /\ \A i \in 2..Len(b) : b[i - 1].at < b[i].at
      /\ b[Len(b)].bal = s[n].bal
      /\ SumFunctionOnSet(Sizes(b), 1..Len(b)) = n
      /\ \A i \in 1..Len(b) : (\E j \in 1..n : b[i].low = s[j].bal) /\ (\E j \in 1..n : b[i].high = s[j].bal)
      /\ \A j \in 1..n : \E i \in 1..Len(b) : b[i].low <= s[j].bal /\ s[j].bal <= b[i].high
  <2>1. Grouped(b, s, n, interval)
    BY BucketFacts
  <2> HIDE DEF b, n
  <2> QED  BY <2>1 DEF Grouped
<1> HIDE DEF b, t
<1>8. Len(b) \in Nat /\ DOMAIN b = 1..Len(b) /\ \A i \in 1..Len(b) : b[i].low \in Int /\ b[i].high \in Int
  <2>1. Len(b) \in Nat /\ DOMAIN b = 1..Len(b) /\ \A i \in 1..Len(b) : b[i] \in Points
    BY <1>7
  <2> QED  BY <2>1 DEF Points
<1>9. SumFunction([i \in DOMAIN b |-> b[i].n]) = n
  BY <1>7, <1>8 DEF SumFunction, Sizes
<1>10. \A i \in DOMAIN b \ {1} : b[i - 1].at < b[i].at
  <2>1. \A i \in DOMAIN b \ {1} : i \in 2..Len(b)
    BY <1>8
  <2> QED  BY <1>7, <2>1
<1> DEFINE lows == {b[i].low : i \in DOMAIN b}
           highs == {b[i].high : i \in DOMAIN b}
           f == [i \in 1..n |-> s[i].bal]
<1>11. balances \in SUBSET Int /\ lows \in SUBSET Int /\ highs \in SUBSET Int
  BY <1>1, <1>2, <1>8
<1>12. Min(lows) = Min(balances)
  <2>1. PICK j \in 1..n : \A i \in 1..n : f[j] <= f[i]
    <3>1. \A i \in 1..n : f[i] \in Int
      BY <1>2
    <3> HIDE DEF f
    <3> QED  BY <1>1, <3>1, ExtremesExist
  <2> DEFINE m == s[j].bal
  <2>2. m \in Int /\ m \in balances /\ \A i \in 1..n : m <= s[i].bal
    BY <1>1, <1>2, <2>1
  <2>3. PICK i \in 1..Len(b) : b[i].low <= m
    BY <1>7
  <2>4. PICK h \in 1..n : b[i].low = s[h].bal
    BY <1>7
  <2>5. b[i].low = m
    BY <1>2, <2>2, <2>3, <2>4
  <2>6. m \in lows
    BY <1>8, <2>5
  <2>7. \A y \in lows : m <= y
    <3> SUFFICES ASSUME NEW h0 \in 1..Len(b) PROVE m <= b[h0].low
      BY <1>8
    <3>1. PICK l \in 1..n : b[h0].low = s[l].bal
      BY <1>7
    <3> QED  BY <2>2, <3>1
  <2>8. \A y \in balances : m <= y
    BY <1>1, <2>2
  <2> HIDE DEF m, lows, balances
  <2> QED  BY <1>11, <2>2, <2>6, <2>7, <2>8, MinMaxAre
<1>13. Max(highs) = Max(balances)
  <2>1. PICK j \in 1..n : \A i \in 1..n : f[j] >= f[i]
    <3>1. \A i \in 1..n : f[i] \in Int
      BY <1>2
    <3> HIDE DEF f
    <3> QED  BY <1>1, <3>1, ExtremesExist
  <2> DEFINE m == s[j].bal
  <2>2. m \in Int /\ m \in balances /\ \A i \in 1..n : m >= s[i].bal
    BY <1>1, <1>2, <2>1
  <2>3. PICK i \in 1..Len(b) : m <= b[i].high
    BY <1>7
  <2>4. PICK h \in 1..n : b[i].high = s[h].bal
    BY <1>7
  <2>5. b[i].high = m
    BY <1>2, <2>2, <2>3, <2>4
  <2>6. m \in highs
    BY <1>8, <2>5
  <2>7. \A y \in highs : m >= y
    <3> SUFFICES ASSUME NEW h0 \in 1..Len(b) PROVE m >= b[h0].high
      BY <1>8
    <3>1. PICK l \in 1..n : b[h0].high = s[l].bal
      BY <1>7
    <3> QED  BY <2>2, <3>1
  <2>8. \A y \in balances : m >= y
    BY <1>1, <2>2
  <2> HIDE DEF m, highs, balances
  <2> QED  BY <1>11, <2>2, <2>6, <2>7, <2>8, MinMaxAre
<1> HIDE DEF lost, balances
<1>14. t.consumed - t.toppedUp = lost
  BY <1>3, <1>5
<1>15. Min(lows) = t.low /\ Max(highs) = t.high
  BY <1>5, <1>12, <1>13
<1> QED  BY <1>5, <1>7, <1>9, <1>10, <1>14, <1>15 DEF TellsAll, lost, t, b, balances

-------------------------------------------------------------------------------
(* The costs page                                                           *)

Rates(fx) == fx \in [DOMAIN fx -> Int]

\* Facts about products.
LEMMA Product ==
  ASSUME NEW a \in Int, NEW b \in Int
  PROVE  a * b \in Int /\ a * b = b * a /\ a * 0 = 0
OBVIOUS

\* A multiple of two sums.
LEMMA Distributes ==
  ASSUME NEW a \in Int, NEW b \in Int, NEW c \in Int
  PROVE  /\ a * (b + c) = a * b + a * c /\ (b + c) * a = b * a + c * a
         /\ a * b \in Int /\ a * c \in Int /\ b * a \in Int /\ c * a \in Int
OBVIOUS

\* A sum of values and multiples of others.
LEMMA SumLinear ==
  ASSUME NEW S, NEW f, Whole(f, S), NEW g, Whole(g, S), NEW a \in Int, NEW h, \A x \in S : h[x] = f[x] + a * g[x]
  PROVE  SumFunctionOnSet(h, S) = SumFunctionOnSet(f, S) + a * SumFunctionOnSet(g, S)
<1> DEFINE Linear(B) == SumFunctionOnSet(h, B) = SumFunctionOnSet(f, B) + a * SumFunctionOnSet(g, B)
           T == {n \in Nat : \E B \in SUBSET S : Cardinality(B) = n /\ ~Linear(B)}
<1>1. \A B \in SUBSET S : IsFiniteSet(B) /\ Cardinality(B) \in Nat
  BY FS_Subset, FS_CardinalityType DEF Whole
<1>2. \A x \in S : f[x] \in Int /\ g[x] \in Int
  BY DEF Whole
<1>3. Whole(h, S)
  <2>1. \A x \in S : h[x] \in Int
    <3> SUFFICES ASSUME NEW x \in S PROVE h[x] \in Int
      OBVIOUS
    <3> DEFINE p == f[x]  q == g[x]
    <3>1. p \in Int /\ q \in Int /\ h[x] = p + a * q
      BY <1>2
    <3> HIDE DEF p, q
    <3>2. p + a * q \in Int
      BY <3>1
    <3> QED  BY <3>1, <3>2
  <2> QED  BY <2>1 DEF Whole
<1>4. T = {}
  <2> SUFFICES ASSUME T # {} PROVE FALSE
    OBVIOUS
  <2>1. PICK n \in T : \A m \in T : n <= m
    BY LeastOfNat
  <2>2. PICK B \in SUBSET S : Cardinality(B) = n /\ ~Linear(B)
    OBVIOUS
  <2>3. Whole(f, B) /\ Whole(g, B) /\ Whole(h, B)
    BY <1>3, WholePart
  <2>4. B # {}
    <3> SUFFICES ASSUME B = {} PROVE FALSE
      OBVIOUS
    <3>1. SumFunctionOnSet(f, B) = 0 /\ SumFunctionOnSet(g, B) = 0 /\ SumFunctionOnSet(h, B) = 0
      BY <2>3, SumFacts
    <3>2. 0 = 0 + a * 0
      OBVIOUS
    <3> QED  BY <2>2, <3>1, <3>2
  <2>5. PICK x \in B : TRUE
    BY <2>4
  <2> DEFINE C == B \ {x}
  <2>6. C \in SUBSET S /\ Whole(f, C) /\ Whole(g, C) /\ x \in S
    BY WholePart
  <2>7. Cardinality(C) = n - 1 /\ n \in Nat /\ Cardinality(C) \in Nat
    <3>1. IsFiniteSet(B) /\ n \in Nat /\ Cardinality(C) \in Nat
      BY <1>1
    <3> HIDE DEF T
    <3> QED  BY <2>2, <2>5, <3>1, FS_RemoveElement
  <2>8. /\ SumFunctionOnSet(f, B) = f[x] + SumFunctionOnSet(f, C)
        /\ SumFunctionOnSet(g, B) = g[x] + SumFunctionOnSet(g, C)
        /\ SumFunctionOnSet(h, B) = h[x] + SumFunctionOnSet(h, C)
    BY <2>3, SumFacts
  <2> HIDE DEF C
  <2>9. Linear(C)
    <3>1. Cardinality(C) \notin T
      <4> HIDE DEF T
      <4> QED  BY <2>1, <2>7
    <3> QED  BY <2>6, <2>7, <3>1
  <2> DEFINE p == f[x]  q == g[x]  sf == SumFunctionOnSet(f, C)  sg == SumFunctionOnSet(g, C)
  <2>10. p \in Int /\ q \in Int /\ sf \in Int /\ sg \in Int
    BY <1>2, <2>6, SumFacts
  <2>11. SumFunctionOnSet(h, B) = (p + a * q) + (sf + a * sg)
    BY <2>6, <2>8, <2>9
  <2>12. SumFunctionOnSet(f, B) = p + sf /\ SumFunctionOnSet(g, B) = q + sg
    BY <2>8
  <2> HIDE DEF p, q, sf, sg
  <2>13. (p + a * q) + (sf + a * sg) = (p + sf) + a * (q + sg)
    <3>1. a * (q + sg) = a * q + a * sg /\ a * q \in Int /\ a * sg \in Int
      BY <2>10, Distributes
    <3> QED  BY <2>10, <3>1
  <2> QED  BY <2>2, <2>11, <2>12, <2>13
<1> QED  BY <1>1, <1>4 DEF Whole

\* The elements of S of which g is u.
Fibre(S, g, u) == {x \in S : g[x] = u}

\* The sums of the groups that g makes add up to the whole.
LEMMA SumOfGroups ==
  ASSUME NEW S, NEW f, Whole(f, S), NEW G, NEW g \in [S -> G], \A u \in G : \E x \in S : g[x] = u,
         NEW F, \A u \in G : F[u] = SumFunctionOnSet(f, Fibre(S, g, u))
  PROVE  Whole(F, G) /\ SumFunctionOnSet(F, G) = SumFunctionOnSet(f, S)
<1>1. IsFiniteSet(G)
  <2>1. g \in Surjection(S, G)
    BY DEF Surjection
  <2> QED  BY <2>1, FS_Surjection DEF Whole
<1> DEFINE n == Cardinality(G)
<1>0. n \in Nat /\ ExistsBijection(1..n, G)
  BY <1>1, FS_CountingElements, FS_CardinalityType
<1> HIDE DEF n
<1>2. PICK b : b \in Bijection(1..n, G)
  BY <1>0 DEF ExistsBijection
<1>3. b \in [1..n -> G] /\ (\A i, j \in 1..n : b[i] = b[j] => i = j) /\ \A u \in G : \E i \in 1..n : b[i] = u
  BY <1>2 DEF Bijection, Injection, Surjection, IsInjective
<1> DEFINE part == [x \in S |-> CHOOSE i \in 1..n : b[i] = g[x]]
           E == [i \in 1..n |-> F[b[i]]]
<1>4. \A x \in S : part[x] \in 1..n /\ b[part[x]] = g[x]
  BY <1>3
<1>5. part \in [S -> 1..n]
  BY <1>4
<1>6. (\A i \in 1..n : E[i] = F[b[i]])
  OBVIOUS
<1> HIDE DEF part, E
<1>7. \A i \in 1..n : PartOf(S, part, i) = Fibre(S, g, b[i])
  <2> SUFFICES ASSUME NEW i \in 1..n PROVE PartOf(S, part, i) = Fibre(S, g, b[i])
    OBVIOUS
  <2>1. \A x \in S : part[x] = i <=> g[x] = b[i]
    BY <1>3, <1>4
  <2> QED  BY <2>1 DEF PartOf, Fibre
<1>8. \A i \in 1..n : E[i] = SumFunctionOnSet(f, PartOf(S, part, i))
  BY <1>3, <1>6, <1>7
<1>9. SumFunctionOnSet(E, 1..n) = SumFunctionOnSet(f, S)
  <2>1. n \in Nat
    BY <1>0
  <2> QED  BY <1>5, <1>8, <2>1, SumOfParts
<1>10. \A u \in G : F[u] \in Int
  <2> SUFFICES ASSUME NEW u \in G PROVE F[u] \in Int
    OBVIOUS
  <2>1. Fibre(S, g, u) \in SUBSET S
    BY DEF Fibre
  <2>2. Whole(f, Fibre(S, g, u))
    BY <2>1, WholePart
  <2> QED  BY <2>2, SumFacts
<1>11. Whole(F, G) /\ Whole(E, 1..n)
  <2>1. 1 \in Int /\ n \in Int
    BY <1>0
  <2>2. IsFiniteSet(1..n)
    BY <2>1, FS_Interval
  <2> QED  BY <1>1, <1>3, <1>6, <1>10, <2>2 DEF Whole
<1>12. SumFunctionOnSet(E, 1..n) = SumFunctionOnSet(F, G)
  <2> DEFINE I == 1..n
  <2>1. Whole(E, I) /\ b \in [I -> G] /\ \A i \in I : E[i] = F[b[i]]
    BY <1>3, <1>6, <1>11
  <2>2. (\A i, j \in I : b[i] = b[j] => i = j) /\ \A u \in G : \E i \in I : b[i] = u
    BY <1>3
  <2> HIDE DEF I
  <2>3. SumFunctionOnSet(E, I) = SumFunctionOnSet(F, G)
    BY <1>11, <2>1, <2>2, SumMoved
  <2> QED  BY <2>3 DEF I
<1> QED  BY <1>9, <1>11, <1>12

\* m lists I in order, n members.
InOrder(m, n, I) ==
  /\ n \in Nat /\ m \in [1..n -> I]
  /\ \A k, l \in 1..n : k < l => m[k] < m[l]
  /\ \A i \in I : \E k \in 1..n : m[k] = i

\* What stands side by side in w does in m, and what stands in m behind a member of J does in w.
Alongside(m, n, w, c, J) ==
  /\ \A k \in 2..c : \E l \in 2..n : m[l] = w[k] /\ m[l - 1] = w[k - 1]
  /\ \A l \in 2..n : m[l - 1] \in J => \E k \in 2..c : m[l] = w[k] /\ m[l - 1] = w[k - 1]

\* m lists I and w its later part J.
LEMMA SideBySide ==
  ASSUME NEW I \in SUBSET Int, NEW J \in SUBSET I, \A i \in I, j \in J : j <= i => i \in J,
         NEW n, NEW m, InOrder(m, n, I), NEW c, NEW w, InOrder(w, c, J)
  PROVE  Alongside(m, n, w, c, J)
<1>0. /\ n \in Nat /\ m \in [1..n -> I]
      /\ \A k, l \in 1..n : k < l => m[k] < m[l]
      /\ \A i \in I : \E k \in 1..n : m[k] = i
      /\ c \in Nat /\ w \in [1..c -> J]
      /\ \A k, l \in 1..c : k < l => w[k] < w[l]
      /\ \A j \in J : \E k \in 1..c : w[k] = j
  BY DEF InOrder
<1> USE <1>0
<1>1. \A k, l \in 1..n : m[k] < m[l] => k < l
  <2> SUFFICES ASSUME NEW k \in 1..n, NEW l \in 1..n, m[k] < m[l], ~(k < l) PROVE FALSE
    OBVIOUS
  <2>1. m[k] \in Int /\ m[l] \in Int
    OBVIOUS
  <2>2. k = l \/ l < k
    OBVIOUS
  <2>3. l < k => m[l] < m[k]
    OBVIOUS
  <2>4. k = l => m[k] = m[l]
    OBVIOUS
  <2> QED  BY <2>1, <2>2, <2>3, <2>4
<1>2. \A k, l \in 1..c : w[k] < w[l] => k < l
  <2> SUFFICES ASSUME NEW k \in 1..c, NEW l \in 1..c, w[k] < w[l], ~(k < l) PROVE FALSE
    OBVIOUS
  <2>1. w[k] \in Int /\ w[l] \in Int
    OBVIOUS
  <2>2. k = l \/ l < k
    OBVIOUS
  <2>3. l < k => w[l] < w[k]
    OBVIOUS
  <2>4. k = l => w[k] = w[l]
    OBVIOUS
  <2> QED  BY <2>1, <2>2, <2>3, <2>4
<1>3. ASSUME NEW k \in 1..c, NEW h \in 1..c, NEW l \in 2..n, w[k] = m[l], w[h] = m[l - 1]
      PROVE  h = k - 1 /\ k \in 2..c
  <2>1. l - 1 \in 1..n /\ l \in 1..n /\ l - 1 < l
    OBVIOUS
  <2>2. w[h] < w[k]
    BY <1>3, <2>1
  <2>3. h < k
    BY <1>2, <2>2
  <2>4. ASSUME h < k - 1 PROVE FALSE
    <3>1. k - 1 \in 1..c /\ h < k - 1 /\ k - 1 < k
      BY <2>4
    <3>2. w[h] < w[k - 1] /\ w[k - 1] < w[k] /\ w[k - 1] \in I
      BY <3>1
    <3>3. PICK r \in 1..n : m[r] = w[k - 1]
      BY <3>2
    <3>4. l - 1 < r /\ r < l
      BY <1>1, <1>3, <2>1, <3>2, <3>3
    <3> QED  BY <3>4
  <2> QED  BY <2>3, <2>4
<1>4. ASSUME NEW l \in 2..n, m[l - 1] \in J PROVE \E k \in 2..c : m[l] = w[k] /\ m[l - 1] = w[k - 1]
  <2>1. l - 1 \in 1..n /\ l \in 1..n /\ l - 1 < l
    OBVIOUS
  <2>2. m[l - 1] < m[l] /\ m[l] \in I /\ m[l - 1] \in Int /\ m[l] \in Int
    BY <2>1
  <2>3. m[l] \in J
    BY <1>4, <2>2
  <2>4. PICK k \in 1..c : w[k] = m[l]
    BY <2>3
  <2>5. PICK h \in 1..c : w[h] = m[l - 1]
    BY <1>4
  <2>6. h = k - 1 /\ k \in 2..c
    BY <1>3, <2>4, <2>5
  <2> QED  BY <2>4, <2>5, <2>6
<1>5. ASSUME NEW k \in 2..c PROVE \E l \in 2..n : m[l] = w[k] /\ m[l - 1] = w[k - 1]
  <2>1. k - 1 \in 1..c /\ k \in 1..c /\ k - 1 < k
    OBVIOUS
  <2>2. w[k - 1] < w[k] /\ w[k - 1] \in I /\ w[k] \in I /\ w[k - 1] \in J
    BY <2>1
  <2>3. PICK l \in 1..n : m[l] = w[k]
    BY <2>2
  <2>4. PICK r \in 1..n : m[r] = w[k - 1]
    BY <2>2
  <2>5. r < l
    BY <1>1, <2>2, <2>3, <2>4
  <2>6. l \in 2..n /\ l - 1 \in 1..n /\ r <= l - 1
    BY <2>5
  <2>7. m[r] <= m[l - 1] /\ m[l - 1] \in I
    <3>1. m[r] \in Int /\ m[l - 1] \in Int /\ m[l - 1] \in I
      BY <2>6
    <3>2. CASE r = l - 1
      BY <3>1, <3>2
    <3>3. CASE r < l - 1
      <4>1. m[r] < m[l - 1]
        BY <2>6, <3>3
      <4> QED  BY <3>1, <4>1
    <3> QED  BY <2>6, <3>1, <3>2, <3>3
  <2>8. m[l - 1] \in J
    BY <2>2, <2>4, <2>7
  <2>9. PICK h \in 1..c : w[h] = m[l - 1]
    BY <2>8
  <2>10. h = k - 1
    BY <1>3, <2>1, <2>3, <2>6, <2>9
  <2> QED  BY <2>3, <2>6, <2>9, <2>10
<1> QED  BY <1>4, <1>5 DEF Alongside

\* The month a request shows, and what is read of it.
LEMMA MonthFacts ==
  ASSUME NEW when, Asks(when)
  PROVE  LET m == MonthShown(when)
             r == MonthRead(when)
         IN  /\ m.start \in Nat /\ m.days \in Nat /\ when.today \in Nat
             /\ r.start = m.start /\ r.since = when.today - (DayTicks * (m.days + 1))
             /\ \A at \in Nat : at <= when.today => (at <= r.now <=> at < m.start + (DayTicks * m.days))
<1> DEFINE begun == {x \in when.asked : x.start <= when.today}
           m == MonthShown(when)
           r == MonthRead(when)
<1>1. when.asked \subseteq Months /\ when.current \in Months /\ when.today \in Nat
      /\ when.today < when.current.start + (DayTicks * when.current.days)
  BY DEF Asks
<1>2. m = IF begun = {} THEN when.current ELSE CHOOSE x \in begun : TRUE
  BY DEF MonthShown
<1>3. r.start = m.start /\ r.since = when.today - (DayTicks * (m.days + 1))
      /\ r.now = IF begun # {} THEN m.start + (DayTicks * m.days) - 1 ELSE when.today
  BY DEF MonthRead
<1>7. begun # {} => r.now = m.start + (DayTicks * m.days) - 1
  <2> HIDE DEF begun, m, r
  <2> QED  BY <1>3, Zenon
<1> HIDE DEF m, r
<1>4. m \in Months
  BY <1>1, <1>2
<1>5. m.start \in Nat /\ m.days \in Nat
  BY <1>4 DEF Months
<1>6. ASSUME NEW at \in Nat, at <= when.today PROVE at <= r.now <=> at < m.start + (DayTicks * m.days)
  <2>1. CASE begun = {}
    <3> DEFINE end == m.start + (DayTicks * m.days)
    <3>1. m = when.current /\ r.now = when.today
      BY <1>2, <1>3, <2>1
    <3>2. when.today < end /\ end \in Int
      BY <1>1, <1>5, <3>1 DEF DayTicks
    <3> HIDE DEF end
    <3>3. at <= r.now /\ at < end
      BY <1>1, <1>6, <3>1, <3>2
    <3> QED  BY <3>3 DEF end
  <2>2. CASE begun # {}
    <3> DEFINE end == m.start + (DayTicks * m.days)
    <3>1. r.now = end - 1
      <4> DEFINE first == m.start
                 ticks == DayTicks * m.days
      <4>1. first \in Nat /\ ticks \in Nat
        BY <1>5 DEF DayTicks
      <4>2. r.now = first + (ticks - 1) /\ end = first + ticks
        BY <1>7, <2>2, Zenon
      <4> HIDE DEF first, ticks, end
      <4> QED  BY <4>1, <4>2
    <3>2. end \in Int
      BY <1>5 DEF DayTicks
    <3> HIDE DEF end
    <3>3. at <= r.now <=> at < end
      BY <3>1, <3>2
    <3> QED  BY <3>3 DEF end
  <2> QED  BY <2>1, <2>2
<1> QED  BY <1>1, <1>3, <1>5, <1>6 DEF m, r

\* What the page reads of a name and a month; what it cannot see makes it whole.
SpendRead(series, name, when) ==
  SpendInMonth(NameSince(series, name, MonthRead(when).since), MonthRead(when).start, MonthRead(when).now)
SpendKept(series, name, when) == SpentIn(OfName(series, name), MonthShown(when))
SpendMissed(series, name, when) == SpentUnread(OfName(series, name), MonthShown(when), when.today)

\* The table as the page finds it.
IsTable(series, when) == IsHistory(series) /\ Asks(when) /\ \A i \in DOMAIN series : series[i].at <= when.today

\* What is read of a month, and what was spent since snapshots too old to be read, is what was spent.
LEMMA ReadAndMissed ==
  ASSUME NEW series, NEW when, IsTable(series, when), NEW name
  PROVE  /\ SpendRead(series, name, when) \in Int /\ SpendKept(series, name, when) \in Int /\ SpendMissed(series, name, when) \in Int
         /\ SpendRead(series, name, when) + SpendMissed(series, name, when) = SpendKept(series, name, when)
<1> DEFINE mo == MonthShown(when)
           r == MonthRead(when)
           I == {i \in DOMAIN series : series[i].name = name}
           J == {i \in DOMAIN series : series[i].name = name /\ series[i].at >= r.since}
           all == OfName(series, name)
           win == NameSince(series, name, r.since)
           n == Cardinality(I)
           c == Cardinality(J)
           cutoff == when.today - (DayTicks * (mo.days + 1))
           end == mo.start + (DayTicks * mo.days)
<1>1. /\ series \in Seq(Snapshots) /\ \A i, j \in DOMAIN series : i <= j => series[i].at <= series[j].at
      /\ Asks(when) /\ \A i \in DOMAIN series : series[i].at <= when.today
  BY DEF IsTable, IsHistory
<1>2. DOMAIN series = 1..Len(series) /\ Len(series) \in Nat /\ \A i \in DOMAIN series : series[i].at \in Nat
  BY <1>1, SeriesFacts
<1>3. /\ mo.start \in Nat /\ mo.days \in Nat /\ when.today \in Nat
      /\ r.start = mo.start /\ r.since = cutoff
      /\ \A at \in Nat : at <= when.today => (at <= r.now <=> at < end)
  BY <1>1, MonthFacts
<1>4. all = Arranged(series, I, Forward(Len(series))) /\ win = Arranged(series, J, Forward(Len(series)))
  BY DEF OfName, NameSince, Where, Forward, Pairs
<1>5. cutoff \in Int /\ end \in Int
  BY <1>3 DEF DayTicks
<1>6. I \in SUBSET DOMAIN series /\ J \in SUBSET I /\ \A i \in I : i \in J <=> series[i].at >= cutoff
  BY <1>3
<1> HIDE DEF mo, r, I, J, all, win, cutoff, end
<1>7. J \in SUBSET DOMAIN series
  BY <1>6
<1>8. PICK m : Selects(m, all, series, I)
  BY <1>1, <1>4, <1>6, WhereFacts
<1>9. PICK w : Selects(w, win, series, J)
  BY <1>1, <1>4, <1>7, WhereFacts
<1>10. all \in Seq(Snapshots) /\ win \in Seq(Snapshots)
  BY <1>1, <1>4, <1>6, <1>7, WhereFacts
<1>11. /\ m \in [1..n -> I] /\ n \in Nat
       /\ \A k, l \in 1..n : k < l => m[k] < m[l]
       /\ \A i \in I : \E k \in 1..n : m[k] = i
       /\ all = [k \in 1..n |-> series[m[k]]]
  BY <1>8 DEF Selects
<1>12. /\ w \in [1..c -> J] /\ c \in Nat
       /\ \A k, l \in 1..c : k < l => w[k] < w[l]
       /\ \A j \in J : \E k \in 1..c : w[k] = j
       /\ win = [k \in 1..c |-> series[w[k]]]
  BY <1>9 DEF Selects
<1> HIDE DEF n, c
<1>13. Len(all) = n /\ Len(win) = c /\ (\A k \in 1..n : all[k] = series[m[k]]) /\ \A k \in 1..c : win[k] = series[w[k]]
  BY <1>11, <1>12
<1>14. I \in SUBSET Int /\ \A i \in I, j \in J : j <= i => i \in J
  <2>1. I \in SUBSET Int
    BY <1>2, <1>6
  <2>2. ASSUME NEW i \in I, NEW j \in J, j <= i PROVE i \in J
    <3>1. i \in DOMAIN series /\ j \in DOMAIN series /\ j \in I
      BY <1>6
    <3>2. series[j].at <= series[i].at /\ series[j].at >= cutoff
      BY <1>1, <1>6, <2>2, <3>1
    <3>3. series[i].at >= cutoff
      BY <1>2, <1>5, <3>1, <3>2
    <3> QED  BY <1>6, <3>3
  <2> QED  BY <2>1, <2>2
<1>15. /\ \A k \in 2..c : \E l \in 2..n : m[l] = w[k] /\ m[l - 1] = w[k - 1]
       /\ \A l \in 2..n : m[l - 1] \in J => \E k \in 2..c : m[l] = w[k] /\ m[l - 1] = w[k - 1]
  <2>1. InOrder(m, n, I) /\ InOrder(w, c, J)
    BY <1>11, <1>12 DEF InOrder
  <2>2. Alongside(m, n, w, c, J)
    BY <1>6, <1>14, <2>1, SideBySide
  <2> QED  BY <2>2 DEF Alongside
<1> DEFINE S == {k \in 2..c : win[k].at >= mo.start /\ win[k].at <= r.now}
           A == {l \in 2..n : mo.start <= all[l].at /\ all[l].at < end}
           R == {l \in A : ~(all[l - 1].at < cutoff)}
           M == {l \in A : all[l - 1].at < cutoff}
           place == [k \in S |-> CHOOSE l \in 2..n : m[l] = w[k] /\ m[l - 1] = w[k - 1]]
           f == Spending(win)
           g == Spending(all)
<1>16. SpendRead(series, name, when) = SumFunctionOnSet(f, S)
  BY <1>3, <1>13 DEF SpendRead, SpendInMonth, r, win, mo
<1>17. SpendKept(series, name, when) = SumFunctionOnSet(g, A) /\ SpendMissed(series, name, when) = SumFunctionOnSet(g, M)
  BY <1>13 DEF SpendKept, SpendMissed, SpentIn, SpentUnread, StepsIn, StepsUnread, all, mo, cutoff, end
<1>18. Whole(f, 2..c) /\ Whole(g, 2..n)
  BY <1>10, <1>13, FlowFacts
<1>19. /\ \A k \in 2..c : k \in 1..c /\ k - 1 \in 1..c /\ f[k] = Larger(series[w[k - 1]].bal - series[w[k]].bal, 0)
       /\ \A l \in 2..n : l \in 1..n /\ l - 1 \in 1..n /\ g[l] = Larger(series[m[l - 1]].bal - series[m[l]].bal, 0)
  <2>1. ASSUME NEW k \in 2..c PROVE k \in 1..c /\ k - 1 \in 1..c /\ f[k] = Larger(series[w[k - 1]].bal - series[w[k]].bal, 0)
    <3>1. k \in 1..c /\ k - 1 \in 1..c
      BY <1>12
    <3>2. f[k] = Larger(win[k - 1].bal - win[k].bal, 0)
      BY <1>13 DEF Spending, Spent
    <3> QED  BY <1>13, <3>1, <3>2
  <2>2. ASSUME NEW l \in 2..n PROVE l \in 1..n /\ l - 1 \in 1..n /\ g[l] = Larger(series[m[l - 1]].bal - series[m[l]].bal, 0)
    <3>1. l \in 1..n /\ l - 1 \in 1..n
      BY <1>11
    <3>2. g[l] = Larger(all[l - 1].bal - all[l].bal, 0)
      BY <1>13 DEF Spending, Spent
    <3> QED  BY <1>13, <3>1, <3>2
  <2> QED  BY <2>1, <2>2
<1>20. \A k \in S : k \in 2..c /\ place[k] \in 2..n /\ m[place[k]] = w[k] /\ m[place[k] - 1] = w[k - 1]
  BY <1>15
<1>21. \A i \in I : series[i].at \in Nat /\ series[i].at <= when.today /\ (series[i].at <= r.now <=> series[i].at < end)
  BY <1>1, <1>2, <1>3, <1>6
<1>22. S \in SUBSET (2..c) /\ A \in SUBSET (2..n) /\ R \in SUBSET A /\ M \in SUBSET A /\ R \cap M = {} /\ R \cup M = A
       /\ R \in SUBSET (2..n) /\ M \in SUBSET (2..n)
  OBVIOUS
<1>23. \A k \in 2..c : k \in S <=> (series[w[k]].at >= mo.start /\ series[w[k]].at <= r.now)
  BY <1>13, <1>19
<1>24. \A l \in 2..n : l \in R <=> (series[m[l]].at >= mo.start /\ series[m[l]].at < end /\ series[m[l - 1]].at >= cutoff)
  <2> SUFFICES ASSUME NEW l \in 2..n
               PROVE  l \in R <=> (series[m[l]].at >= mo.start /\ series[m[l]].at < end /\ series[m[l - 1]].at >= cutoff)
    OBVIOUS
  <2>1. all[l] = series[m[l]] /\ all[l - 1] = series[m[l - 1]] /\ m[l] \in I /\ m[l - 1] \in I
    BY <1>11, <1>13, <1>19
  <2>2. series[m[l]].at \in Nat /\ series[m[l - 1]].at \in Nat
    BY <1>21, <2>1
  <2>3. l \in R <=> (mo.start <= all[l].at /\ all[l].at < end /\ ~(all[l - 1].at < cutoff))
    OBVIOUS
  <2> HIDE DEF R
  <2> QED  BY <1>3, <1>5, <2>1, <2>2, <2>3
<1> HIDE DEF S, A, R, M, place, f, g
<1>25. SumFunctionOnSet(f, S) = SumFunctionOnSet(g, R)
  <2>1. ASSUME NEW k \in S PROVE place[k] \in R /\ f[k] = g[place[k]]
    <3>1. k \in 2..c /\ place[k] \in 2..n /\ m[place[k]] = w[k] /\ m[place[k] - 1] = w[k - 1]
      BY <1>20
    <3>2. w[k] \in J /\ w[k - 1] \in J
      BY <1>12, <1>19, <3>1
    <3>3. series[w[k]].at >= mo.start /\ series[w[k]].at < end /\ series[w[k - 1]].at >= cutoff
      BY <1>6, <1>21, <1>23, <3>1, <3>2
    <3>4. place[k] \in R
      BY <1>24, <3>1, <3>3
    <3> QED  BY <1>19, <3>1, <3>4
  <2>2. place \in [S -> R]
    BY <2>1 DEF place
  <2>3. \A i, j \in S : place[i] = place[j] => i = j
    <3> SUFFICES ASSUME NEW i \in S, NEW j \in S, place[i] = place[j] PROVE i = j
      OBVIOUS
    <3>1. w[i] = w[j] /\ i \in 1..c /\ j \in 1..c
      BY <1>19, <1>20
    <3>2. w[i] \in Int /\ w[j] \in Int
      BY <1>6, <1>12, <1>14, <3>1
    <3>3. ~(i < j) /\ ~(j < i)
      BY <1>12, <3>1, <3>2
    <3> QED  BY <1>12, <3>1, <3>3
  <2>4. \A l \in R : \E k \in S : place[k] = l
    <3> SUFFICES ASSUME NEW l \in R PROVE \E k \in S : place[k] = l
      OBVIOUS
    <3>1. l \in 2..n
      BY <1>22
    <3>2. m[l] \in I /\ m[l - 1] \in I /\ series[m[l]].at >= mo.start /\ series[m[l]].at < end /\ series[m[l - 1]].at >= cutoff
      BY <1>11, <1>19, <1>24, <3>1
    <3>3. m[l - 1] \in J
      BY <1>6, <3>2
    <3>4. PICK k \in 2..c : m[l] = w[k] /\ m[l - 1] = w[k - 1]
      BY <1>15, <3>1, <3>3
    <3>5. k \in S
      BY <1>21, <1>23, <3>2, <3>4
    <3>6. m[place[k]] = m[l] /\ place[k] \in 1..n /\ l \in 1..n
      BY <1>19, <1>20, <3>1, <3>4, <3>5
    <3>7. m[l] \in Int
      BY <1>14, <3>2
    <3>8. ~(place[k] < l) /\ ~(l < place[k])
      BY <1>11, <3>6, <3>7
    <3>9. place[k] = l
      BY <1>11, <3>6, <3>8
    <3> QED  BY <3>5, <3>9
  <2>5. Whole(f, S) /\ Whole(g, R)
    BY <1>18, <1>22, WholePart
  <2>6. \A k \in S : f[k] = g[place[k]]
    BY <2>1
  <2> QED  BY <2>2, <2>3, <2>4, <2>5, <2>6, SumMoved
<1>26. SumFunctionOnSet(g, A) = SumFunctionOnSet(g, R) + SumFunctionOnSet(g, M)
  <2> DEFINE X == 2..n
  <2>0. Whole(g, X) /\ R \in SUBSET X /\ M \in SUBSET X /\ R \cap M = {}
    BY <1>18, <1>22
  <2> HIDE DEF X
  <2>1. SumFunctionOnSet(g, R \cup M) = SumFunctionOnSet(g, R) + SumFunctionOnSet(g, M)
    BY <2>0, SumSplit
  <2> QED  BY <1>22, <2>1
<1>27. SumFunctionOnSet(g, A) \in Int /\ SumFunctionOnSet(g, M) \in Int /\ SumFunctionOnSet(g, R) \in Int
  <2>1. Whole(g, A) /\ Whole(g, M) /\ Whole(g, R)
    BY <1>18, <1>22, WholePart
  <2> QED  BY <2>1, SumFacts
<1> QED  BY <1>16, <1>17, <1>25, <1>26, <1>27

\* In the current month nothing is missed of a name that was checked on the day before it.
LEMMA NothingMissed ==
  ASSUME NEW series, NEW when, IsTable(series, when), NEW name, MonthShown(when) = when.current,
         CheckedBefore(OfName(series, name), when.current)
  PROVE  SpendMissed(series, name, when) = 0
<1> DEFINE mo == when.current
           I == {i \in DOMAIN series : series[i].name = name}
           all == OfName(series, name)
           n == Cardinality(I)
           cutoff == when.today - (DayTicks * (mo.days + 1))
           prior == mo.start - DayTicks
<1>1. /\ series \in Seq(Snapshots) /\ \A i, j \in DOMAIN series : i <= j => series[i].at <= series[j].at
      /\ mo.start \in Nat /\ mo.days \in Nat /\ when.today \in Nat /\ when.today < mo.start + (DayTicks * mo.days)
  BY DEF IsTable, IsHistory, Asks, Months
<1>2. DOMAIN series = 1..Len(series) /\ Len(series) \in Nat /\ \A i \in DOMAIN series : series[i].at \in Nat
  BY <1>1, SeriesFacts
<1>3. cutoff \in Int /\ prior \in Int /\ cutoff < prior /\ prior < mo.start
  <2> DEFINE first == mo.start
             days == mo.days
             today == when.today
  <2>1. first \in Nat /\ days \in Nat /\ today \in Nat /\ today < first + (4 * days)
    BY <1>1 DEF DayTicks
  <2>2. cutoff = today - (4 * (days + 1)) /\ prior = first - 4
    BY DEF DayTicks
  <2> HIDE DEF first, days, today, cutoff, prior
  <2>3. cutoff \in Int /\ prior \in Int /\ cutoff < prior /\ prior < first
    BY <2>1, <2>2
  <2> QED  BY <2>3 DEF first
<1>4. all = Arranged(series, I, Forward(Len(series))) /\ I \in SUBSET DOMAIN series
  BY DEF OfName, Where, Forward, Pairs
<1>5. (\E i \in DOMAIN all : prior <= all[i].at /\ all[i].at < mo.start) \/ (\A i \in DOMAIN all : mo.start <= all[i].at)
  BY DEF CheckedBefore
<1>6. SpendMissed(series, name, when) = SumFunctionOnSet(Spending(all), StepsUnread(all, mo, when.today))
  BY DEF SpendMissed, SpentUnread
<1> HIDE DEF I, all
<1>7. PICK m : Selects(m, all, series, I)
  BY <1>1, <1>4, WhereFacts
<1>8. all \in Seq(Snapshots)
  BY <1>1, <1>4, WhereFacts
<1>9. /\ m \in [1..n -> I] /\ n \in Nat
      /\ \A k, l \in 1..n : k < l => m[k] < m[l]
      /\ all = [k \in 1..n |-> series[m[k]]]
  BY <1>7 DEF Selects
<1> HIDE DEF n
<1>10. Len(all) = n /\ DOMAIN all = 1..n /\ \A k \in 1..n : all[k] = series[m[k]] /\ m[k] \in DOMAIN series /\ all[k].at \in Nat
  BY <1>2, <1>4, <1>9
<1>11. ASSUME NEW l \in StepsUnread(all, mo, when.today) PROVE FALSE
  <2>1. l \in 2..n /\ mo.start <= all[l].at /\ all[l - 1].at < cutoff
    BY <1>10 DEF StepsUnread, StepsIn
  <2>2. l \in 1..n /\ l - 1 \in 1..n
    BY <1>9, <2>1
  <2>3. all[l - 1].at < mo.start
    BY <1>1, <1>3, <1>10, <2>1, <2>2
  <2>4. PICK i \in 1..n : prior <= all[i].at /\ all[i].at < mo.start
    <3>1. ~(mo.start <= all[l - 1].at)
      BY <1>1, <1>10, <2>2, <2>3
    <3> HIDE DEF mo, prior
    <3> QED  BY <1>5, <1>10, <2>2, <3>1
  <2>5. \A p, q \in 1..n : p < q => all[p].at <= all[q].at
    <3> SUFFICES ASSUME NEW p \in 1..n, NEW q \in 1..n, p < q PROVE all[p].at <= all[q].at
      OBVIOUS
    <3>1. m[p] < m[q] /\ m[p] \in DOMAIN series /\ m[q] \in DOMAIN series
      BY <1>9, <1>10
    <3>2. m[p] <= m[q]
      BY <1>2, <3>1
    <3> QED  BY <1>1, <1>10, <3>1, <3>2
  <2>6. ~(l < i) /\ i # l
    <3>1. all[i].at \in Nat /\ all[l].at \in Nat
      BY <1>10, <2>2
    <3>2. ~(all[l].at <= all[i].at)
      BY <1>1, <2>1, <2>4, <3>1
    <3> QED  BY <2>2, <2>5, <3>1, <3>2
  <2>7. i <= l - 1
    BY <2>2, <2>6
  <2>8. all[i].at <= all[l - 1].at
    <3>1. CASE i = l - 1
      BY <1>10, <2>2, <3>1
    <3>2. CASE i # l - 1
      <4>1. i < l - 1
        BY <2>2, <2>7, <3>2
      <4> QED  BY <2>2, <2>5, <4>1
    <3> QED  BY <3>1, <3>2
  <2>9. all[i].at \in Nat /\ all[l - 1].at \in Nat
    BY <1>10, <2>2
  <2> HIDE DEF cutoff, prior
  <2> QED  BY <1>3, <2>1, <2>4, <2>8, <2>9
<1>12. StepsUnread(all, mo, when.today) = {}
  BY <1>11
<1>13. Whole(Spending(all), {})
  BY FS_EmptySet DEF Whole
<1> QED  BY <1>6, <1>12, <1>13, SumFacts

\* Amounts in the base currency add up.
LEMMA BaseFacts ==
  ASSUME NEW fx, Rates(fx), NEW a \in Int, NEW b \in Int, NEW currency
  PROVE  /\ InBase(a, currency, fx) \in Int /\ InBase(0, currency, fx) = 0
         /\ InBase(a + b, currency, fx) = InBase(a, currency, fx) + InBase(b, currency, fx)
<1>1. CASE currency \in DOMAIN fx
  <2> DEFINE rate == fx[currency]
  <2>1. rate \in Int
    BY <1>1 DEF Rates
  <2>2. \A x : InBase(x, currency, fx) = x * rate
    BY <1>1 DEF InBase
  <2> HIDE DEF rate
  <2>3. a * rate \in Int /\ 0 * rate = 0 /\ (a + b) * rate = a * rate + b * rate
    BY <2>1, Distributes
  <2> QED  BY <2>2, <2>3
<1>2. CASE currency \notin DOMAIN fx
  BY <1>2 DEF InBase
<1> QED  BY <1>1, <1>2

\* F is what each report is worth, and nothing for the names that are known.
WorthOfReports(F, cells, day, fx, known) ==
  \A u \in ReportedSince(cells, day) : F[u] = IF u.name \in known THEN 0 ELSE InBase(u.cost, u.currency, fx)

\* It adds up to what the cells are worth.
SumOfReports(F, cells, day, fx, known) ==
  /\ Whole(F, ReportedSince(cells, day)) /\ \A u \in ReportedSince(cells, day) : u.cost \in Int
  /\ SumFunctionOnSet(F, ReportedSince(cells, day))
       = CellsWorth({c \in cells : c.date >= day /\ c.name \notin known}, fx)

\* Summed by name, source and currency, reports are worth what their cells are, of any names.
LEMMA ReportsAddUp ==
  ASSUME NEW cells \in SUBSET Reported, IsFiniteSet(cells), NEW day, NEW fx, Rates(fx), NEW known,
         NEW F, WorthOfReports(F, cells, day, fx, known)
  PROVE  SumOfReports(F, cells, day, fx, known)
<1>0. \A u \in ReportedSince(cells, day) : F[u] = IF u.name \in known THEN 0 ELSE InBase(u.cost, u.currency, fx)
  BY DEF WorthOfReports
<1> SUFFICES /\ Whole(F, ReportedSince(cells, day)) /\ \A u \in ReportedSince(cells, day) : u.cost \in Int
             /\ SumFunctionOnSet(F, ReportedSince(cells, day))
                  = CellsWorth({c \in cells : c.date >= day /\ c.name \notin known}, fx)
  BY DEF SumOfReports
<1> DEFINE S == {c \in cells : c.date >= day}
           like(c) == {x \in S : x.name = c.name /\ x.source = c.source /\ x.currency = c.currency}
           cost == [x \in S |-> x.cost]
           g == [c \in S |-> [name |-> c.name, source |-> c.source, currency |-> c.currency,
                              cost |-> SumFunctionOnSet(cost, like(c))]]
           G == ReportedSince(cells, day)
           f == [c \in S |-> IF c.name \in known THEN 0 ELSE InBase(c.cost, c.currency, fx)]
           U == {c \in S : c.name \notin known}
<1>1. IsFiniteSet(S) /\ \A c \in S : c.cost \in Int
  <2>1. IsFiniteSet(S)
    BY FS_Subset
  <2> QED  BY <2>1 DEF Reported
<1>2. \A c \in S : like(c) \in SUBSET S
  OBVIOUS
<1>3. \A c \in S : cost[c] \in Int /\ cost[c] = c.cost
  BY <1>1
<1> HIDE DEF cost
<1>4. Whole(cost, S) /\ \A c \in S : Whole(cost, like(c))
  <2>1. Whole(cost, S)
    BY <1>1, <1>3 DEF Whole
  <2> HIDE DEF S
  <2> QED  BY <1>2, <2>1, WholePart
<1>5. \A c \in S : SumFunction([x \in like(c) |-> x.cost]) = SumFunctionOnSet(cost, like(c))
  <2> SUFFICES ASSUME NEW c \in S PROVE SumFunction([x \in like(c) |-> x.cost]) = SumFunctionOnSet(cost, like(c))
    OBVIOUS
  <2> DEFINE d == [x \in like(c) |-> x.cost]
             L == like(c)
  <2>1. DOMAIN d = L /\ \A x \in L : d[x] = cost[x]
    BY <1>3
  <2>2. Whole(cost, L)
    BY <1>4
  <2> HIDE DEF d, L
  <2>3. SumFunctionOnSet(cost, L) = SumFunctionOnSet(d, L)
    BY <2>1, <2>2, SumSame
  <2> QED  BY <2>1, <2>3 DEF SumFunction, d, L
<1>6. G = {g[c] : c \in S}
  <2> DEFINE item(c) == [name |-> c.name, source |-> c.source, currency |-> c.currency,
                         cost |-> SumFunction([x \in like(c) |-> x.cost])]
  <2>1. G = {item(c) : c \in S}
    BY DEF ReportedSince
  <2>2. \A c \in S : g[c] = item(c)
    BY <1>5
  <2> HIDE DEF g, G, S, item
  <2>3. \A u : u \in {item(c) : c \in S} <=> \E c \in S : u = g[c]
    BY <2>2
  <2>4. \A u : u \in G <=> \E c \in S : u = g[c]
    BY <2>1, <2>3
  <2> QED  BY <2>4
<1>7. \A c \in S : /\ g[c].name = c.name /\ g[c].source = c.source /\ g[c].currency = c.currency
                   /\ g[c].cost = SumFunctionOnSet(cost, like(c)) /\ g[c].cost \in Int
  <2>1. \A c \in S : SumFunctionOnSet(cost, like(c)) \in Int
    BY <1>4, SumFacts
  <2> QED  BY <2>1
<1>8. \A c, x \in S : g[x] = g[c] <=> x \in like(c)
  <2>1. ASSUME NEW c \in S, NEW x \in S, x \in like(c) PROVE g[x] = g[c]
    <3>1. like(x) = like(c)
      BY <2>1
    <3>2. x.name = c.name /\ x.source = c.source /\ x.currency = c.currency
      BY <2>1
    <3> HIDE DEF S
    <3> QED  BY <3>1, <3>2
  <2>2. ASSUME NEW c \in S, NEW x \in S, g[x] = g[c] PROVE x \in like(c)
    <3>1. x.name = c.name /\ x.source = c.source /\ x.currency = c.currency
      BY <1>7, <2>2
    <3> QED  BY <3>1
  <2> HIDE DEF S, g, like
  <2> QED  BY <2>1, <2>2
<1>9. \A c \in S : f[c] = IF c.name \in known THEN 0 ELSE InBase(c.cost, c.currency, fx)
  OBVIOUS
<1>10. DOMAIN g = S /\ g \in [S -> G]
  BY <1>6
<1> HIDE DEF g, G, f
<1>11. \A c \in S : Fibre(S, g, g[c]) = like(c)
  BY <1>8 DEF Fibre
<1>12. Whole(f, S)
  <2>1. \A c \in S : f[c] \in Int
    <3> SUFFICES ASSUME NEW c \in S PROVE f[c] \in Int
      OBVIOUS
    <3>1. InBase(c.cost, c.currency, fx) \in Int
      BY <1>1, BaseFacts
    <3> QED  BY <1>9, <3>1
  <2> QED  BY <1>1, <2>1 DEF Whole
<1>13. ASSUME NEW c \in S PROVE F[g[c]] = SumFunctionOnSet(f, like(c))
  <2>1. F[g[c]] = IF c.name \in known THEN 0 ELSE InBase(g[c].cost, c.currency, fx)
    <3>1. g[c] \in ReportedSince(cells, day)
      BY <1>10 DEF G
    <3> QED  BY <1>0, <1>7, <3>1
  <2> DEFINE L == like(c)
  <2>2. Whole(f, L) /\ Whole(cost, L) /\ L \in SUBSET S
    <3> HIDE DEF S
    <3> QED  BY <1>2, <1>4, <1>12, WholePart
  <2>3. \A x \in L : x \in S /\ x.name = c.name /\ x.currency = c.currency
    OBVIOUS
  <2>4. g[c].cost = SumFunctionOnSet(cost, L)
    BY <1>7
  <2> HIDE DEF L, S
  <2>5. CASE c.name \in known
    <3>1. \A x \in L : f[x] = 0
      BY <1>9, <2>3, <2>5
    <3> QED  BY <2>1, <2>2, <2>5, <3>1, SumOfZeros DEF L
  <2>6. CASE c.name \notin known /\ c.currency \notin DOMAIN fx
    <3>1. \A x \in L : f[x] = 0
      BY <1>9, <2>3, <2>6 DEF InBase
    <3>2. SumFunctionOnSet(f, L) = 0
      BY <2>2, <3>1, SumOfZeros
    <3> QED  BY <2>1, <2>6, <3>2 DEF InBase, L
  <2>7. CASE c.name \notin known /\ c.currency \in DOMAIN fx
    <3> DEFINE rate == fx[c.currency]
               zero == [x \in L |-> 0]
    <3>1. rate \in Int
      BY <2>7 DEF Rates
    <3>2. \A x \in L : zero[x] = 0
      OBVIOUS
    <3>3. \A x \in L : f[x] = x.cost * rate /\ cost[x] \in Int /\ cost[x] = x.cost
      BY <1>3, <1>9, <2>3, <2>7 DEF InBase
    <3>4. F[g[c]] = SumFunctionOnSet(cost, L) * rate
      BY <2>1, <2>4, <2>7 DEF InBase
    <3> HIDE DEF rate, zero
    <3>5. Whole(zero, L)
      BY <2>2, <3>2 DEF Whole
    <3>6. \A x \in L : f[x] = zero[x] + rate * cost[x]
      <4> SUFFICES ASSUME NEW x \in L PROVE f[x] = zero[x] + rate * cost[x]
        OBVIOUS
      <4> DEFINE a == cost[x]
      <4>1. a \in Int /\ f[x] = a * rate /\ zero[x] = 0
        BY <3>2, <3>3
      <4> HIDE DEF a
      <4>2. a * rate = rate * a /\ rate * a \in Int
        BY <3>1, <4>1, Product
      <4>3. f[x] = 0 + rate * a
        BY <4>1, <4>2
      <4> QED  BY <4>1, <4>3 DEF a
    <3>7. SumFunctionOnSet(f, L) = SumFunctionOnSet(zero, L) + rate * SumFunctionOnSet(cost, L)
      BY <2>2, <3>1, <3>5, <3>6, SumLinear
    <3>8. SumFunctionOnSet(zero, L) = 0 /\ SumFunctionOnSet(cost, L) \in Int
      BY <2>2, <3>2, <3>5, SumOfZeros, SumFacts
    <3> DEFINE total == SumFunctionOnSet(cost, L)
    <3>9. total \in Int /\ SumFunctionOnSet(f, L) = 0 + rate * total /\ F[g[c]] = total * rate
      BY <3>4, <3>7, <3>8
    <3> HIDE DEF total
    <3>10. total * rate = rate * total /\ rate * total \in Int
      BY <3>1, <3>9, Product
    <3>11. SumFunctionOnSet(f, L) = F[g[c]]
      BY <3>9, <3>10
    <3> QED  BY <3>11 DEF L
  <2> QED  BY <2>5, <2>6, <2>7
<1>14. \A u \in G : \E x \in S : g[x] = u
  BY <1>6
<1>15. \A u \in G : F[u] = SumFunctionOnSet(f, Fibre(S, g, u))
  <2> SUFFICES ASSUME NEW u \in G PROVE F[u] = SumFunctionOnSet(f, Fibre(S, g, u))
    OBVIOUS
  <2>1. PICK c \in S : g[c] = u
    BY <1>14
  <2>2. Fibre(S, g, u) = like(c) /\ F[u] = SumFunctionOnSet(f, like(c))
    BY <1>11, <1>13, <2>1
  <2> QED  BY <2>2
<1>16. Whole(F, G) /\ SumFunctionOnSet(F, G) = SumFunctionOnSet(f, S)
  <2> HIDE DEF S
  <2> QED  BY <1>10, <1>12, <1>14, <1>15, SumOfGroups
<1>17. U = {c \in cells : c.date >= day /\ c.name \notin known} /\ U \in SUBSET S
  OBVIOUS
<1>18. SumFunctionOnSet(f, S) = SumFunctionOnSet(f, U)
  <2>1. \A x \in S \ U : f[x] = 0
    BY <1>9
  <2> HIDE DEF S, U
  <2> QED  BY <1>12, <1>17, <2>1, SumLessZeros
<1>19. SumFunctionOnSet(f, U) = CellsWorth(U, fx)
  <2> DEFINE d == [c \in U |-> InBase(c.cost, c.currency, fx)]
  <2>1. DOMAIN d = U /\ \A x \in U : d[x] = f[x]
    BY <1>9
  <2>2. CellsWorth(U, fx) = SumFunction(d)
    BY DEF CellsWorth
  <2> HIDE DEF d, S, U
  <2>3. Whole(f, U)
    BY <1>12, <1>17, WholePart
  <2>4. SumFunctionOnSet(f, U) = SumFunctionOnSet(d, U)
    BY <2>1, <2>3, SumSame
  <2> QED  BY <2>1, <2>2, <2>4 DEF SumFunction
<1>20. \A u \in G : u.cost \in Int
  BY <1>7, <1>14
<1> QED  BY <1>16, <1>17, <1>18, <1>19, <1>20 DEF G

\* The worth of cells is a sum over them, and adds up.
LEMMA WorthFacts ==
  ASSUME NEW cells \in SUBSET Reported, IsFiniteSet(cells), NEW fx, Rates(fx)
  PROVE  /\ \A X \in SUBSET cells : CellsWorth(X, fx) \in Int
         /\ \A X, Y \in SUBSET cells : X \cap Y = {} => CellsWorth(X \cup Y, fx) = CellsWorth(X, fx) + CellsWorth(Y, fx)
<1> DEFINE h == [c \in cells |-> InBase(c.cost, c.currency, fx)]
<1>1. \A c \in cells : h[c] = InBase(c.cost, c.currency, fx) /\ h[c] \in Int
  <2> SUFFICES ASSUME NEW c \in cells PROVE InBase(c.cost, c.currency, fx) \in Int
    OBVIOUS
  <2>1. c.cost \in Int
    BY DEF Reported
  <2> QED  BY <2>1, BaseFacts
<1> HIDE DEF h
<1>2. Whole(h, cells)
  BY <1>1 DEF Whole
<1>3. ASSUME NEW X \in SUBSET cells PROVE Whole(h, X) /\ CellsWorth(X, fx) = SumFunctionOnSet(h, X)
  <2>1. Whole(h, X)
    BY <1>2, WholePart
  <2> DEFINE d == [c \in X |-> InBase(c.cost, c.currency, fx)]
  <2>2. CellsWorth(X, fx) = SumFunction(d)
    BY DEF CellsWorth
  <2>3. DOMAIN d = X /\ \A c \in X : d[c] = h[c]
    BY <1>1
  <2> HIDE DEF d
  <2>4. SumFunctionOnSet(h, X) = SumFunctionOnSet(d, X)
    BY <2>1, <2>3, SumSame
  <2> QED  BY <2>1, <2>2, <2>3, <2>4 DEF SumFunction
<1>4. \A X \in SUBSET cells : CellsWorth(X, fx) \in Int
  BY <1>3, SumFacts
<1>5. ASSUME NEW X \in SUBSET cells, NEW Y \in SUBSET cells, X \cap Y = {}
      PROVE  CellsWorth(X \cup Y, fx) = CellsWorth(X, fx) + CellsWorth(Y, fx)
  <2>1. SumFunctionOnSet(h, X \cup Y) = SumFunctionOnSet(h, X) + SumFunctionOnSet(h, Y)
    BY <1>2, <1>5, SumSplit
  <2>2. X \cup Y \in SUBSET cells
    OBVIOUS
  <2> QED  BY <1>3, <2>1, <2>2
<1> QED  BY <1>4, <1>5

\* The total of the costs page is what the month cost, but for the spending it cannot read,
\* the reports of configured projects and those of later months; what it says of a
\* project misses only the spending it cannot read (handleCostsSummary).
THEOREM EveryCostOnce ==
  ASSUME NEW series, NEW when, IsTable(series, when), NEW projects, AreProjects(projects),
         NEW cells \in SUBSET Reported, IsFiniteSet(cells), NEW fx, Rates(fx)
  PROVE  CountedOnce(series, projects, cells, fx, when)
<1> DEFINE mo == MonthShown(when)
           month == MonthRead(when)
           usage == ReportedSince(cells, Day4(month.start))
           spend(p) == SpendRead(series, p.name, when)
           kept(p) == SpendKept(series, p.name, when)
           missed(p) == SpendMissed(series, p.name, when)
           projected(p) == Projected(spend(p), month.elapsed, month.inMonth)
           row(p) == [name |-> p.name, from |-> "balance", source |-> "", currency |-> p.currency, spend |-> spend(p),
                      over |-> p.budget > 0 /\ projected(p)[1] > p.budget * projected(p)[2],
                      base |-> InBase(spend(p), p.currency, fx)]
           urow(u) == [name |-> u.name, from |-> "usage", source |-> u.source, currency |-> u.currency, spend |-> u.cost,
                       over |-> FALSE, base |-> InBase(u.cost, u.currency, fx)]
           B == {row(p) : p \in projects}
           known == {r.name : r \in B}
           Kept == {u \in usage : u.name \notin known /\ u.cost # 0}
           U == {urow(u) : u \in Kept}
           rows == B \cup U
           base == [r \in rows |-> r.base]
           fromBalance == [p \in projects |-> InBase(spend(p), p.currency, fx)]
           ofKept == [p \in projects |-> InBase(kept(p), p.currency, fx)]
           ofMissed == [p \in projects |-> InBase(missed(p), p.currency, fx)]
           fromReport == [u \in usage |-> IF u.name \in known THEN 0 ELSE InBase(u.cost, u.currency, fx)]
<1>1. CostsSummary(series, projects, cells, fx, when) = [rows |-> rows, total |-> SumFunction(base)]
  <2>1. BuildCosts(series, projects, fx, month) = B
    BY DEF BuildCosts, SpendRead
  <2>2. MergeReportedUsage(B, usage, fx) = rows
    BY DEF MergeReportedUsage
  <2> HIDE DEF B, usage, rows
  <2>3. CostsSummary(series, projects, cells, fx, when)
          = LET all == MergeReportedUsage(BuildCosts(series, projects, fx, month), usage, fx)
            IN  [rows |-> all, total |-> SumFunction([r \in all |-> r.base])]
    BY DEF CostsSummary, usage
  <2> QED  BY <2>1, <2>2, <2>3
<1>2. \A p \in projects : spend(p) \in Int /\ kept(p) \in Int /\ missed(p) \in Int /\ spend(p) + missed(p) = kept(p)
  BY ReadAndMissed
<1>3. \A p \in projects : row(p).name = p.name /\ row(p).from = "balance" /\ row(p).spend = spend(p)
                          /\ row(p).base = InBase(spend(p), p.currency, fx)
  OBVIOUS
<1>4. \A u : /\ urow(u).name = u.name /\ urow(u).from = "usage" /\ urow(u).source = u.source
             /\ urow(u).currency = u.currency /\ urow(u).spend = u.cost
             /\ urow(u).base = InBase(u.cost, u.currency, fx)
  OBVIOUS
<1> HIDE DEF row, urow
<1>5. known = {p.name : p \in projects}
  BY <1>3
<1>6. \A p \in projects : \E r \in rows : r.name = p.name /\ r.from = "balance" /\ r.spend + missed(p) = kept(p)
  <2> SUFFICES ASSUME NEW p \in projects PROVE \E r \in rows : r.name = p.name /\ r.from = "balance" /\ r.spend + missed(p) = kept(p)
    OBVIOUS
  <2>1. row(p) \in rows
    OBVIOUS
  <2> HIDE DEF spend, kept, missed, rows
  <2> QED  BY <1>2, <1>3, <2>1
<1> HIDE DEF spend, kept, missed
<1>7. \A r \in B : r.from = "balance" /\ r.name \in known
  BY <1>3
<1>8. \A r \in U : r.from = "usage" /\ r.name \notin known
  BY <1>4
<1>9. \A r, x \in rows : r.name = x.name => r.from = x.from
  <2> HIDE DEF B, U, known
  <2> QED  BY <1>7, <1>8
<1>10. B \cap U = {}
  <2> HIDE DEF B, U, known
  <2> QED  BY <1>7, <1>8
<1>11. \A p \in projects : fromBalance[p] \in Int /\ fromBalance[p] = row(p).base
  <2> TAKE p \in projects
  <2>1. InBase(spend(p), p.currency, fx) \in Int
    BY <1>2, BaseFacts
  <2> QED  BY <1>3, <2>1
<1>12. \A u \in usage : u = [name |-> u.name, source |-> u.source, currency |-> u.currency, cost |-> u.cost]
  <2> SUFFICES ASSUME NEW u \in usage
               PROVE  u = [name |-> u.name, source |-> u.source, currency |-> u.currency, cost |-> u.cost]
    OBVIOUS
  <2>1. u \in ReportedSince(cells, Day4(month.start))
    OBVIOUS
  <2>2. \E c \in cells : \E x : u = [name |-> c.name, source |-> c.source, currency |-> c.currency, cost |-> x]
    BY <2>1 DEF ReportedSince
  <2> QED  BY <2>2
<1>13. /\ Whole(fromReport, usage) /\ \A u \in usage : u.cost \in Int
       /\ SumFunctionOnSet(fromReport, usage) = CellsWorth({c \in cells : c.date >= Day4(month.start) /\ c.name \notin known}, fx)
  <2>1. \A u \in ReportedSince(cells, Day4(month.start)) :
           fromReport[u] = IF u.name \in known THEN 0 ELSE InBase(u.cost, u.currency, fx)
    OBVIOUS
  <2> DEFINE day == Day4(month.start)
             G == ReportedSince(cells, day)
  <2>2. WorthOfReports(fromReport, cells, day, fx, known)
    <3> HIDE DEF known, fromReport
    <3> QED  BY <2>1 DEF WorthOfReports
  <2>3. usage = G
    OBVIOUS
  <2> HIDE DEF fromReport, known, day, usage
  <2>4. /\ Whole(fromReport, G) /\ \A u \in G : u.cost \in Int
        /\ SumFunctionOnSet(fromReport, G) = CellsWorth({c \in cells : c.date >= day /\ c.name \notin known}, fx)
    <3>1. SumOfReports(fromReport, cells, day, fx, known)
      BY <2>2, ReportsAddUp
    <3> QED  BY <3>1 DEF SumOfReports, G
  <2> HIDE DEF G, month
  <2> QED  BY <2>3, <2>4 DEF day
<1> HIDE DEF usage
<1>14. \A u \in Kept : u \in usage /\ fromReport[u] = urow(u).base
  BY <1>4
<1>15. \A u \in usage \ Kept : fromReport[u] = 0
  <2> TAKE u \in usage \ Kept
  <2>1. CASE u.name \in known
    BY <2>1
  <2>2. CASE u.cost = 0
    <3>1. InBase(u.cost, u.currency, fx) = 0
      BY <1>13, <2>2, BaseFacts
    <3> QED  BY <3>1
  <2> QED  BY <2>1, <2>2
<1>16. \A r \in rows : base[r] = r.base
  OBVIOUS
<1>17. IsFiniteSet(projects) /\ \A p, q \in projects : p.name = q.name => p = q
  BY DEF AreProjects
<1>18. Whole(fromBalance, projects) /\ Whole(ofKept, projects) /\ Whole(ofMissed, projects)
       /\ \A p \in projects : ofKept[p] = fromBalance[p] + 1 * ofMissed[p]
  <2>1. ASSUME NEW p \in projects
        PROVE  ofKept[p] \in Int /\ ofMissed[p] \in Int /\ ofKept[p] = fromBalance[p] + 1 * ofMissed[p]
    <3> DEFINE a == spend(p)  b == missed(p)
    <3>1. a \in Int /\ b \in Int /\ kept(p) = a + b /\ kept(p) \in Int
      BY <1>2
    <3>2. fromBalance[p] = InBase(a, p.currency, fx) /\ ofMissed[p] = InBase(b, p.currency, fx) /\ ofKept[p] = InBase(kept(p), p.currency, fx)
      OBVIOUS
    <3> HIDE DEF a, b, fromBalance, ofMissed, ofKept
    <3>3. InBase(a, p.currency, fx) \in Int /\ InBase(b, p.currency, fx) \in Int
          /\ InBase(a + b, p.currency, fx) = InBase(a, p.currency, fx) + InBase(b, p.currency, fx)
      BY <3>1, BaseFacts
    <3> QED  BY <3>1, <3>2, <3>3
  <2> HIDE DEF fromBalance, ofKept, ofMissed
  <2> QED  BY <1>11, <1>17, <2>1 DEF Whole
<1> HIDE DEF fromBalance, ofKept, ofMissed, fromReport, base
<1>19. Whole(fromReport, Kept) /\ SumFunctionOnSet(fromReport, usage) = SumFunctionOnSet(fromReport, Kept)
  <2>1. Kept \in SUBSET usage
    OBVIOUS
  <2> HIDE DEF Kept
  <2> QED  BY <1>13, <1>15, <2>1, WholePart, SumLessZeros
<1>20. IsFiniteSet(B) /\ IsFiniteSet(U)
  <2>1. IsFiniteSet(Kept)
    BY <1>19 DEF Whole
  <2> DEFINE m == [p \in projects |-> row(p)]
             w == [u \in Kept |-> urow(u)]
  <2>2. m \in [projects -> B] /\ \A r \in B : \E p \in projects : m[p] = r
    OBVIOUS
  <2>3. w \in [Kept -> U] /\ \A r \in U : \E u \in Kept : w[u] = r
    OBVIOUS
  <2> HIDE DEF Kept, B, U, m, w
  <2>4. m \in Surjection(projects, B) /\ w \in Surjection(Kept, U)
    BY <2>2, <2>3 DEF Surjection
  <2> QED  BY <1>17, <2>1, <2>4, FS_Surjection
<1>21. (\A r \in B : r.base \in Int) /\ (\A r \in U : r.base \in Int)
  <2>1. \A u \in Kept : fromReport[u] \in Int
    BY <1>19 DEF Whole
  <2> QED  BY <1>11, <1>14, <2>1
<1>22. Whole(base, rows) /\ Whole(base, B) /\ Whole(base, U)
  <2>1. IsFiniteSet(rows)
    <3> HIDE DEF B, U
    <3> QED  BY <1>20, FS_Union
  <2> HIDE DEF B, U
  <2> QED  BY <1>16, <1>20, <1>21, <2>1 DEF Whole
<1>23. SumFunctionOnSet(base, rows) = SumFunctionOnSet(base, B) + SumFunctionOnSet(base, U)
  <2>1. B \in SUBSET rows /\ U \in SUBSET rows
    OBVIOUS
  <2> DEFINE S == rows
  <2>2. Whole(base, S) /\ S = B \cup U /\ B \in SUBSET S /\ U \in SUBSET S
    BY <1>22, <2>1
  <2> HIDE DEF B, U, S
  <2>3. SumFunctionOnSet(base, B \cup U) = SumFunctionOnSet(base, B) + SumFunctionOnSet(base, U)
    BY <1>10, <2>2, SumSplit
  <2> QED  BY <2>2, <2>3 DEF S
<1>24. SumFunctionOnSet(fromBalance, projects) = SumFunctionOnSet(base, B)
  <2> DEFINE m == [p \in projects |-> row(p)]
  <2>1. m \in [projects -> B]
    OBVIOUS
  <2>2. \A p, q \in projects : m[p] = m[q] => p = q
    BY <1>3, <1>17
  <2>3. \A p \in projects : fromBalance[p] = base[m[p]]
    BY <1>11, <1>16
  <2>4. \A r \in B : \E p \in projects : m[p] = r
    OBVIOUS
  <2> HIDE DEF m, B, U, rows
  <2> QED  BY <1>18, <1>22, <2>1, <2>2, <2>3, <2>4, SumMoved
<1>25. SumFunctionOnSet(fromReport, Kept) = SumFunctionOnSet(base, U)
  <2> DEFINE m == [u \in Kept |-> urow(u)]
  <2>1. m \in [Kept -> U]
    OBVIOUS
  <2>2. \A u, w \in Kept : m[u] = m[w] => u = w
    <3> SUFFICES ASSUME NEW u \in Kept, NEW w \in Kept, m[u] = m[w] PROVE u = w
      OBVIOUS
    <3>1. u.name = w.name /\ u.source = w.source /\ u.currency = w.currency /\ u.cost = w.cost
      BY <1>4
    <3>2. u \in usage /\ w \in usage
      OBVIOUS
    <3> HIDE DEF m
    <3> QED  BY <1>12, <3>1, <3>2
  <2>3. \A u \in Kept : fromReport[u] = base[m[u]]
    BY <1>14, <1>16
  <2>4. \A r \in U : \E u \in Kept : m[u] = r
    OBVIOUS
  <2> HIDE DEF m, B, U, rows, Kept
  <2> QED  BY <1>19, <1>22, <2>1, <2>2, <2>3, <2>4, SumMoved
<1>26. DOMAIN base = rows /\ DOMAIN ofKept = projects /\ DOMAIN ofMissed = projects
  BY DEF base, ofKept, ofMissed
<1> DEFINE later == CellsAfter(cells, mo)
           D == CellsOf(cells, mo)
           H == OfProjects(D, projects)
           L == later \ OfProjects(later, projects)
           Fresh == {c \in cells : c.date >= Day4(month.start) /\ c.name \notin known}
<1>27. CellsWorth(Fresh, fx) + CellsWorth(H, fx) = CellsWorth(D, fx) + CellsWorth(L, fx)
  <2>1. month.start = mo.start /\ mo.start \in Nat /\ mo.days \in Nat
    <3>1. Asks(when)
      BY DEF IsTable
    <3> QED  BY <3>1, MonthFacts
  <2> DEFINE first == Day4(mo.start)
  <2>2. first \in Nat /\ mo.days \in Nat /\ \A c \in cells : c.date \in Nat
    <3>1. \A c \in cells : c.date \in Nat
      BY DEF Reported
    <3> QED  BY <2>1, <3>1 DEF Day4, DayTicks
  <2>3. /\ D = {c \in cells : first <= c.date /\ c.date < first + mo.days}
        /\ later = {c \in cells : c.date >= first + mo.days}
        /\ Fresh = {c \in cells : c.date >= first /\ c.name \notin known}
    BY <2>1 DEF CellsOf, CellsAfter
  <2>4. H = {c \in D : c.name \in known} /\ L = {c \in later : c.name \notin known}
    BY <1>5 DEF OfProjects
  <2> HIDE DEF D, later, H, L, Fresh, known, first
  <2>5. \A c \in cells : c.date >= first <=> ((first <= c.date /\ c.date < first + mo.days) \/ c.date >= first + mo.days)
    BY <2>2
  <2>6. \A c \in cells : ~(c.date < first + mo.days /\ c.date >= first + mo.days)
    BY <2>2
  <2>7. /\ D \in SUBSET cells /\ L \in SUBSET cells /\ H \in SUBSET cells /\ D \ H \in SUBSET cells
        /\ Fresh = (D \ H) \cup L /\ (D \ H) \cap L = {} /\ (D \ H) \cap H = {} /\ (D \ H) \cup H = D
    BY <2>3, <2>4, <2>5, <2>6
  <2> DEFINE X == D \ H
  <2>8. /\ X \in SUBSET cells /\ Fresh = X \cup L /\ X \cap L = {} /\ X \cap H = {} /\ X \cup H = D
        /\ L \in SUBSET cells /\ H \in SUBSET cells
    BY <2>7
  <2> HIDE DEF X
  <2>9. /\ CellsWorth(X \cup L, fx) = CellsWorth(X, fx) + CellsWorth(L, fx)
        /\ CellsWorth(X \cup H, fx) = CellsWorth(X, fx) + CellsWorth(H, fx)
        /\ CellsWorth(X, fx) \in Int /\ CellsWorth(L, fx) \in Int /\ CellsWorth(H, fx) \in Int
    BY <2>8, WorthFacts
  <2>10. CellsWorth(Fresh, fx) = CellsWorth(X, fx) + CellsWorth(L, fx) /\ CellsWorth(D, fx) = CellsWorth(X, fx) + CellsWorth(H, fx)
    BY <2>8, <2>9
  <2> DEFINE y == CellsWorth(X, fx)
             l == CellsWorth(L, fx)
             h == CellsWorth(H, fx)
  <2>11. y \in Int /\ l \in Int /\ h \in Int
    BY <2>9
  <2>12. CellsWorth(Fresh, fx) = y + l /\ CellsWorth(D, fx) = y + h
    BY <2>10
  <2> HIDE DEF y, l, h
  <2>13. (y + l) + h = (y + h) + l
    BY <2>11
  <2> QED  BY <2>12, <2>13 DEF l, h
<1>28. SumFunctionOnSet(ofKept, projects) = SumFunctionOnSet(fromBalance, projects) + 1 * SumFunctionOnSet(ofMissed, projects)
  <2>1. \A p \in projects : ofKept[p] = fromBalance[p] + 1 * ofMissed[p]
    BY <1>18
  <2>2. 1 \in Int
    OBVIOUS
  <2> QED  BY <1>18, <2>1, <2>2, SumLinear
<1>29. SumFunction(base) + SumFunction(ofMissed) + CellsWorth(H, fx)
         = SumFunction(ofKept) + CellsWorth(D, fx) + CellsWorth(L, fx)
  <2>1. /\ SumFunction(base) = SumFunctionOnSet(fromBalance, projects) + CellsWorth(Fresh, fx)
    BY <1>13, <1>19, <1>23, <1>24, <1>25, <1>26 DEF SumFunction
  <2>2. SumFunction(ofKept) = SumFunctionOnSet(ofKept, projects) /\ SumFunction(ofMissed) = SumFunctionOnSet(ofMissed, projects)
    BY <1>26 DEF SumFunction
  <2>3. SumFunctionOnSet(fromBalance, projects) \in Int /\ SumFunctionOnSet(ofMissed, projects) \in Int
    BY <1>18, SumFacts
  <2>4. CellsWorth(Fresh, fx) \in Int /\ CellsWorth(H, fx) \in Int /\ CellsWorth(D, fx) \in Int /\ CellsWorth(L, fx) \in Int
    <3>1. Fresh \in SUBSET cells /\ D \in SUBSET cells /\ H \in SUBSET cells /\ L \in SUBSET cells
      BY DEF CellsOf, CellsAfter, OfProjects
    <3> HIDE DEF Fresh, H, D, L
    <3> QED  BY <3>1, WorthFacts
  <2> HIDE DEF Fresh, H, D, L
  <2> QED  BY <1>27, <1>28, <2>1, <2>2, <2>3, <2>4
<1>30. mo = when.current => \A p \in projects : CheckedBefore(OfName(series, p.name), mo) => missed(p) = 0
  BY NothingMissed DEF missed
<1> DEFINE c == CostsSummary(series, projects, cells, fx, when)
<1>31. c.rows = rows /\ c.total = SumFunction(base)
  BY <1>1
<1> HIDE DEF c, rows, H, L, D, later, mo
<1>32. \A r, x \in c.rows : r.name = x.name => r.from = x.from
  BY <1>9, <1>31
<1>33. \A p \in projects : \E r \in c.rows : r.name = p.name /\ r.from = "balance" /\ r.spend + missed(p) = kept(p)
  BY <1>6, <1>31
<1>34. c.total + SumFunction(ofMissed) + CellsWorth(H, fx) = SumFunction(ofKept) + CellsWorth(D, fx) + CellsWorth(L, fx)
  BY <1>29, <1>31
<1> QED  BY <1>30, <1>32, <1>33, <1>34 DEF CountedOnce, c, ofMissed, ofKept, missed, kept, H, L, D, later, mo, SpendKept, SpendMissed

-------------------------------------------------------------------------------
(* The weekly report                                                        *)

\* The rows of one account are a series, when the account has any.
LEMMA AccountSeries ==
  ASSUME NEW series, IsFleet(series), NEW id, \E i \in DOMAIN series : series[i].project = id
  PROVE  IsSeries(OfAccount(series, id))
<1> DEFINE I == {i \in DOMAIN series : series[i].project = id}
           n == Cardinality(I)
           s == OfAccount(series, id)
<1>1. series \in Seq(Snapshots) /\ I \in SUBSET DOMAIN series /\ I # {}
  BY DEF IsFleet
<1>2. s = Arranged(series, I, Forward(Len(series)))
  BY DEF OfAccount, Where, Forward, Pairs
<1>3. \A i, j \in I : i <= j => series[i].at <= series[j].at
  BY DEF IsFleet
<1> HIDE DEF I, s
<1>4. PICK m : Selects(m, s, series, I)
  BY <1>1, <1>2, WhereFacts
<1>5. s \in Seq(Snapshots)
  BY <1>1, <1>2, WhereFacts
<1>6. /\ m \in [1..n -> I] /\ n \in Nat
      /\ \A k, l \in 1..n : k < l => m[k] < m[l]
      /\ \A i \in I : \E k \in 1..n : m[k] = i
      /\ s = [k \in 1..n |-> series[m[k]]]
  BY <1>4 DEF Selects
<1>7. DOMAIN s = 1..n /\ \A k \in 1..n : s[k] = series[m[k]]
  BY <1>6
<1>8. \E k \in 1..n : TRUE
  BY <1>1, <1>6
<1>9. s # <<>>
  <2>1. DOMAIN <<>> = {} /\ DOMAIN s # {}
    BY <1>7, <1>8
  <2> QED  BY <2>1
<1>10. ASSUME NEW k \in DOMAIN s, NEW l \in DOMAIN s, k <= l PROVE s[k].at <= s[l].at
  <2>1. k \in 1..n /\ l \in 1..n /\ m[k] \in I /\ m[l] \in I
    BY <1>6, <1>7
  <2>2. m[k] \in Int /\ m[l] \in Int
    <3>1. I \in SUBSET Int
      BY <1>1
    <3> QED  BY <2>1, <3>1
  <2>3. m[k] <= m[l]
    <3>1. CASE k = l
      BY <2>2, <3>1
    <3>2. CASE k # l
      <4>1. k < l
        BY <1>6, <1>10, <2>1, <3>2
      <4>2. m[k] < m[l]
        BY <1>6, <2>1, <4>1
      <4> QED  BY <2>2, <4>2
    <3> QED  BY <3>1, <3>2
  <2> QED  BY <1>3, <1>7, <2>1, <2>3
<1> QED  BY <1>5, <1>9, <1>10 DEF IsSeries, s

\* The runway of an account spends what spend_summary reads of its rows.
LEMMA RunwaysRead ==
  ASSUME NEW series, IsFleet(series), NEW now \in Nat, NEW id \in DOMAIN ComputeAll(series, now)
  PROVE  /\ ComputeAll(series, now)[id].consumed = SpendView(OfAccount(series, id), now).consumed
         /\ SpendView(OfAccount(series, id), now).consumed \in Int
<1> DEFINE ids == {series[i].project : i \in DOMAIN series}
           s == OfAccount(series, id)
<1>1. id \in ids /\ ComputeAll(series, now)[id] = Compute(s, now)
  BY DEF ComputeAll
<1>2. IsSeries(s)
  BY <1>1, AccountSeries
<1>3. SpendAgreesWithRunway(s, now)
  BY <1>2, EstimatesRead
<1>4. SpendView(s, now).consumed = SumFunction(Spending(s))
  BY <1>2, ViewFacts
<1> HIDE DEF s
<1>5. Compute(s, now).consumed = SpendView(s, now).consumed
  BY <1>3 DEF SpendAgreesWithRunway
<1>6. s \in Seq(Snapshots) /\ DOMAIN Spending(s) = 2..Len(s)
  BY <1>2 DEF IsSeries, Spending
<1>7. SumFunction(Spending(s)) \in Int
  BY <1>6, FlowFacts, SumFacts DEF SumFunction
<1> QED  BY <1>1, <1>4, <1>5, <1>7 DEF s

\* The positions of n rows, from the greatest of their figures f to the least.
Downward(n, f) == {p \in (1..n) \X (1..n) : f[p[1]] > f[p[2]] \/ (p[1] <= p[2] /\ ~(f[p[2]] > f[p[1]]))}

\* A stable sort by a figure is an order.
LEMMA DownwardOrders ==
  ASSUME NEW n \in Nat, NEW f, \A i \in 1..n : f[i] \in Int
  PROVE  TotalOn(1..n, Downward(n, f))
<1>1. ASSUME NEW i \in 1..n, NEW j \in 1..n
      PROVE  <<i, j>> \in Downward(n, f) <=> f[i] > f[j] \/ (i <= j /\ ~(f[j] > f[i]))
  BY DEF Downward
<1>2. ASSUME NEW i \in 1..n, NEW j \in 1..n PROVE <<i, j>> \in Downward(n, f) \/ <<j, i>> \in Downward(n, f)
  <2>1. f[i] \in Int /\ f[j] \in Int /\ i \in Int /\ j \in Int
    OBVIOUS
  <2> QED  BY <1>1, <2>1
<1>3. ASSUME NEW i \in 1..n, NEW j \in 1..n, <<i, j>> \in Downward(n, f), <<j, i>> \in Downward(n, f) PROVE i = j
  <2>1. f[i] \in Int /\ f[j] \in Int /\ i \in Int /\ j \in Int
    OBVIOUS
  <2> QED  BY <1>1, <1>3, <2>1
<1>4. ASSUME NEW i \in 1..n, NEW j \in 1..n, NEW k \in 1..n,
             <<i, j>> \in Downward(n, f), <<j, k>> \in Downward(n, f)
      PROVE  <<i, k>> \in Downward(n, f)
  <2>1. f[i] \in Int /\ f[j] \in Int /\ f[k] \in Int /\ i \in Int /\ j \in Int /\ k \in Int
    OBVIOUS
  <2>2. f[i] > f[j] \/ (i <= j /\ ~(f[j] > f[i]))
    BY <1>1, <1>4
  <2>3. f[j] > f[k] \/ (j <= k /\ ~(f[k] > f[j]))
    BY <1>1, <1>4
  <2>4. f[i] > f[k] \/ (i <= k /\ ~(f[k] > f[i]))
    BY <2>1, <2>2, <2>3
  <2> QED  BY <1>1, <2>4
<1> QED  BY <1>2, <1>3, <1>4 DEF TotalOn

\* The weekly report sums what spend_summary reads for the accounts whose checks
\* succeed, and nothing left off the chart spent more than what is on it (spendRows, Build).
THEOREM ReportReads ==
  ASSUME NEW series, IsFleet(series), NEW now \in Nat, NEW subs,
         NEW results \in Seq([id : STRING, success : BOOLEAN, alarm : BOOLEAN])
  PROVE  ReportAgrees(series, results, subs, now)
<1> DEFINE runways == ComputeAll(series, now)
           report == WeeklyReport(results, subs, runways)
           counted == {i \in DOMAIN results : results[i].success /\ results[i].id \in DOMAIN runways}
           view(i) == SpendView(OfAccount(series, results[i].id), now)
           kept == Where(results, counted)
           rows == SpendRows(results, runways)
           n == Cardinality(counted)
           f == [k \in DOMAIN rows |-> rows[k].consumed]
           less == {p \in Pairs(rows) : rows[p[1]].consumed > rows[p[2]].consumed}
           sorted == SortedBy(rows, DOMAIN rows, less)
           top == Head3(sorted)
<1>1. \A i \in counted : runways[results[i].id].consumed = view(i).consumed /\ view(i).consumed \in Int
  BY RunwaysRead
<1>2. report.total = (IF rows = <<>> THEN Nil ELSE <<SumFunction(f)>>) /\ report.topSpend = top
  BY DEF WeeklyReport
<1>3. kept = Arranged(results, counted, Forward(Len(results)))
  BY DEF Where, Forward, Pairs
<1>4. counted \in SUBSET DOMAIN results
  OBVIOUS
<1> HIDE DEF counted, view, report
<1>5. PICK m : Selects(m, kept, results, counted)
  BY <1>3, <1>4, WhereFacts
<1>6. /\ m \in [1..n -> counted] /\ n \in Nat
      /\ \A k, l \in 1..n : k < l => m[k] < m[l]
      /\ \A i \in counted : \E k \in 1..n : m[k] = i
      /\ kept = [k \in 1..n |-> results[m[k]]]
  BY <1>5 DEF Selects
<1>7. /\ DOMAIN kept = 1..n /\ \A k \in 1..n : kept[k] = results[m[k]]
  BY <1>6
<1>8. rows = [i \in DOMAIN kept |-> [id |-> kept[i].id, consumed |-> runways[kept[i].id].consumed,
                                     runway |-> runways[kept[i].id].runway]]
  BY DEF SpendRows, counted
<1> HIDE DEF kept, rows, runways
<1>9. /\ DOMAIN rows = 1..n /\ rows = [k \in 1..n |-> rows[k]]
      /\ \A k \in 1..n : rows[k].id = results[m[k]].id /\ rows[k].consumed = view(m[k]).consumed /\ rows[k].consumed \in Int
  <2>1. DOMAIN rows = 1..n /\ rows = [k \in 1..n |-> rows[k]]
    BY <1>7, <1>8
  <2>2. \A k \in 1..n : rows[k].id = results[m[k]].id /\ rows[k].consumed = runways[results[m[k]].id].consumed
    BY <1>7, <1>8
  <2>3. \A k \in 1..n : m[k] \in counted
    BY <1>6
  <2> QED  BY <1>1, <2>1, <2>2, <2>3
<1>10. DOMAIN f = 1..n /\ \A k \in 1..n : f[k] = view(m[k]).consumed /\ f[k] = rows[k].consumed /\ f[k] \in Int
  BY <1>9
<1>11. rows \in Seq({rows[k] : k \in 1..n}) /\ Len(rows) = n
  <2> DEFINE V == {rows[k] : k \in 1..n}
  <2>1. \A k \in 1..n : rows[k] \in V
    OBVIOUS
  <2> HIDE DEF V, n
  <2>2. rows \in Seq(V) /\ Len(rows) = n
    BY <1>6, <1>9, <2>1, LenOf
  <2> QED  BY <2>2 DEF V
<1>12. sorted = Arranged(rows, 1..n, Downward(n, f))
  <2> DEFINE R == {p \in Pairs(rows) : p \in less \/ (p[1] <= p[2] /\ <<p[2], p[1]>> \notin less)}
  <2>1. sorted = Arranged(rows, DOMAIN rows, R)
    BY DEF SortedBy
  <2>2. R = Downward(n, f)
    <3>1. ASSUME NEW p \in (1..n) \X (1..n)
          PROVE  (p \in less <=> f[p[1]] > f[p[2]]) /\ (<<p[2], p[1]>> \in less <=> f[p[2]] > f[p[1]])
      <4>1. p[1] \in 1..n /\ p[2] \in 1..n /\ p = <<p[1], p[2]>>
        OBVIOUS
      <4> HIDE DEF f, n
      <4>2. f[p[1]] = rows[p[1]].consumed /\ f[p[2]] = rows[p[2]].consumed
        BY <1>10, <4>1
      <4> QED  BY <1>11, <4>1, <4>2 DEF Pairs
    <3>2. Pairs(rows) = (1..n) \X (1..n)
      BY <1>11 DEF Pairs
    <3> HIDE DEF less, f, n
    <3> QED  BY <3>1, <3>2 DEF Downward
  <2> HIDE DEF R
  <2> QED  BY <1>9, <1>11, <2>1, <2>2
<1> HIDE DEF f, sorted, less
<1>13. IsFiniteSet(1..n) /\ Cardinality(1..n) = n
  BY <1>6, FS_Interval
<1>14. PICK q : Lists(q, 1..n, Downward(n, f)) /\ sorted = [k \in 1..n |-> rows[q[k]]]
  <2>1. TotalOn(1..n, Downward(n, f))
    <3> HIDE DEF n
    <3> QED  BY <1>6, <1>10, DownwardOrders
  <2>2. \E q : Lists(q, 1..n, Downward(n, f)) /\ Arranged(rows, 1..n, Downward(n, f)) = [k \in 1..Cardinality(1..n) |-> rows[q[k]]]
    <3> DEFINE I == 1..n
               R == Downward(n, f)
    <3>1. IsFiniteSet(I) /\ TotalOn(I, R)
      BY <1>13, <2>1
    <3> HIDE DEF I, R, n
    <3>2. \E q : Lists(q, I, R) /\ Arranged(rows, I, R) = [k \in 1..Cardinality(I) |-> rows[q[k]]]
      BY <3>1, ArrangedFacts
    <3> QED  BY <3>2 DEF I, R
  <2> QED  BY <1>12, <1>13, <2>2
<1> HIDE DEF n
<1>15. /\ q \in [1..n -> 1..n]
       /\ \A k, l \in 1..n : k < l => f[q[k]] >= f[q[l]]
       /\ \A j \in 1..n : \E l \in 1..n : q[l] = j
  <2>1. /\ q \in [1..n -> 1..n] /\ (\A j \in 1..n : \E l \in 1..n : q[l] = j)
        /\ \A k, l \in 1..n : k < l => <<q[k], q[l]>> \in Downward(n, f)
    BY <1>13, <1>14 DEF Lists
  <2>2. ASSUME NEW k \in 1..n, NEW l \in 1..n, k < l PROVE f[q[k]] >= f[q[l]]
    <3>1. f[q[k]] > f[q[l]] \/ ~(f[q[l]] > f[q[k]])
      BY <2>1, <2>2 DEF Downward
    <3>2. f[q[k]] \in Int /\ f[q[l]] \in Int
      BY <1>10, <2>1
    <3> QED  BY <3>1, <3>2
  <2> QED  BY <2>1, <2>2
<1>16. /\ Len(sorted) = n /\ sorted \in Seq({rows[k] : k \in 1..n}) /\ \A k \in 1..n : sorted[k] = rows[q[k]]
  <2> DEFINE V == {rows[k] : k \in 1..n}
  <2>1. DOMAIN sorted = 1..n /\ sorted = [k \in 1..n |-> sorted[k]] /\ \A k \in 1..n : sorted[k] = rows[q[k]] /\ sorted[k] \in V
    BY <1>14, <1>15
  <2> HIDE DEF V
  <2>2. sorted \in Seq(V) /\ Len(sorted) = n
    BY <1>6, <2>1, LenOf
  <2> QED  BY <2>1, <2>2 DEF V
<1> DEFINE t == Smaller(TopN, n)
<1>17. t \in Nat /\ t <= n /\ DOMAIN top = 1..t /\ \A k \in 1..t : top[k] = rows[q[k]] /\ k \in 1..n
  <2>1. t \in Nat /\ t <= n
    BY <1>6 DEF Smaller, TopN
  <2>2. top = SubSeq(sorted, 1, t)
    BY <1>16 DEF Head3
  <2> HIDE DEF t
  <2> DEFINE V == {rows[k] : k \in 1..n}
  <2> HIDE DEF V
  <2>5. sorted \in Seq(V) /\ Len(sorted) = n
    BY <1>16 DEF V
  <2>3. DOMAIN top = 1..t /\ \A k \in 1..t : top[k] = sorted[k]
    BY <1>6, <2>1, <2>2, <2>5
  <2>4. \A k \in 1..t : k \in 1..n
    BY <1>6, <2>1
  <2> QED  BY <1>16, <2>1, <2>3, <2>4
<1> HIDE DEF t, top
<1>18. counted # {} => report.total = <<SumFunction([i \in counted |-> view(i).consumed])>>
  <2> SUFFICES ASSUME counted # {} PROVE report.total = <<SumFunction([i \in counted |-> view(i).consumed])>>
    OBVIOUS
  <2> DEFINE d == [i \in counted |-> view(i).consumed]
  <2>1. \E k \in 1..n : TRUE
    BY <1>6
  <2>2. rows # <<>>
    <3>1. DOMAIN <<>> = {} /\ DOMAIN rows # {}
      BY <1>9, <2>1
    <3> QED  BY <3>1
  <2>3. Whole(f, 1..n)
    BY <1>10, <1>13 DEF Whole
  <2>4. IsFiniteSet(counted)
    <3>1. m \in Surjection(1..n, counted)
      BY <1>6 DEF Surjection
    <3> QED  BY <1>13, <3>1, FS_Surjection
  <2>5. Whole(d, counted)
    BY <1>1, <2>4 DEF Whole
  <2>6. \A k, l \in 1..n : m[k] = m[l] => k = l
    <3> SUFFICES ASSUME NEW k \in 1..n, NEW l \in 1..n, m[k] = m[l], k # l PROVE FALSE
      OBVIOUS
    <3>1. m[k] \in Int /\ m[l] \in Int
      <4>1. counted \in SUBSET Int
        BY <1>4
      <4> QED  BY <1>6, <4>1
    <3>2. CASE k < l
      <4>1. m[k] < m[l]
        BY <1>6, <3>2
      <4> QED  BY <3>1, <4>1
    <3>3. CASE l < k
      <4>1. m[l] < m[k]
        BY <1>6, <3>3
      <4> QED  BY <3>1, <4>1
    <3> QED  BY <1>6, <3>2, <3>3
  <2>7. \A k \in 1..n : f[k] = d[m[k]]
    BY <1>6, <1>10
  <2>8. DOMAIN d = counted
    OBVIOUS
  <2> HIDE DEF d
  <2>9. SumFunctionOnSet(f, 1..n) = SumFunctionOnSet(d, counted)
    <3> DEFINE S == 1..n
    <3>1. /\ m \in [S -> counted] /\ Whole(f, S) /\ (\A k, l \in S : m[k] = m[l] => k = l)
          /\ (\A k \in S : f[k] = d[m[k]]) /\ \A i \in counted : \E k \in S : m[k] = i
      BY <1>6, <2>3, <2>6, <2>7
    <3> HIDE DEF S
    <3>2. SumFunctionOnSet(f, S) = SumFunctionOnSet(d, counted)
      BY <2>5, <3>1, SumMoved
    <3> QED  BY <3>2 DEF S
  <2>10. SumFunction(f) = SumFunction(d)
    BY <1>10, <2>8, <2>9 DEF SumFunction
  <2> QED  BY <1>2, <2>2, <2>10 DEF d
<1> DEFINE charted == {report.topSpend[k].id : k \in DOMAIN report.topSpend}
<1>19. ASSUME NEW i \in counted, results[i].id \notin charted, NEW k \in DOMAIN report.topSpend
       PROVE  report.topSpend[k].consumed >= view(i).consumed
  <2>1. k \in 1..t /\ k \in 1..n /\ report.topSpend[k] = rows[q[k]]
    BY <1>2, <1>17
  <2>2. PICK j \in 1..n : m[j] = i
    BY <1>6
  <2>3. PICK l \in 1..n : q[l] = j
    BY <1>15
  <2>4. rows[q[l]].id = results[i].id /\ rows[q[l]].consumed = view(i).consumed
    BY <1>9, <2>2, <2>3
  <2>5. l \notin 1..t
    <3> SUFFICES ASSUME l \in 1..t PROVE FALSE
      OBVIOUS
    <3>1. l \in DOMAIN report.topSpend /\ report.topSpend[l].id = results[i].id
      BY <1>2, <1>17, <2>4
    <3> QED  BY <1>19, <3>1
  <2>6. k < l
    <3>1. k \in Int /\ l \in Int /\ t \in Int /\ k <= t /\ 1 <= l /\ ~(l <= t)
      BY <1>17, <2>1, <2>5
    <3> QED  BY <3>1
  <2>7. f[q[k]] >= f[q[l]]
    BY <1>15, <2>1, <2>6
  <2>8. f[q[k]] = rows[q[k]].consumed /\ f[q[l]] = rows[q[l]].consumed
    BY <1>10, <1>15, <2>1
  <2> QED  BY <2>1, <2>4, <2>7, <2>8
<1> HIDE DEF charted
<1>20. \A i \in counted : results[i].id \notin charted =>
         \A k \in DOMAIN report.topSpend : report.topSpend[k].consumed >= view(i).consumed
  BY <1>19
<1> QED  BY <1>18, <1>20 DEF ReportAgrees, runways, report, counted, view, charted

-------------------------------------------------------------------------------
(* A thinned series                                                         *)

\* What a whole quotient is.
LEMMA Quotient ==
  ASSUME NEW a \in Nat, NEW b \in Nat, b > 0
  PROVE  a \div b \in Nat /\ b * (a \div b) <= a /\ a < b * (a \div b) + b
OBVIOUS

\* A quotient is at least what fits into it.
LEMMA QuotientAtLeast ==
  ASSUME NEW a \in Nat, NEW b \in Nat, b > 0, NEW q \in Nat, q * b <= a
  PROVE  q <= a \div b
<1> DEFINE d == a \div b
<1>1. d \in Nat /\ a < b * d + b
  BY Quotient
<1> HIDE DEF d
<1>2. ASSUME q > d PROVE FALSE
  <2>1. q >= d + 1
    BY <1>1, <1>2
  <2>2. q * b >= (d + 1) * b
    BY <1>1, <2>1
  <2> QED  BY <1>1, <2>2
<1> QED  BY <1>1, <1>2 DEF d

\* A quotient is below what does not.
LEMMA QuotientBelow ==
  ASSUME NEW a \in Nat, NEW b \in Nat, b > 0, NEW q \in Nat, a < q * b
  PROVE  a \div b < q
<1> DEFINE d == a \div b
<1>1. d \in Nat /\ b * d <= a
  BY Quotient
<1> HIDE DEF d
<1>2. ASSUME d >= q PROVE FALSE
  <2>1. d * b >= q * b
    BY <1>1, <1>2
  <2> QED  BY <1>1, <2>1
<1> QED  BY <1>1, <1>2 DEF d

Buckets == TrendPointCap \div 2
BucketOf(n, i) == (i * Buckets) \div n
NextOf(n, i) == ((BucketOf(n, i) + 1) * n + Buckets - 1) \div Buckets
EndOf(n, i) == Smaller(Larger(NextOf(n, i), i + 1), n)

\* A point's bucket ends after it, and the bucket after that is a later one: there are
\* no more than the cap allows.
LEMMA EndFacts ==
  ASSUME NEW n \in Nat, NEW i \in 0..(n - 1)
  PROVE  /\ Buckets \in Nat /\ Buckets >= 1 /\ 2 * Buckets <= TrendPointCap
         /\ EndOf(n, i) \in (i + 1)..n
         /\ BucketOf(n, i) \in 0..(Buckets - 1)
         /\ EndOf(n, i) < n => BucketOf(n, EndOf(n, i)) >= BucketOf(n, i) + 1
<1> DEFINE B == Buckets
           b == BucketOf(n, i)
           next == NextOf(n, i)
           e == EndOf(n, i)
<1>1. B \in Nat /\ B >= 1 /\ 2 * B <= TrendPointCap
  <2>1. TrendPointCap \in Nat /\ TrendPointCap >= 2
    BY TrendAssumption
  <2> QED  BY <2>1 DEF Buckets
<1> HIDE DEF B
<1>2. i \in Nat /\ n \in Nat /\ n > 0 /\ i < n /\ i + 1 <= n
  OBVIOUS
<1>3. i * B \in Nat /\ i * B < B * n
  <2>1. i * B \in Nat
    BY <1>1, <1>2
  <2>2. i * B < n * B /\ n * B = B * n
    BY <1>1, <1>2
  <2> QED  BY <2>1, <2>2
<1>4. b \in Nat /\ b < B
  <2>1. b = (i * B) \div n
    BY DEF BucketOf, B
  <2>2. (i * B) \div n \in Nat
    BY <1>2, <1>3, Quotient
  <2>3. (i * B) \div n < B
    BY <1>1, <1>2, <1>3, QuotientBelow
  <2> QED  BY <2>1, <2>2, <2>3
<1>5. next = ((b + 1) * n + B - 1) \div B
  BY DEF NextOf, B
<1>6. e = Smaller(Larger(next, i + 1), n)
  BY DEF EndOf
<1> HIDE DEF b, next, e
<1>7. (b + 1) * n \in Nat /\ (b + 1) * n + B - 1 \in Nat
  <2>1. (b + 1) * n \in Nat
    BY <1>2, <1>4
  <2> DEFINE x == (b + 1) * n
  <2> HIDE DEF x
  <2>2. x \in Nat
    BY <2>1 DEF x
  <2>3. x + B - 1 \in Nat
    BY <1>1, <2>2
  <2> QED  BY <2>1, <2>3 DEF x
<1>8. next \in Nat /\ next * B >= (b + 1) * n
  <2> DEFINE x == (b + 1) * n
  <2>1. x \in Nat /\ x + B - 1 \in Nat /\ next = (x + B - 1) \div B
    BY <1>5, <1>7
  <2> HIDE DEF x
  <2>2. next \in Nat /\ x + B - 1 < B * next + B
    BY <1>1, <2>1, Quotient
  <2>3. B * next = next * B /\ B * next \in Nat
    BY <1>1, <2>2
  <2> DEFINE y == next * B
  <2> HIDE DEF y
  <2>4. y \in Nat /\ x + B - 1 < y + B
    BY <2>2, <2>3 DEF y
  <2>5. y >= x
    BY <1>1, <2>1, <2>4
  <2> QED  BY <2>2, <2>5 DEF x, y
<1>9. e \in (i + 1)..n /\ (e < n => e >= next)
  BY <1>2, <1>6, <1>8 DEF Smaller, Larger
<1>10. ASSUME e < n PROVE BucketOf(n, e) >= b + 1
  <2>1. e \in Nat /\ e >= next
    BY <1>2, <1>9, <1>10
  <2>2. e * B >= next * B
    BY <1>1, <1>8, <2>1
  <2>3. e * B \in Nat /\ (b + 1) * n <= e * B
    <3>1. e * B \in Nat /\ next * B \in Nat
      BY <1>1, <1>8, <2>1
    <3> QED  BY <1>7, <1>8, <2>2, <3>1
  <2>4. b + 1 \in Nat
    BY <1>4
  <2>5. b + 1 <= (e * B) \div n
    BY <1>2, <2>3, <2>4, QuotientAtLeast
  <2>6. BucketOf(n, e) = (e * B) \div n
    BY DEF BucketOf, B
  <2>7. (e * B) \div n \in Nat
    BY <1>2, <2>3, Quotient
  <2> QED  BY <2>4, <2>5, <2>6, <2>7
<1>11. b \in 0..(B - 1)
  BY <1>1, <1>4
<1> QED  BY <1>1, <1>9, <1>10, <1>11 DEF B, b, e

\* The positions p stand for the 0-based points i..e-1: they are among them, in order, no
\* more than m, and include points as low and as high as any.
StandsFor(p, points, i, e, m) ==
  /\ p \in Seq(i..(e - 1)) /\ Len(p) <= m
  /\ \A k, l \in 1..Len(p) : k <= l => p[k] <= p[l]
  /\ \A j \in i..(e - 1) : /\ \E k \in 1..Len(p) : points[p[k] + 1].bal <= points[j + 1].bal
                           /\ \E k \in 1..Len(p) : points[p[k] + 1].bal >= points[j + 1].bal

\* One or two numbers as a list.
LEMMA PairIs ==
  ASSUME NEW V, NEW x \in V, NEW y \in V
  PROVE  <<x, y>> \in Seq(V) /\ Len(<<x, y>>) = 2 /\ <<x, y>>[1] = x /\ <<x, y>>[2] = y
OBVIOUS

\* A bucket contributes its extremes.
LEMMA PicksFacts ==
  ASSUME NEW points \in Seq(Snapshots), NEW i \in 0..(Len(points) - 1), NEW e \in (i + 1)..Len(points)
  PROVE  StandsFor(Picks(points, i, e), points, i, e, 2)
<1> DEFINE n == Len(points)
           B == i..(e - 1)
           f == [j \in B |-> points[j + 1].bal]
           Lows == {j \in B : \A k \in B : points[j + 1].bal <= points[k + 1].bal}
           Highs == {j \in B : \A k \in B : points[j + 1].bal >= points[k + 1].bal}
           p == Picks(points, i, e)
<1>1. n \in Nat /\ i \in Nat /\ e \in Nat /\ i < e /\ e <= n
  OBVIOUS
<1>2. \A j \in B : j \in Nat /\ j + 1 \in 1..n
  BY <1>1
<1>3. \A j \in B : points[j + 1].bal \in Int
  BY <1>2, SeriesFacts
<1>4. CASE e <= i + 2
  <2> DEFINE q == [k \in 1..(e - i) |-> i + k - 1]
             m == e - i
  <2>1. p = q
    BY <1>4 DEF Picks
  <2>2. m \in Nat /\ m <= 2 /\ \A k \in 1..m : q[k] = i + k - 1 /\ q[k] \in B
    BY <1>1, <1>4
  <2>3. q \in Seq(B) /\ Len(q) = m
    <3>1. DOMAIN q = 1..m /\ q = [k \in 1..m |-> q[k]]
      BY <2>2
    <3> HIDE DEF q, B, m
    <3> QED  BY <2>2, <3>1, LenOf
  <2>4. \A k, l \in 1..m : k <= l => q[k] <= q[l]
    BY <1>1, <2>2
  <2>5. \A j \in B : j - i + 1 \in 1..m /\ q[j - i + 1] = j
    <3> TAKE j \in B
    <3>1. j - i + 1 \in 1..m /\ i + (j - i + 1) - 1 = j
      BY <1>1
    <3> QED  BY <2>2, <3>1
  <2> HIDE DEF q, m
  <2>6. \A j \in B : /\ \E k \in 1..m : points[q[k] + 1].bal <= points[j + 1].bal
                     /\ \E k \in 1..m : points[q[k] + 1].bal >= points[j + 1].bal
    <3> TAKE j \in B
    <3>1. points[q[j - i + 1] + 1].bal = points[j + 1].bal /\ points[j + 1].bal \in Int /\ j - i + 1 \in 1..m
      BY <1>3, <2>5
    <3>2. points[q[j - i + 1] + 1].bal <= points[j + 1].bal /\ points[q[j - i + 1] + 1].bal >= points[j + 1].bal
      BY <3>1
    <3> QED  BY <3>1, <3>2
  <2> QED  BY <2>1, <2>2, <2>3, <2>4, <2>6 DEF StandsFor
<1>5. CASE ~(e <= i + 2)
  <2> DEFINE low == Min(Lows)
             high == Min(Highs)
             x == Smaller(low, high)
             y == Larger(low, high)
  <2>1. Lows # {} /\ Highs # {}
    <3> DEFINE g == [k \in 1..(e - i) |-> points[i + k].bal]
    <3>1. e - i \in Nat /\ e - i >= 1
      BY <1>1
    <3>2. \A k \in 1..(e - i) : i + k - 1 \in B /\ (i + k - 1) + 1 = i + k /\ g[k] = points[(i + k - 1) + 1].bal
      BY <1>1
    <3>3. \A k \in 1..(e - i) : g[k] \in Int
      BY <1>3, <3>2
    <3>4. \A j \in B : j - i + 1 \in 1..(e - i) /\ g[j - i + 1] = points[j + 1].bal
      <4> TAKE j \in B
      <4>1. j - i + 1 \in 1..(e - i) /\ i + (j - i + 1) = j + 1
        BY <1>1
      <4> QED  BY <4>1
    <3> HIDE DEF g
    <3>5. /\ \E k \in 1..(e - i) : \A l \in 1..(e - i) : g[k] <= g[l]
          /\ \E k \in 1..(e - i) : \A l \in 1..(e - i) : g[k] >= g[l]
      BY <3>1, <3>3, ExtremesExist
    <3>6. PICK k \in 1..(e - i) : \A l \in 1..(e - i) : g[k] <= g[l]
      BY <3>5
    <3>7. PICK h \in 1..(e - i) : \A l \in 1..(e - i) : g[h] >= g[l]
      BY <3>5
    <3>8. \A j \in B : /\ points[(i + k - 1) + 1].bal <= points[j + 1].bal
                      /\ points[(i + h - 1) + 1].bal >= points[j + 1].bal
      <4> HIDE DEF B
      <4> QED  BY <3>2, <3>4, <3>6, <3>7
    <3>9. i + k - 1 \in Lows /\ i + h - 1 \in Highs
      <4>1. i + k - 1 \in B /\ i + h - 1 \in B
        BY <3>2
      <4> HIDE DEF B
      <4> QED  BY <3>8, <4>1
    <3> QED  BY <3>9
  <2>2. Lows \in SUBSET Nat /\ Highs \in SUBSET Nat
    BY <1>2
  <2>3. ASSUME NEW S \in SUBSET Nat, S # {} PROVE Min(S) \in S
    <3>1. PICK m \in S : \A z \in S : m <= z
      BY <2>3, LeastOfNat
    <3>2. S \in SUBSET Int
      BY <2>3
    <3> QED  BY <3>1, <3>2, MinMaxAre
  <2>4. low \in Lows /\ high \in Highs
    <3> HIDE DEF Lows, Highs
    <3> QED  BY <2>1, <2>2, <2>3
  <2>5. low \in B /\ high \in B
    BY <2>4
  <2>6. \A j \in B : points[low + 1].bal <= points[j + 1].bal /\ points[high + 1].bal >= points[j + 1].bal
    BY <2>4
  <2>7. p = <<x, y>>
    BY <1>5 DEF Picks
  <2> HIDE DEF low, high, p
  <2>8. x \in B /\ y \in B /\ x <= y /\ ((x = low /\ y = high) \/ (x = high /\ y = low))
    <3>1. low \in Int /\ high \in Int
      BY <2>5
    <3> HIDE DEF B
    <3> QED  BY <2>5, <3>1 DEF Smaller, Larger
  <2> HIDE DEF x, y, B
  <2>9. p \in Seq(B) /\ Len(p) = 2 /\ p[1] = x /\ p[2] = y
    BY <2>7, <2>8, PairIs
  <2>10. x \in Int /\ y \in Int
    BY <1>2, <2>8
  <2>11. \A k, l \in 1..2 : k <= l => p[k] <= p[l]
    <3>1. \A k \in 1..2 : k = 1 \/ k = 2
      OBVIOUS
    <3> QED  BY <2>8, <2>9, <2>10, <3>1
  <2>12. 1 \in 1..2 /\ 2 \in 1..2
    OBVIOUS
  <2>13. \A j \in B : /\ \E k \in 1..2 : points[p[k] + 1].bal <= points[j + 1].bal
                      /\ \E k \in 1..2 : points[p[k] + 1].bal >= points[j + 1].bal
    BY <2>6, <2>8, <2>9, <2>12
  <2> QED  BY <2>9, <2>11, <2>13 DEF StandsFor, p, B
<1> QED  BY <1>4, <1>5

\* What follows from one bucket to the next: P[i] and then what follows from e[i].
Follows(g, n, e, P) == g = [i \in 0..n |-> IF i = n THEN <<>> ELSE P[i] \o g[e[i]]]

\* The function that downsampleTrend's loop is defined by exists.
LEMMA FollowsExists ==
  ASSUME NEW n \in Nat, NEW e, \A i \in 0..(n - 1) : e[i] \in (i + 1)..n, NEW P
  PROVE  \E g : Follows(g, n, e, P)
<1> DEFINE Body(g, i) == IF i = n THEN <<>> ELSE P[i] \o g[e[i]]
           Fits(k, g) == \A i \in (n - k)..n : g[i] = Body(g, i)
           T == {k \in 0..n : ~\E g : Fits(k, g)}
<1>1. T = {}
  <2> SUFFICES ASSUME T # {} PROVE FALSE
    OBVIOUS
  <2>1. PICK k \in T : \A l \in T : k <= l
    <3>1. T \in SUBSET Nat
      OBVIOUS
    <3> HIDE DEF T
    <3> QED  BY <3>1, LeastOfNat
  <2>2. k \in 0..n /\ ~\E g : Fits(k, g)
    OBVIOUS
  <2>3. k # 0
    <3> SUFFICES ASSUME k = 0 PROVE FALSE
      OBVIOUS
    <3> DEFINE g == [i \in {n} |-> <<>>]
    <3>1. (n - 0)..n = {n} /\ g[n] = Body(g, n)
      OBVIOUS
    <3> HIDE DEF g
    <3>2. \A i \in {n} : g[i] = Body(g, i)
      BY <3>1
    <3> HIDE DEF Body
    <3>3. Fits(0, g)
      BY <3>1, <3>2
    <3> QED  BY <2>2, <3>3
  <2>4. k - 1 \in 0..n /\ k - 1 \notin T
    <3>1. k - 1 \in 0..n /\ k - 1 < k /\ ~(k <= k - 1)
      BY <2>2, <2>3
    <3> HIDE DEF T
    <3> QED  BY <2>1, <3>1
  <2>5. PICK g : Fits(k - 1, g)
    BY <2>4
  <2> DEFINE j == n - k
             h == [i \in j..n |-> IF i = j THEN P[j] \o g[e[j]] ELSE g[i]]
  <2>6. j \in 0..(n - 1) /\ e[j] \in (j + 1)..n /\ n - (k - 1) = j + 1
    <3>1. j \in 0..(n - 1) /\ n - (k - 1) = j + 1
      BY <2>2, <2>3
    <3> QED  BY <3>1
  <2>7. \A i \in (j + 1)..n : g[i] = Body(g, i)
    <3> HIDE DEF Body, j
    <3> QED  BY <2>5, <2>6
  <2>8. \A i \in (j + 1)..n : i \in j..n /\ i # j /\ h[i] = g[i]
    <3>1. j \in Nat
      BY <2>6
    <3> HIDE DEF j
    <3> QED  BY <3>1
  <2>9. h[j] = P[j] \o g[e[j]] /\ j # n
    <3>1. j \in j..n /\ j # n
      BY <2>6
    <3> HIDE DEF j
    <3> QED  BY <3>1
  <2> HIDE DEF h, j
  <2>10. h[j] = Body(h, j)
    BY <2>6, <2>8, <2>9
  <2>11. ASSUME NEW i \in (j + 1)..n PROVE h[i] = Body(h, i)
    <3>1. CASE i = n
      BY <2>7, <2>8, <3>1
    <3>2. CASE i # n
      <4>1. i \in 0..(n - 1) /\ e[i] \in (i + 1)..n
        <5>1. i \in 0..(n - 1)
          BY <2>6, <2>11, <3>2
        <5> QED  BY <5>1
      <4>2. e[i] \in (j + 1)..n
        BY <2>6, <2>11, <4>1
      <4>3. g[i] = P[i] \o g[e[i]]
        BY <2>7, <2>11, <3>2
      <4>4. h[i] = g[i] /\ h[e[i]] = g[e[i]]
        BY <2>8, <2>11, <4>2
      <4> QED  BY <3>2, <4>3, <4>4
    <3> QED  BY <3>1, <3>2
  <2>12. \A i \in j..n : i = j \/ i \in (j + 1)..n
    BY <2>6
  <2> HIDE DEF Body
  <2>13. Fits(k, h)
    BY <2>10, <2>11, <2>12 DEF j
  <2> QED  BY <2>2, <2>13
<1>2. n \in 0..n /\ n - n = 0
  OBVIOUS
<1>3. PICK g : Fits(n, g)
  BY <1>1, <1>2
<1> DEFINE f == [i \in 0..n |-> g[i]]
<1>4. ASSUME NEW i \in 0..n PROVE f[i] = Body(f, i)
  <2>1. g[i] = Body(g, i) /\ f[i] = g[i]
    BY <1>2, <1>3
  <2>2. CASE i = n
    BY <2>1, <2>2
  <2>3. CASE i # n
    <3>1. i \in 0..(n - 1) /\ e[i] \in (i + 1)..n
      <4>1. i \in 0..(n - 1)
        BY <2>3
      <4> QED  BY <4>1
    <3>2. e[i] \in 0..n
      BY <3>1
    <3>3. f[e[i]] = g[e[i]]
      BY <3>2
    <3> HIDE DEF f
    <3> QED  BY <2>1, <2>3, <3>3
  <2> QED  BY <2>2, <2>3
<1>5. f = [i \in 0..n |-> Body(f, i)]
  <2> HIDE DEF Body
  <2>1. \A i \in 0..n : f[i] = Body(f, i)
    BY <1>4
  <2>2. f = [i \in 0..n |-> f[i]]
    OBVIOUS
  <2> HIDE DEF f
  <2> QED  BY <2>1, <2>2
<1>6. Follows(f, n, e, P)
  BY <1>5 DEF Follows
<1> QED  BY <1>6

\* What one list stands for and what the next one stands for, the two together stand for.
LEMMA StandsTogether ==
  ASSUME NEW points \in Seq(Snapshots), NEW i \in Nat, NEW e \in Nat, NEW n \in Nat, i <= e, e <= n, n <= Len(points),
         NEW p, NEW m \in Int, StandsFor(p, points, i, e, m), NEW q, NEW r \in Int, StandsFor(q, points, e, n, r)
  PROVE  StandsFor(p \o q, points, i, n, m + r)
<1> DEFINE V == i..(n - 1)
           a == Len(p)
           c == Len(q)
           w == p \o q
<1>1. p \in Seq(i..(e - 1)) /\ q \in Seq(e..(n - 1)) /\ a <= m /\ c <= r
  BY DEF StandsFor
<1>2. a \in Nat /\ c \in Nat /\ (\A k \in 1..a : p[k] \in i..(e - 1)) /\ (\A k \in 1..c : q[k] \in e..(n - 1))
  <2> DEFINE P == i..(e - 1)  Q == e..(n - 1)
  <2>1. p \in Seq(P) /\ q \in Seq(Q)
    BY <1>1
  <2> HIDE DEF P, Q
  <2>2. a \in Nat /\ \A k \in 1..a : p[k] \in P
    BY <2>1
  <2>3. c \in Nat /\ \A k \in 1..c : q[k] \in Q
    BY <2>1
  <2> QED  BY <2>2, <2>3 DEF P, Q
<1>3. (\A k \in 1..a : p[k] \in V) /\ (\A k \in 1..c : q[k] \in V)
  BY <1>2
<1>4. p \in Seq(V) /\ q \in Seq(V)
  <2>1. i..(e - 1) \in SUBSET V /\ e..(n - 1) \in SUBSET V
    OBVIOUS
  <2> HIDE DEF V
  <2> QED  BY <1>1, <2>1
<1> HIDE DEF V
<1>5. w \in Seq(V) /\ Len(w) = a + c
  BY <1>4
<1>6. (\A k \in 1..a : w[k] = p[k]) /\ (\A k \in 1..c : w[a + k] = q[k])
  BY <1>1, <1>4
<1>7. \A k \in 1..(a + c) : k \in 1..a \/ (k - a \in 1..c /\ k = a + (k - a))
  BY <1>2
<1>8. \A k \in 1..c : a + k \in 1..(a + c)
  BY <1>2
<1>9. \A k \in 1..a : k \in 1..(a + c)
  BY <1>2
<1> HIDE DEF w, a, c
<1>10. ASSUME NEW k \in 1..(a + c), NEW l \in 1..(a + c), k <= l PROVE w[k] <= w[l]
  <2>1. CASE k \in 1..a /\ l \in 1..a
    <3>1. p[k] <= p[l]
      BY <1>10, <2>1 DEF StandsFor, a
    <3> QED  BY <1>6, <2>1, <3>1
  <2>2. CASE k \in 1..a /\ l \notin 1..a
    <3>1. w[k] = p[k] /\ w[l] = q[l - a] /\ p[k] \in i..(e - 1) /\ q[l - a] \in e..(n - 1)
      BY <1>2, <1>6, <1>7, <2>2
    <3> QED  BY <3>1
  <2>3. CASE k \notin 1..a
    <3>1. k - a \in 1..c /\ k = a + (k - a)
      BY <1>7, <2>3
    <3>2. l \notin 1..a /\ k - a <= l - a
      BY <1>2, <1>10, <2>3
    <3>3. l - a \in 1..c /\ l = a + (l - a)
      BY <1>7, <3>2
    <3>4. q[k - a] <= q[l - a]
      BY <3>1, <3>2, <3>3 DEF StandsFor, c
    <3>5. w[k] = q[k - a] /\ w[l] = q[l - a]
      BY <1>6, <3>1, <3>3
    <3> QED  BY <3>4, <3>5
  <2> QED  BY <2>1, <2>2, <2>3
<1>11. ASSUME NEW j \in i..(n - 1)
       PROVE  /\ \E k \in 1..(a + c) : points[w[k] + 1].bal <= points[j + 1].bal
              /\ \E k \in 1..(a + c) : points[w[k] + 1].bal >= points[j + 1].bal
  <2>1. CASE j \in i..(e - 1)
    <3>1. PICK k \in 1..a : points[p[k] + 1].bal <= points[j + 1].bal
      BY <2>1 DEF StandsFor, a
    <3>2. PICK l \in 1..a : points[p[l] + 1].bal >= points[j + 1].bal
      BY <2>1 DEF StandsFor, a
    <3> QED  BY <1>6, <1>9, <3>1, <3>2
  <2>2. CASE j \in e..(n - 1)
    <3>1. PICK k \in 1..c : points[q[k] + 1].bal <= points[j + 1].bal
      BY <2>2 DEF StandsFor, c
    <3>2. PICK l \in 1..c : points[q[l] + 1].bal >= points[j + 1].bal
      BY <2>2 DEF StandsFor, c
    <3>3. points[w[a + k] + 1].bal <= points[j + 1].bal /\ points[w[a + l] + 1].bal >= points[j + 1].bal
      BY <1>6, <3>1, <3>2
    <3> QED  BY <1>8, <3>3
  <2>3. j \in i..(e - 1) \/ j \in e..(n - 1)
    BY <1>11
  <2> QED  BY <2>1, <2>2, <2>3
<1>12. a + c <= m + r
  BY <1>1, <1>2
<1>13. StandsFor(w, points, i, n, m + r)
  BY <1>5, <1>10, <1>11, <1>12 DEF StandsFor, V
<1> QED  BY <1>13 DEF w

\* Bucket after bucket, what downsampleTrend picks stands for all the points, two for each bucket.
LEMMA FollowsFacts ==
  ASSUME NEW points \in Seq(Snapshots), NEW n, n = Len(points), NEW e, NEW P, NEW g, Follows(g, n, e, P),
         \A i \in 0..(n - 1) : e[i] \in (i + 1)..n /\ StandsFor(P[i], points, i, e[i], 2),
         NEW B \in Nat, NEW b, \A i \in 0..n : b[i] \in 0..B, \A i \in 0..(n - 1) : b[e[i]] >= b[i] + 1
  PROVE  \A i \in 0..n : StandsFor(g[i], points, i, n, 2 * (B - b[i]))
<1> DEFINE Good(i) == StandsFor(g[i], points, i, n, 2 * (B - b[i]))
           T == {k \in 0..n : ~Good(n - k)}
<1>1. n \in Nat
  OBVIOUS
<1>2. \A i \in 0..n : g[i] = IF i = n THEN <<>> ELSE P[i] \o g[e[i]]
  BY DEF Follows
<1>3. Good(n)
  <2>1. g[n] = <<>> /\ b[n] \in 0..B
    BY <1>1, <1>2
  <2>2. n..(n - 1) = {} /\ 2 * (B - b[n]) >= 0
    BY <1>1, <2>1
  <2>3. <<>> \in Seq(n..(n - 1)) /\ Len(<<>>) = 0 /\ 1..0 = {}
    OBVIOUS
  <2> DEFINE m == 2 * (B - b[n])
  <2>4. Len(<<>>) <= m
    BY <2>2, <2>3
  <2> HIDE DEF m
  <2>5. StandsFor(<<>>, points, n, n, m)
    BY <2>2, <2>3, <2>4 DEF StandsFor
  <2> QED  BY <2>1, <2>5 DEF m
<1>4. ASSUME NEW i \in 0..(n - 1), \A l \in (i + 1)..n : Good(l) PROVE Good(i)
  <2> DEFINE l == e[i]
             m == 2 * (B - b[l])
             r == 2 * (B - b[i])
  <2>1. i \in Nat /\ l \in (i + 1)..n /\ l \in Nat /\ l \in 0..n /\ i \in 0..n /\ i # n /\ i <= l /\ l <= n
    <3>1. i \in Nat /\ i \in 0..n /\ i # n /\ e[i] \in (i + 1)..n
      OBVIOUS
    <3> QED  BY <1>1, <3>1
  <2>2. StandsFor(P[i], points, i, l, 2) /\ StandsFor(g[l], points, l, n, m) /\ b[l] >= b[i] + 1
    BY <1>4, <2>1
  <2>3. b[i] \in Int /\ b[l] \in Int
    BY <2>1
  <2>4. m \in Int /\ 2 + m <= r /\ r \in Int /\ n <= Len(points)
    <3> DEFINE x == b[i]
               y == b[l]
    <3>1. x \in Int /\ y \in Int /\ y >= x + 1 /\ m = 2 * (B - y) /\ r = 2 * (B - x)
      BY <2>2, <2>3
    <3> HIDE DEF x, y, m, r, l
    <3>2. m \in Int /\ 2 + m <= r /\ r \in Int
      BY <3>1
    <3> QED  BY <1>1, <3>2
  <2>5. g[i] = P[i] \o g[l]
    BY <1>2, <2>1
  <2> HIDE DEF l, m, r, Good
  <2>6. StandsFor(g[i], points, i, n, 2 + m)
    BY <1>1, <2>1, <2>2, <2>4, <2>5, StandsTogether
  <2>7. StandsFor(g[i], points, i, n, r)
    <3>1. Len(g[i]) <= 2 + m /\ Len(g[i]) \in Int
      BY <2>6 DEF StandsFor
    <3>2. Len(g[i]) <= r
      BY <2>4, <3>1
    <3> QED  BY <2>6, <3>2 DEF StandsFor
  <2> QED  BY <2>7 DEF Good, r
<1> HIDE DEF Good
<1>5. T = {}
  <2> SUFFICES ASSUME T # {} PROVE FALSE
    OBVIOUS
  <2>1. PICK k \in T : \A l \in T : k <= l
    <3>1. T \in SUBSET Nat
      OBVIOUS
    <3> HIDE DEF T
    <3> QED  BY <3>1, LeastOfNat
  <2>2. k \in 0..n /\ ~Good(n - k)
    OBVIOUS
  <2>3. \A l \in 0..n : l < k => l \notin T
    <3> HIDE DEF T
    <3> QED  BY <2>1, <2>2
  <2>4. \A l \in (n - k + 1)..n : Good(l)
    <3> SUFFICES ASSUME NEW l \in (n - k + 1)..n PROVE Good(l)
      OBVIOUS
    <3>1. n - l \in 0..n /\ n - l < k /\ n - (n - l) = l
      BY <1>1, <2>2
    <3> QED  BY <2>3, <3>1
  <2>5. CASE k = 0
    BY <1>1, <1>3, <2>2, <2>5
  <2>6. CASE k # 0
    <3>1. n - k \in 0..(n - 1)
      BY <1>1, <2>2, <2>6
    <3> QED  BY <1>4, <2>2, <2>4, <3>1
  <2> QED  BY <2>5, <2>6
<1>6. ASSUME NEW i \in 0..n PROVE Good(i)
  <2>1. n - i \in 0..n /\ n - (n - i) = i
    BY <1>1
  <2> QED  BY <1>5, <2>1
<1> QED  BY <1>6 DEF Good

\* The positions that are drawn: the ends, and in between what stands for all the points.
Drawn(x, points) ==
  /\ x \in Seq(0..(Len(points) - 1)) /\ Len(x) <= TrendPointCap + 2 /\ Len(x) >= 2
  /\ x[1] = 0 /\ x[Len(x)] = Len(points) - 1
  /\ \A k, l \in 1..Len(x) : k <= l => x[k] <= x[l]
  /\ \A j \in 0..(Len(points) - 1) : /\ \E k \in 1..Len(x) : points[x[k] + 1].bal <= points[j + 1].bal
                                     /\ \E k \in 1..Len(x) : points[x[k] + 1].bal >= points[j + 1].bal

\* What add does with the point at the 0-based position i.
AddStep(points, out, i) ==
  IF out # <<>> /\ out[Len(out)].at = points[i + 1].at THEN out ELSE Append(out, points[i + 1])

Downsampled(points, x) ==
  FoldLeft(LAMBDA out, i : IF out # <<>> /\ out[Len(out)].at = points[i + 1].at THEN out
                           ELSE Append(out, points[i + 1]), <<>>, x)

\* downsampleTrend adds the drawn positions one after the other.
LEMMA DownsampleUnfolds ==
  ASSUME NEW points \in Seq(Snapshots), Len(points) > TrendPointCap
  PROVE  \E x : Drawn(x, points) /\ DownsampleTrend(points) = Downsampled(points, x)
<1> DEFINE n == Len(points)
           Step(g) == [i \in 0..n |-> IF i = n THEN <<>> ELSE Picks(points, i, EndOf(n, i)) \o g[EndOf(n, i)]]
           from == CHOOSE g : g = Step(g)
           x == <<0>> \o from[1] \o <<n - 1>>
           e == [i \in 0..(n - 1) |-> EndOf(n, i)]
           P == [i \in 0..(n - 1) |-> Picks(points, i, EndOf(n, i))]
           b == [i \in 0..n |-> IF i = n THEN Buckets ELSE BucketOf(n, i)]
<1>1. n \in Nat /\ n >= 3 /\ n > TrendPointCap
  <2>1. TrendPointCap \in Nat /\ TrendPointCap >= 2
    BY TrendAssumption
  <2> QED  BY <2>1
<1>2. DownsampleTrend(points) = Downsampled(points, x)
  <2>1. ~(n <= TrendPointCap)
    BY <1>1, TrendAssumption
  <2> QED  BY <2>1 DEF DownsampleTrend, Downsampled, EndOf, NextOf, BucketOf, Buckets
<1>3. \A i \in 0..(n - 1) : e[i] = EndOf(n, i) /\ P[i] = Picks(points, i, EndOf(n, i)) /\ EndOf(n, i) \in (i + 1)..n
  BY <1>1, EndFacts
<1>4. \A i \in 0..(n - 1) : e[i] \in (i + 1)..n /\ StandsFor(P[i], points, i, e[i], 2)
  BY <1>3, PicksFacts
<1> HIDE DEF e, P, x
<1>5. ASSUME NEW g PROVE g = Step(g) <=> Follows(g, n, e, P)
  <2>1. \A i \in 0..n : i # n => i \in 0..(n - 1)
    BY <1>1
  <2>2. Step(g) = [i \in 0..n |-> IF i = n THEN <<>> ELSE P[i] \o g[e[i]]]
    BY <1>3, <2>1
  <2> QED  BY <2>2 DEF Follows
<1>6. from = Step(from)
  <2>1. PICK g : Follows(g, n, e, P)
    BY <1>1, <1>4, FollowsExists
  <2>2. g = Step(g)
    BY <1>5, <2>1
  <2> HIDE DEF Step
  <2> QED  BY <2>2
<1>7. Follows(from, n, e, P)
  <2> HIDE DEF from
  <2> QED  BY <1>5, <1>6
<1>8. Buckets \in Nat /\ Buckets >= 1 /\ 2 * Buckets <= TrendPointCap
  BY <1>1, EndFacts
<1>9. \A i \in 0..n : b[i] \in 0..Buckets
  <2> TAKE i \in 0..n
  <2>1. CASE i = n
    BY <1>8, <2>1
  <2>2. CASE i # n
    <3>1. i \in 0..(n - 1)
      BY <1>1, <2>2
    <3>2. BucketOf(n, i) \in 0..(Buckets - 1)
      BY <1>1, <3>1, EndFacts
    <3> QED  BY <1>8, <2>2, <3>2
  <2> QED  BY <2>1, <2>2
<1>10. \A i \in 0..(n - 1) : b[e[i]] >= b[i] + 1
  <2> TAKE i \in 0..(n - 1)
  <2>1. e[i] \in (i + 1)..n /\ e[i] \in 0..n /\ i \in 0..n /\ i # n /\ e[i] = EndOf(n, i)
    <3>1. e[i] \in (i + 1)..n /\ e[i] = EndOf(n, i)
      BY <1>3
    <3> QED  BY <1>1, <3>1
  <2>2. b[i] = BucketOf(n, i) /\ BucketOf(n, i) \in 0..(Buckets - 1)
    BY <1>1, <2>1, EndFacts
  <2>3. CASE e[i] = n
    BY <1>8, <2>1, <2>2, <2>3
  <2>4. CASE e[i] # n
    <3>1. EndOf(n, i) < n
      BY <1>1, <2>1, <2>4
    <3>2. BucketOf(n, EndOf(n, i)) >= BucketOf(n, i) + 1
      BY <1>1, <3>1, EndFacts
    <3> QED  BY <2>1, <2>2, <2>4, <3>2
  <2> QED  BY <2>3, <2>4
<1> HIDE DEF b, from, n
<1>11. \A i \in 0..n : StandsFor(from[i], points, i, n, 2 * (Buckets - b[i]))
  BY <1>4, <1>7, <1>8, <1>9, <1>10, FollowsFacts DEF n
<1> DEFINE m == 2 * (Buckets - b[1])
           p == from[1]
           V == 0..(n - 1)
<1>12. StandsFor(p, points, 1, n, m) /\ m \in Int /\ m <= TrendPointCap
  <2>1. 1 \in 0..n
    BY <1>1
  <2>2. b[1] \in Nat
    BY <1>9, <2>1
  <2>3. m \in Int /\ m <= TrendPointCap
    <3> DEFINE y == b[1]
    <3>1. y \in Nat /\ m = 2 * (Buckets - y) /\ TrendPointCap \in Nat
      BY <2>2, TrendAssumption
    <3> HIDE DEF y, m
    <3> QED  BY <1>8, <3>1
  <2> QED  BY <1>11, <2>1, <2>3
<1>13. /\ p \in Seq(1..(n - 1)) /\ Len(p) <= m
       /\ \A k, l \in 1..Len(p) : k <= l => p[k] <= p[l]
       /\ \A j \in 1..(n - 1) : /\ \E k \in 1..Len(p) : points[p[k] + 1].bal <= points[j + 1].bal
                                /\ \E k \in 1..Len(p) : points[p[k] + 1].bal >= points[j + 1].bal
  BY <1>12 DEF StandsFor
<1> DEFINE c == Len(p)
<1>14. c \in Nat /\ c <= TrendPointCap /\ \A k \in 1..c : p[k] \in 1..(n - 1)
  <2> HIDE DEF p, m
  <2>1. c \in Nat /\ c <= m /\ \A k \in 1..c : p[k] \in 1..(n - 1)
    <3> DEFINE S == 1..(n - 1)
    <3>1. p \in Seq(S)
      BY <1>13
    <3> HIDE DEF S
    <3>2. c \in Nat /\ \A k \in 1..c : p[k] \in S
      BY <3>1
    <3> QED  BY <1>13, <3>2 DEF S
  <2>2. TrendPointCap \in Nat
    BY TrendAssumption
  <2> HIDE DEF c
  <2> QED  BY <1>12, <2>1, <2>2
<1>15. x = (<<0>> \o p) \o <<n - 1>>
  BY DEF x
<1>16. p \in Seq(V) /\ <<0>> \in Seq(V) /\ <<n - 1>> \in Seq(V)
  <2>1. 1..(n - 1) \in SUBSET V /\ 0 \in V /\ n - 1 \in V
    BY <1>1
  <2> HIDE DEF V, p
  <2>2. p \in Seq(1..(n - 1))
    BY <1>13
  <2>3. p \in Seq(V)
    <3> DEFINE S == 1..(n - 1)
    <3>1. p \in Seq(S) /\ \A k \in S : k \in V
      BY <2>1, <2>2
    <3> HIDE DEF S
    <3> QED  BY <3>1
  <2>4. <<0>> \in Seq(V)
    BY <2>1
  <2>5. <<n - 1>> \in Seq(V)
    BY <2>1
  <2> QED  BY <2>3, <2>4, <2>5
<1> HIDE DEF p, V, m
<1>17. <<0>> \o p \in Seq(V) /\ Len(<<0>> \o p) = c + 1 /\ (<<0>> \o p)[1] = 0 /\ \A k \in 1..c : (<<0>> \o p)[k + 1] = p[k]
  BY <1>16
<1> DEFINE w == <<0>> \o p
<1> HIDE DEF w
<1>18. w \in Seq(V) /\ Len(w) = c + 1 /\ w[1] = 0 /\ (\A k \in 1..c : w[k + 1] = p[k]) /\ x = w \o <<n - 1>>
  BY <1>15, <1>17 DEF w
<1> HIDE DEF c
<1>19. x \in Seq(V) /\ Len(x) = c + 2 /\ x[c + 2] = n - 1 /\ \A k \in 1..(c + 1) : x[k] = w[k]
  BY <1>14, <1>16, <1>18
<1>20. x[1] = 0 /\ \A k \in 1..c : x[k + 1] = p[k]
  BY <1>14, <1>18, <1>19
<1>21. ASSUME NEW k \in 1..(c + 2), NEW l \in 1..(c + 2), k <= l PROVE x[k] <= x[l]
  <2>1. \A h \in 1..(c + 2) : x[h] \in 0..(n - 1)
    <3>1. \A h \in 1..(c + 2) : x[h] \in V
      BY <1>19
    <3> QED  BY <3>1 DEF V
  <2>2. CASE k = 1
    BY <1>20, <2>1, <2>2
  <2>3. CASE l = c + 2
    <3>1. x[k] \in 0..(n - 1) /\ x[l] = n - 1
      BY <1>19, <2>1, <2>3
    <3> QED  BY <1>1, <3>1
  <2>4. CASE k # 1 /\ l # c + 2
    <3>1. k - 1 \in 1..c /\ l - 1 \in 1..c /\ k - 1 <= l - 1 /\ (k - 1) + 1 = k /\ (l - 1) + 1 = l
      BY <1>14, <1>21, <2>4
    <3>2. p[k - 1] <= p[l - 1]
      BY <1>13, <3>1 DEF c
    <3> QED  BY <1>20, <3>1, <3>2
  <2> QED  BY <2>2, <2>3, <2>4
<1>22. ASSUME NEW j \in 0..(n - 1)
       PROVE  /\ \E k \in 1..(c + 2) : points[x[k] + 1].bal <= points[j + 1].bal
              /\ \E k \in 1..(c + 2) : points[x[k] + 1].bal >= points[j + 1].bal
  <2>1. CASE j = 0
    <3>1. 1 \in 1..(c + 2) /\ 0 + 1 = 1 /\ 1 \in 1..n
      BY <1>1, <1>14
    <3>2. points[1].bal \in Int
      BY <3>1, SeriesFacts DEF n
    <3> QED  BY <1>20, <2>1, <3>1, <3>2
  <2>2. CASE j # 0
    <3>1. j \in 1..(n - 1)
      BY <1>1, <2>2
    <3>2. PICK k \in 1..c : points[p[k] + 1].bal <= points[j + 1].bal
      BY <1>13, <3>1 DEF c
    <3>3. PICK l \in 1..c : points[p[l] + 1].bal >= points[j + 1].bal
      BY <1>13, <3>1 DEF c
    <3>4. k + 1 \in 1..(c + 2) /\ l + 1 \in 1..(c + 2)
      BY <1>14
    <3> QED  BY <1>20, <3>2, <3>3, <3>4
  <2> QED  BY <2>1, <2>2
<1>23. Len(x) <= TrendPointCap + 2 /\ Len(x) >= 2
  <2>1. TrendPointCap \in Nat
    BY TrendAssumption
  <2> QED  BY <1>14, <1>19, <2>1
<1>24. Drawn(x, points)
  BY <1>19, <1>20, <1>21, <1>22, <1>23 DEF Drawn, V, n
<1> QED  BY <1>2, <1>24

\* add, one position at a time.
LEMMA DrawTrace ==
  ASSUME NEW points \in Seq(Snapshots), NEW x \in Seq(0..(Len(points) - 1))
  PROVE  \E a : /\ a \in [0..Len(x) -> Seq(Snapshots)]
                /\ a[0] = <<>>
                /\ \A k \in 1..Len(x) : a[k] = AddStep(points, a[k - 1], x[k])
                /\ Downsampled(points, x) = a[Len(x)]
<1> DEFINE n == Len(x)
           D == 1..n
           V == Seq(Snapshots)
           base == <<>>
           Body(g, t) == IF t = {} THEN base ELSE AddStep(points, g[t \ {Max(t)}], x[Max(t)])
           iter == CHOOSE g : g = [t \in SUBSET DOMAIN x |-> Body(g, t)]
           h == [i \in D |-> [v \in V |-> AddStep(points, v, x[i])]]
<1>1. n \in Nat /\ DOMAIN x = D /\ \A i \in D : x[i] + 1 \in 1..Len(points)
  <2>1. n \in Nat /\ DOMAIN x = D /\ \A i \in D : x[i] \in 0..(Len(points) - 1)
    OBVIOUS
  <2>2. Len(points) \in Nat
    OBVIOUS
  <2> HIDE DEF n
  <2> QED  BY <2>1, <2>2
<1>2. Downsampled(points, x) = iter[DOMAIN x]
  BY DEF Downsampled, FoldLeft, MapThenFoldSet, AddStep
<1>3. base \in V
  OBVIOUS
<1>4. ASSUME NEW i \in D, NEW v \in V PROVE AddStep(points, v, x[i]) \in V
  <2>1. points[x[i] + 1] \in Snapshots
    <3>1. x[i] + 1 \in 1..Len(points)
      BY <1>1
    <3> DEFINE j == x[i] + 1
    <3> HIDE DEF j
    <3>2. j \in 1..Len(points)
      BY <3>1 DEF j
    <3>3. points[j] \in Snapshots
      BY <3>2
    <3> QED  BY <3>3 DEF j
  <2> DEFINE y == points[x[i] + 1]
  <2> HIDE DEF y
  <2>2. y \in Snapshots
    BY <2>1 DEF y
  <2>3. Append(v, y) \in V
    BY <2>2
  <2> QED  BY <2>3 DEF AddStep, y
<1>5. h \in [D -> [V -> V]]
  BY <1>4
<1>6. \A t \in SUBSET D : t # {} => Max(t) \in t
  BY <1>1, GreatestOf
<1> HIDE DEF base, V
<1>7. PICK g : FoldsLeft(g, n, V, base, h)
  <2> HIDE DEF h, n
  <2> QED  BY <1>1, <1>3, <1>5, FoldLeftExists
<1>8. ASSUME NEW t \in SUBSET D, t # {} PROVE h[Max(t)][g[t \ {Max(t)}]] = AddStep(points, g[t \ {Max(t)}], x[Max(t)])
  <2>1. Max(t) \in D /\ g[t \ {Max(t)}] \in V
    <3> HIDE DEF h
    <3> QED  BY <1>6, <1>7, <1>8 DEF FoldsLeft
  <2> QED  BY <2>1
<1>10. g = [t \in SUBSET DOMAIN x |-> Body(g, t)]
  <2>1. ASSUME NEW t \in SUBSET D PROVE g[t] = Body(g, t)
    <3> HIDE DEF h
    <3> QED  BY <1>7, <1>8 DEF FoldsLeft
  <2> HIDE DEF Body, h
  <2> QED  BY <1>1, <1>7, <2>1 DEF FoldsLeft
<1>11. iter = [t \in SUBSET DOMAIN x |-> Body(iter, t)]
  <2> HIDE DEF Body
  <2> QED  BY <1>10
<1> HIDE DEF iter
<1>12. iter[{}] = base /\ \A t \in SUBSET D : t # {} => iter[t] = AddStep(points, iter[t \ {Max(t)}], x[Max(t)])
  BY <1>1, <1>11
<1> DEFINE a == [k \in 0..n |-> iter[1..k]]
<1>13. ASSUME NEW k \in 1..n PROVE a[k] = AddStep(points, a[k - 1], x[k])
  <2>1. Max(1..k) = k /\ (1..k) \ {k} = 1..(k - 1) /\ 1..k \in SUBSET D /\ 1..k # {}
    BY <1>1, PrefixFacts
  <2>2. k \in 0..n /\ k - 1 \in 0..n
    BY <1>1
  <2> QED  BY <1>12, <2>1, <2>2
<1>14. a[0] = base
  <2>1. 1..0 = {} /\ 0 \in 0..n
    BY <1>1
  <2> QED  BY <1>12, <2>1
<1>15. a \in [0..n -> V]
  <2> DEFINE T == {k \in 0..n : a[k] \notin V}
  <2>1. T = {}
    <3> SUFFICES ASSUME T # {} PROVE FALSE
      OBVIOUS
    <3>1. PICK k \in T : \A l \in T : k <= l
      <4>1. T \in SUBSET Nat
        OBVIOUS
      <4> HIDE DEF T
      <4> QED  BY <4>1, LeastOfNat
    <3>2. k \in 0..n /\ a[k] \notin V
      OBVIOUS
    <3> HIDE DEF a
    <3>3. k # 0
      BY <1>3, <1>14, <3>2
    <3>4. k - 1 \in 0..n /\ k \in 1..n /\ k - 1 \notin T
      <4>1. k - 1 \in 0..n /\ k \in 1..n /\ k - 1 < k
        BY <1>1, <3>2, <3>3
      <4> HIDE DEF T
      <4> QED  BY <3>1, <4>1
    <3>5. a[k - 1] \in V /\ a[k] = AddStep(points, a[k - 1], x[k])
      BY <1>13, <3>4
    <3> QED  BY <1>4, <3>2, <3>4, <3>5
  <2> QED  BY <2>1
<1>16. n \in 0..n
  BY <1>1
<1>17. Downsampled(points, x) = a[n]
  BY <1>1, <1>2, <1>16
<1> HIDE DEF a
<1> QED  BY <1>13, <1>14, <1>15, <1>17 DEF base, V

\* The list out holds the points drawn at the first k positions of x, each once.
DrawnSoFar(out, points, x, k) ==
  /\ out \in Seq(Snapshots) /\ Len(out) >= 1 /\ Len(out) <= k /\ Len(out) <= x[k] + 1
  /\ \A i \in 2..Len(out) : out[i - 1].at < out[i].at
  /\ out[1] = points[1] /\ out[Len(out)] = points[x[k] + 1]
  /\ \A i \in 1..Len(out) : \E j \in 1..Len(points) : out[i] = points[j]
  /\ \A l \in 1..k : \E i \in 1..Len(out) : out[i] = points[x[l] + 1]

\* The first position draws the first point.
LEMMA FirstDrawn ==
  ASSUME NEW points, IsApart(points), NEW x, Drawn(x, points)
  PROVE  DrawnSoFar(AddStep(points, <<>>, x[1]), points, x, 1)
<1> DEFINE y == points[1]
           q == AddStep(points, <<>>, x[1])
<1>1. points \in Seq(Snapshots) /\ points # <<>> /\ x[1] = 0 /\ 0 + 1 = 1
  BY DEF Drawn, IsApart, IsSeries
<1>2. 1 \in 1..Len(points) /\ y \in Snapshots
  BY <1>1
<1>3. q = Append(<<>>, y)
  BY <1>1 DEF AddStep
<1> HIDE DEF y, q
<1>4. q \in Seq(Snapshots) /\ Len(q) = 1 /\ q[1] = y
  BY <1>2, <1>3
<1>5. 2..1 = {} /\ 1..1 = {1}
  OBVIOUS
<1>6. DrawnSoFar(q, points, x, 1)
  BY <1>1, <1>2, <1>4, <1>5 DEF DrawnSoFar, y
<1> QED  BY <1>6 DEF q

\* A later position draws its point, unless that was the last one drawn.
LEMMA NextDrawn ==
  ASSUME NEW points, IsApart(points), NEW x, Drawn(x, points), NEW k \in 2..Len(x), NEW out,
         DrawnSoFar(out, points, x, k - 1)
  PROVE  DrawnSoFar(AddStep(points, out, x[k]), points, x, k)
<1> DEFINE u == x[k - 1]
           v == x[k]
           n == Len(out)
           y == points[v + 1]
           q == AddStep(points, out, v)
<1>1. points \in Seq(Snapshots) /\ Len(points) \in Nat /\ Len(x) \in Nat
  BY DEF IsApart, IsSeries, Drawn
<1>2. u \in 0..(Len(points) - 1) /\ v \in 0..(Len(points) - 1) /\ u <= v
  <2>1. k - 1 \in 1..Len(x) /\ k \in 1..Len(x) /\ k - 1 <= k
    BY <1>1
  <2>2. x \in Seq(0..(Len(points) - 1)) /\ \A i, j \in 1..Len(x) : i <= j => x[i] <= x[j]
    BY DEF Drawn
  <2> DEFINE W == 0..(Len(points) - 1)
  <2> HIDE DEF W
  <2>3. x \in Seq(W)
    BY <2>2 DEF W
  <2>4. x[k - 1] \in W /\ x[k] \in W
    BY <2>1, <2>3
  <2> QED  BY <2>1, <2>2, <2>4 DEF W
<1>3. /\ out \in Seq(Snapshots) /\ n >= 1 /\ n <= k - 1 /\ n <= u + 1
      /\ \A i \in 2..n : out[i - 1].at < out[i].at
      /\ out[1] = points[1] /\ out[n] = points[u + 1]
      /\ \A i \in 1..n : \E j \in 1..Len(points) : out[i] = points[j]
      /\ \A l \in 1..(k - 1) : \E i \in 1..n : out[i] = points[x[l] + 1]
  BY DEF DrawnSoFar
<1>4. n \in Nat /\ DOMAIN out = 1..n /\ out # <<>>
  BY <1>3
<1>5. y \in Snapshots /\ v + 1 \in 1..Len(points) /\ u + 1 \in 1..Len(points)
  <2>1. v + 1 \in 1..Len(points) /\ u + 1 \in 1..Len(points)
    BY <1>1, <1>2
  <2> DEFINE j == v + 1
  <2> HIDE DEF j
  <2>2. j \in 1..Len(points)
    BY <2>1 DEF j
  <2>3. points[j] \in Snapshots
    BY <1>1, <2>2
  <2> QED  BY <2>1, <2>3 DEF j
<1>6. u < v => points[u + 1].at < points[v + 1].at
  <2>1. DOMAIN points = 1..Len(points)
    BY <1>1
  <2>2. \A i, j \in DOMAIN points : i < j => points[i].at < points[j].at
    BY DEF IsApart
  <2> QED  BY <1>2, <1>5, <2>1, <2>2
<1>7. q = IF out[n].at = y.at THEN out ELSE Append(out, y)
  BY <1>4 DEF AddStep
<1>8. k \in Nat /\ k >= 2 /\ 1..k = 1..(k - 1) \cup {k}
  BY <1>1
<1>9. points[u + 1].at \in Nat /\ y.at \in Nat
  BY <1>1, <1>5, SeriesFacts
<1> HIDE DEF q, n, u, v, y
<1>10. CASE out[n].at = y.at
  <2>1. q = out
    BY <1>7, <1>10
  <2>2. u = v
    <3>1. ~(points[u + 1].at < points[v + 1].at)
      BY <1>3, <1>9, <1>10 DEF y
    <3> QED  BY <1>2, <1>6, <3>1
  <2>3. n <= k /\ n <= v + 1 /\ out[n] = points[v + 1]
    BY <1>3, <1>4, <1>8, <2>2
  <2>4. \A l \in 1..k : \E i \in 1..n : out[i] = points[x[l] + 1]
    <3>1. n \in 1..n /\ out[n] = points[x[k] + 1]
      BY <1>3, <1>4, <2>3 DEF v
    <3> QED  BY <1>3, <1>8, <3>1
  <2> QED  BY <1>3, <2>1, <2>3, <2>4 DEF DrawnSoFar, n, v, q
<1>11. CASE out[n].at # y.at
  <2>1. q = Append(out, y)
    BY <1>7, <1>11
  <2>2. q \in Seq(Snapshots) /\ Len(q) = n + 1 /\ q[n + 1] = y /\ \A i \in 1..n : q[i] = out[i]
    BY <1>3, <1>4, <1>5, <2>1 DEF n
  <2>3. u < v
    <3>1. u # v
      BY <1>3, <1>11 DEF y
    <3> QED  BY <1>2, <3>1
  <2>4. n + 1 >= 1 /\ n + 1 <= k /\ n + 1 <= v + 1
    BY <1>2, <1>3, <1>4, <1>8, <2>3
  <2>5. \A i \in 2..(n + 1) : q[i - 1].at < q[i].at
    <3> SUFFICES ASSUME NEW i \in 2..(n + 1) PROVE q[i - 1].at < q[i].at
      OBVIOUS
    <3>1. CASE i = n + 1
      <4>1. i - 1 = n /\ n \in 1..n
        BY <1>3, <1>4, <3>1
      <4>2. q[i - 1] = points[u + 1] /\ q[i] = points[v + 1]
        BY <1>3, <2>2, <3>1, <4>1 DEF y
      <4> QED  BY <1>6, <2>3, <4>2
    <3>2. CASE i # n + 1
      <4>1. i \in 2..n /\ i - 1 \in 1..n /\ i \in 1..n
        BY <1>4, <3>2
      <4> QED  BY <1>3, <2>2, <4>1
    <3> QED  BY <3>1, <3>2
  <2>6. q[1] = points[1] /\ q[n + 1] = points[v + 1]
    <3>1. 1 \in 1..n
      BY <1>3, <1>4
    <3> QED  BY <1>3, <2>2, <3>1 DEF y
  <2>7. \A i \in 1..(n + 1) : \E j \in 1..Len(points) : q[i] = points[j]
    <3> SUFFICES ASSUME NEW i \in 1..(n + 1) PROVE \E j \in 1..Len(points) : q[i] = points[j]
      OBVIOUS
    <3>1. CASE i = n + 1
      BY <1>5, <2>6, <3>1
    <3>2. CASE i # n + 1
      <4>1. i \in 1..n
        BY <1>4, <3>2
      <4> QED  BY <1>3, <2>2, <4>1
    <3> QED  BY <3>1, <3>2
  <2>8. \A l \in 1..k : \E i \in 1..(n + 1) : q[i] = points[x[l] + 1]
    <3> SUFFICES ASSUME NEW l \in 1..k PROVE \E i \in 1..(n + 1) : q[i] = points[x[l] + 1]
      OBVIOUS
    <3>1. CASE l = k
      <4>1. n + 1 \in 1..(n + 1)
        BY <1>4
      <4> QED  BY <2>6, <3>1, <4>1 DEF v
    <3>2. CASE l # k
      <4>1. l \in 1..(k - 1)
        BY <1>8, <3>2
      <4>2. PICK i \in 1..n : out[i] = points[x[l] + 1]
        BY <1>3, <4>1
      <4>3. i \in 1..(n + 1)
        BY <1>4
      <4> QED  BY <2>2, <4>2, <4>3
    <3> QED  BY <3>1, <3>2
  <2>9. DrawnSoFar(q, points, x, k)
    BY <2>2, <2>4, <2>5, <2>6, <2>7, <2>8 DEF DrawnSoFar, v
  <2> QED  BY <2>9 DEF q, v
<1> QED  BY <1>10, <1>11

\* All positions drawn, the list is a chart of the points: no longer than they are, in
\* order, from the first to the last, and none of them above or below all of it.
Charts(out, points) ==
  /\ out \in Seq(Snapshots) /\ Len(out) >= 1 /\ Len(out) <= Len(points) /\ Len(out) <= TrendPointCap + 2
  /\ \A i \in 2..Len(out) : out[i - 1].at < out[i].at
  /\ out[1] = points[1] /\ out[Len(out)] = points[Len(points)]
  /\ \A i \in 1..Len(out) : \E j \in 1..Len(points) : out[i] = points[j]
  /\ \A j \in 1..Len(points) : /\ \E i \in 1..Len(out) : out[i].bal <= points[j].bal
                               /\ \E i \in 1..Len(out) : out[i].bal >= points[j].bal

\* What add makes of the drawn positions is a chart.
LEMMA DrawnIsChart ==
  ASSUME NEW points, IsApart(points), NEW x, Drawn(x, points)
  PROVE  Charts(Downsampled(points, x), points)
<1> DEFINE n == Len(x)
           c == Len(points)
<1>1. /\ points \in Seq(Snapshots) /\ c \in Nat /\ x \in Seq(0..(c - 1)) /\ n \in Nat /\ n >= 2 /\ n <= TrendPointCap + 2
      /\ x[n] = c - 1
      /\ \A j \in 0..(c - 1) : /\ \E k \in 1..n : points[x[k] + 1].bal <= points[j + 1].bal
                               /\ \E k \in 1..n : points[x[k] + 1].bal >= points[j + 1].bal
  <2>1. points \in Seq(Snapshots) /\ x \in Seq(0..(c - 1))
    BY DEF IsApart, IsSeries, Drawn
  <2>2. c \in Nat /\ n \in Nat
    BY <2>1
  <2> QED  BY <2>1, <2>2 DEF Drawn
<1>2. PICK a : /\ a \in [0..n -> Seq(Snapshots)]
               /\ a[0] = <<>>
               /\ \A k \in 1..n : a[k] = AddStep(points, a[k - 1], x[k])
               /\ Downsampled(points, x) = a[n]
  BY <1>1, DrawTrace
<1> DEFINE Good(k) == DrawnSoFar(a[k], points, x, k)
           T == {k \in 1..n : ~Good(k)}
<1>3. Good(1)
  <2>1. 1 \in 1..n /\ 1 - 1 = 0
    BY <1>1
  <2>2. a[1] = AddStep(points, <<>>, x[1])
    BY <1>2, <2>1
  <2> QED  BY <2>2, FirstDrawn
<1>4. ASSUME NEW k \in 2..n, Good(k - 1) PROVE Good(k)
  <2>1. k \in 1..n
    BY <1>1
  <2>2. a[k] = AddStep(points, a[k - 1], x[k])
    BY <1>2, <2>1
  <2>3. DrawnSoFar(a[k - 1], points, x, k - 1)
    BY <1>4
  <2> DEFINE p == a[k - 1]
  <2> HIDE DEF p
  <2>4. DrawnSoFar(AddStep(points, p, x[k]), points, x, k)
    BY <2>3, NextDrawn DEF p
  <2> QED  BY <2>2, <2>4 DEF p
<1>5. T = {}
  <2> SUFFICES ASSUME T # {} PROVE FALSE
    OBVIOUS
  <2> HIDE DEF Good
  <2>1. PICK k \in T : \A l \in T : k <= l
    <3>1. T \in SUBSET Nat
      OBVIOUS
    <3> HIDE DEF T
    <3> QED  BY <3>1, LeastOfNat
  <2>2. k \in 1..n /\ ~Good(k)
    OBVIOUS
  <2>3. k # 1
    BY <1>3, <2>2
  <2>4. k \in 2..n /\ k - 1 \in 1..n /\ k - 1 < k
    BY <1>1, <2>2, <2>3
  <2>5. k - 1 \notin T
    <3> HIDE DEF T
    <3> QED  BY <2>1, <2>4
  <2>6. Good(k - 1)
    BY <2>4, <2>5
  <2> QED  BY <1>4, <2>2, <2>4, <2>6
<1> DEFINE out == Downsampled(points, x)
           m == Len(out)
<1>6. DrawnSoFar(out, points, x, n)
  <2>1. n \in 1..n
    BY <1>1
  <2>2. Good(n)
    <3> HIDE DEF Good
    <3> QED  BY <1>5, <2>1
  <2> QED  BY <1>2, <2>2
<1> HIDE DEF out, n
<1>7. /\ out \in Seq(Snapshots) /\ m >= 1 /\ m <= n /\ m <= x[n] + 1
      /\ \A i \in 2..m : out[i - 1].at < out[i].at
      /\ out[1] = points[1] /\ out[m] = points[x[n] + 1]
      /\ \A i \in 1..m : \E j \in 1..c : out[i] = points[j]
      /\ \A l \in 1..n : \E i \in 1..m : out[i] = points[x[l] + 1]
  BY <1>6 DEF DrawnSoFar
<1>8. m \in Nat /\ (c - 1) + 1 = c /\ TrendPointCap \in Nat
  BY <1>1, <1>7, TrendAssumption
<1>9. \A j \in 1..c : /\ \E i \in 1..m : out[i].bal <= points[j].bal
                      /\ \E i \in 1..m : out[i].bal >= points[j].bal
  <2> SUFFICES ASSUME NEW j \in 1..c
               PROVE  /\ \E i \in 1..m : out[i].bal <= points[j].bal
                      /\ \E i \in 1..m : out[i].bal >= points[j].bal
    OBVIOUS
  <2>1. j - 1 \in 0..(c - 1) /\ (j - 1) + 1 = j
    BY <1>1
  <2>2. PICK k \in 1..n : points[x[k] + 1].bal <= points[j].bal
    BY <1>1, <2>1
  <2>3. PICK l \in 1..n : points[x[l] + 1].bal >= points[j].bal
    BY <1>1, <2>1
  <2>4. (\E i \in 1..m : out[i] = points[x[k] + 1]) /\ (\E i \in 1..m : out[i] = points[x[l] + 1])
    BY <1>7
  <2> QED  BY <2>2, <2>3, <2>4
<1> HIDE DEF m
<1>10. m <= c /\ m <= TrendPointCap + 2 /\ out[m] = points[c]
  BY <1>1, <1>7, <1>8
<1>11. Charts(out, points)
  BY <1>7, <1>9, <1>10 DEF Charts, m
<1> QED  BY <1>11 DEF out

\* A list that was not thinned is a chart of itself.
LEMMA WholeIsChart ==
  ASSUME NEW points, IsApart(points), Len(points) <= TrendPointCap
  PROVE  Charts(points, points)
<1>1. points \in Seq(Snapshots) /\ points # <<>> /\ \A i, j \in DOMAIN points : i < j => points[i].at < points[j].at
  BY DEF IsApart, IsSeries
<1> DEFINE c == Len(points)
<1>2. c \in Nat /\ c >= 1 /\ DOMAIN points = 1..c /\ \A i \in 1..c : points[i].bal \in Int
  <2>1. c \in Nat /\ DOMAIN points = 1..c /\ \A i \in 1..c : points[i].bal \in Int
    BY <1>1, SeriesFacts
  <2>2. c # 0
    BY <1>1
  <2> HIDE DEF c
  <2> QED  BY <2>1, <2>2
<1>3. \A i \in 2..c : points[i - 1].at < points[i].at
  <2> SUFFICES ASSUME NEW i \in 2..c PROVE points[i - 1].at < points[i].at
    OBVIOUS
  <2>1. i - 1 \in 1..c /\ i \in 1..c /\ i - 1 < i
    BY <1>2
  <2> QED  BY <1>1, <1>2, <2>1
<1>4. c <= c /\ c <= TrendPointCap + 2
  <2>1. TrendPointCap \in Nat
    BY TrendAssumption
  <2> QED  BY <1>2, <2>1
<1>5. \A j \in 1..c : /\ \E i \in 1..c : points[i].bal <= points[j].bal
                      /\ \E i \in 1..c : points[i].bal >= points[j].bal
  BY <1>2
<1> HIDE DEF c
<1> QED  BY <1>1, <1>2, <1>3, <1>4, <1>5 DEF Charts, c

\* A chart has the extremes of what it charts.
LEMMA ChartExtremes ==
  ASSUME NEW points, IsApart(points), NEW out, Charts(out, points)
  PROVE  /\ \E i \in 1..Len(out) : out[i].bal = Min({points[j].bal : j \in DOMAIN points})
         /\ \E i \in 1..Len(out) : out[i].bal = Max({points[j].bal : j \in DOMAIN points})
<1> DEFINE c == Len(points)
           m == Len(out)
           S == {points[j].bal : j \in DOMAIN points}
           f == [i \in 1..c |-> points[i].bal]
<1>1. /\ points \in Seq(Snapshots) /\ out \in Seq(Snapshots)
      /\ \A i \in 1..m : \E j \in 1..c : out[i] = points[j]
      /\ \A j \in 1..c : /\ \E i \in 1..m : out[i].bal <= points[j].bal
                         /\ \E i \in 1..m : out[i].bal >= points[j].bal
      /\ m >= 1 /\ m <= c
  BY DEF IsApart, IsSeries, Charts
<1>2. c \in Nat /\ c >= 1 /\ DOMAIN points = 1..c /\ m \in Nat /\ \A i \in 1..c : points[i].bal \in Int
  <2>1. c \in Nat /\ DOMAIN points = 1..c /\ \A i \in 1..c : points[i].bal \in Int
    BY <1>1, SeriesFacts
  <2>2. m \in Nat
    BY <1>1
  <2> HIDE DEF c, m
  <2> QED  BY <1>1, <2>1, <2>2
<1>3. S \in SUBSET Int /\ \A j \in 1..c : points[j].bal \in S
  BY <1>2
<1>4. \A y \in S : \E j \in 1..c : y = points[j].bal
  BY <1>2
<1> HIDE DEF S, c, m
<1>5. PICK lo \in 1..c : \A j \in 1..c : f[lo] <= f[j]
  <2>1. \A i \in 1..c : f[i] \in Int
    BY <1>2
  <2> HIDE DEF f
  <2> QED  BY <1>2, <2>1, ExtremesExist
<1>6. PICK hi \in 1..c : \A j \in 1..c : f[hi] >= f[j]
  <2>1. \A i \in 1..c : f[i] \in Int
    BY <1>2
  <2> HIDE DEF f
  <2> QED  BY <1>2, <2>1, ExtremesExist
<1>7. Min(S) = points[lo].bal
  <2>1. \A y \in S : points[lo].bal <= y
    BY <1>4, <1>5
  <2> DEFINE z == points[lo].bal
  <2> HIDE DEF z
  <2>2. z \in S /\ \A y \in S : z <= y
    BY <1>3, <2>1 DEF z
  <2> QED  BY <1>3, <2>2, MinMaxAre DEF z
<1>8. Max(S) = points[hi].bal
  <2>1. \A y \in S : points[hi].bal >= y
    BY <1>4, <1>6
  <2> DEFINE z == points[hi].bal
  <2> HIDE DEF z
  <2>2. z \in S /\ \A y \in S : z >= y
    BY <1>3, <2>1 DEF z
  <2> QED  BY <1>3, <2>2, MinMaxAre DEF z
<1>9. \E i \in 1..m : out[i].bal = points[lo].bal
  <2>1. PICK i \in 1..m : out[i].bal <= points[lo].bal
    BY <1>1
  <2>2. PICK j \in 1..c : out[i] = points[j]
    BY <1>1
  <2>3. points[lo].bal <= points[j].bal
    BY <1>5
  <2>4. points[lo].bal \in Int /\ points[j].bal \in Int
    BY <1>2
  <2> QED  BY <2>1, <2>2, <2>3, <2>4
<1>10. \E i \in 1..m : out[i].bal = points[hi].bal
  <2>1. PICK i \in 1..m : out[i].bal >= points[hi].bal
    BY <1>1
  <2>2. PICK j \in 1..c : out[i] = points[j]
    BY <1>1
  <2>3. points[hi].bal >= points[j].bal
    BY <1>6
  <2>4. points[hi].bal \in Int /\ points[j].bal \in Int
    BY <1>2
  <2> QED  BY <2>1, <2>2, <2>3, <2>4
<1> QED  BY <1>7, <1>8, <1>9, <1>10 DEF S, m

\* Thinned or not, the drawn series is a chart of the points.
LEMMA DrawnCharts ==
  ASSUME NEW points, IsApart(points)
  PROVE  Charts(DownsampleTrend(points), points)
<1> DEFINE out == DownsampleTrend(points)
           c == Len(points)
<1>1. points \in Seq(Snapshots) /\ c \in Nat /\ TrendPointCap \in Nat
  <2>1. points \in Seq(Snapshots)
    BY DEF IsApart, IsSeries
  <2> QED  BY <2>1, TrendAssumption
<1>2. CASE c <= TrendPointCap
  <2>1. out = points
    BY <1>2 DEF DownsampleTrend
  <2> QED  BY <1>2, <2>1, WholeIsChart
<1>3. CASE ~(c <= TrendPointCap)
  <2>1. c > TrendPointCap
    BY <1>1, <1>3
  <2>2. PICK x : Drawn(x, points) /\ out = Downsampled(points, x)
    <3> HIDE DEF out
    <3> QED  BY <1>1, <2>1, DownsampleUnfolds DEF out
  <2> QED  BY <2>2, DrawnIsChart
<1> QED  BY <1>2, <1>3

\* downsampleTrend keeps a chart's shape, whatever the points and the cap: the drawn series
\* is in order of time, made of the points, has both ends, the lowest and the highest
\* balance the summary reports, and at most two points more than the cap.
THEOREM ShapeIsKept ==
  ASSUME NEW points, IsApart(points)
  PROVE  ShapeSurvives(points)
<1> DEFINE out == DownsampleTrend(points)
           low == Min({points[i].bal : i \in DOMAIN points})
           high == Max({points[i].bal : i \in DOMAIN points})
           trend == BalanceTrend(points)
           m == Len(out)
           c == Len(points)
<1>1. points \in Seq(Snapshots) /\ c \in Nat /\ TrendPointCap \in Nat
  <2>1. points \in Seq(Snapshots)
    BY DEF IsApart, IsSeries
  <2> QED  BY <2>1, TrendAssumption
<1>2. Charts(out, points)
  BY DrawnCharts
<1>3. (\E i \in 1..m : out[i].bal = low) /\ (\E i \in 1..m : out[i].bal = high)
  <2> HIDE DEF out
  <2> QED  BY <1>2, ChartExtremes
<1>4. trend.history = out /\ trend.low = low /\ trend.high = high
  BY DEF BalanceTrend
<1> HIDE DEF out, low, high, trend, c
<1>5. /\ out \in Seq(Snapshots) /\ m >= 1 /\ m <= c /\ m <= TrendPointCap + 2
      /\ \A i \in 2..m : out[i - 1].at < out[i].at
      /\ out[1] = points[1] /\ out[m] = points[c]
      /\ \A i \in 1..m : \E j \in 1..c : out[i] = points[j]
  BY <1>2 DEF Charts, c
<1>6. m \in Nat /\ DOMAIN out = 1..m /\ DOMAIN points = 1..c
  BY <1>1, <1>5 DEF c
<1> HIDE DEF m
<1>7. \A i \in DOMAIN out \ {1} : out[i - 1].at < out[i].at
  <2>1. \A i \in DOMAIN out \ {1} : i \in 2..m
    BY <1>6
  <2> QED  BY <1>5, <2>1
<1>8. ToSet(out) \subseteq ToSet(points)
  BY <1>5, <1>6 DEF ToSet
<1>9. {low, high} \subseteq {out[i].bal : i \in DOMAIN out}
  BY <1>3, <1>6
<1>10. m <= Larger(TrendPointCap, c)
  BY <1>1, <1>5, <1>6 DEF Larger
<1> QED  BY <1>4, <1>5, <1>7, <1>8, <1>9, <1>10 DEF ShapeSurvives, trend, m, c

-------------------------------------------------------------------------------
(* What a thinned trend tells of the rows it is made of                     *)

\* Numbers that never fall from one position to the next never fall.
LEMMA NeverFalls ==
  ASSUME NEW n \in Nat, NEW f, \A i \in 1..n : f[i] \in Int, \A i \in 2..n : f[i - 1] <= f[i],
         NEW p \in 1..n, NEW q \in 1..n, p <= q
  PROVE  f[p] <= f[q]
<1> DEFINE T == {k \in p..n : ~(f[p] <= f[k])}
<1>1. T \in SUBSET Nat
  OBVIOUS
<1>2. T = {}
  <2> SUFFICES ASSUME T # {} PROVE FALSE
    OBVIOUS
  <2>1. PICK k \in T : \A l \in T : k <= l
    <3> HIDE DEF T
    <3> QED  BY <1>1, LeastOfNat
  <2>2. k \in p..n /\ ~(f[p] <= f[k])
    OBVIOUS
  <2>3. k # p
    BY <2>2
  <2>4. k - 1 \in p..n /\ k \in 2..n /\ k - 1 < k /\ k - 1 \in 1..n /\ k \in 1..n /\ k \in Nat /\ k - 1 \in Nat
    BY <2>2, <2>3
  <2>5. k - 1 \notin T
    <3> HIDE DEF T
    <3> QED  BY <2>1, <2>4
  <2>6. f[p] <= f[k - 1] /\ f[k - 1] <= f[k] /\ f[p] \in Int /\ f[k - 1] \in Int /\ f[k] \in Int
    BY <2>4, <2>5
  <2> QED  BY <2>2, <2>6
<1>3. q \in p..n
  OBVIOUS
<1> QED  BY <1>2, <1>3

\* What was spent up to each snapshot of a series, the first included.
SpentBy(s) == [k \in 1..Len(s) |-> SumFunctionOnSet(Spending(s), 2..k)]

\* Spending up to a snapshot starts at nothing and grows by what is spent at the next.
LEMMA SpentByFacts ==
  ASSUME NEW s \in Seq(Snapshots), s # <<>>
  PROVE  /\ \A k \in 1..Len(s) : SpentBy(s)[k] \in Int
         /\ SpentBy(s)[1] = 0
         /\ \A k \in 2..Len(s) : SpentBy(s)[k] = SpentBy(s)[k - 1] + Spending(s)[k]
         /\ SpentBy(s)[Len(s)] = SumFunction(Spending(s))
<1> DEFINE n == Len(s)
           f == Spending(s)
<1>1. n \in Nat /\ n >= 1 /\ Whole(f, 2..n) /\ DOMAIN f = 2..n
  BY SeriesFacts, FlowFacts
<1>2. \A k \in 1..n : SpentBy(s)[k] = SumFunctionOnSet(f, 2..k)
  BY DEF SpentBy
<1> HIDE DEF f, n
<1>3. \A k \in 1..n : Whole(f, 2..k)
  <2>1. \A k \in 1..n : 2..k \in SUBSET (2..n)
    BY <1>1
  <2> QED  BY <1>1, <2>1, WholePart
<1>4. \A k \in 1..n : SpentBy(s)[k] \in Int
  BY <1>2, <1>3, SumFacts
<1>5. SpentBy(s)[1] = 0
  <2>1. 2..1 = {} /\ 1 \in 1..n
    BY <1>1
  <2> QED  BY <1>2, <1>3, <2>1, SumFacts
<1>6. ASSUME NEW k \in 2..n PROVE SpentBy(s)[k] = SpentBy(s)[k - 1] + f[k]
  <2>1. k \in 1..n /\ k - 1 \in 1..n /\ k \notin 2..(k - 1) /\ (2..(k - 1)) \cup {k} = 2..k
    BY <1>1
  <2>2. SumFunctionOnSet(f, 2..k) = f[k] + SumFunctionOnSet(f, 2..(k - 1))
    <3>1. Whole(f, (2..(k - 1)) \cup {k})
      BY <1>3, <2>1
    <3>2. SumFunctionOnSet(f, (2..(k - 1)) \cup {k}) = f[k] + SumFunctionOnSet(f, 2..(k - 1))
      BY <2>1, <3>1, SumAdds
    <3> QED  BY <2>1, <3>2
  <2>3. SpentBy(s)[k] = f[k] + SpentBy(s)[k - 1]
    BY <1>2, <2>1, <2>2
  <2>4. f[k] \in Int /\ SpentBy(s)[k - 1] \in Int
    BY <1>1, <1>4, <2>1 DEF Whole
  <2> QED  BY <2>3, <2>4
<1>7. SpentBy(s)[n] = SumFunction(f)
  <2>1. n \in 1..n
    BY <1>1
  <2> QED  BY <1>1, <1>2, <2>1 DEF SumFunction
<1> QED  BY <1>4, <1>5, <1>6, <1>7 DEF n, f

\* Between two snapshots at least as much was spent as the balance lost, and never less than nothing.
LEMMA SpentBetween ==
  ASSUME NEW s \in Seq(Snapshots), s # <<>>, NEW p \in 1..Len(s), NEW q \in 1..Len(s), p <= q
  PROVE  SpentBy(s)[p] + Larger(s[p].bal - s[q].bal, 0) <= SpentBy(s)[q]
<1> DEFINE n == Len(s)
           c == SpentBy(s)
           g == [k \in 1..n |-> c[k] + s[k].bal]
<1>1. n \in Nat /\ \A i \in 1..n : s[i].bal \in Int
  BY SeriesFacts
<1>2. (\A k \in 1..n : c[k] \in Int) /\ \A k \in 2..n : c[k] = c[k - 1] + Spending(s)[k]
  BY SpentByFacts
<1>3. \A k \in 2..n : /\ Spending(s)[k] \in Nat /\ TopUps(s)[k] \in Nat
                      /\ Spending(s)[k] - TopUps(s)[k] = s[k - 1].bal - s[k].bal
  BY FlowFacts
<1> HIDE DEF c
<1>4. ASSUME NEW k \in 2..n PROVE c[k - 1] <= c[k] /\ c[k - 1] + s[k - 1].bal <= c[k] + s[k].bal
  <2>1. k \in 1..n /\ k - 1 \in 1..n
    BY <1>1
  <2> DEFINE x == Spending(s)[k]  y == TopUps(s)[k]  bj == s[k - 1].bal  bk == s[k].bal  cj == c[k - 1]
  <2>2. x \in Nat /\ y \in Nat /\ x - y = bj - bk /\ bj \in Int /\ bk \in Int /\ cj \in Int /\ c[k] = cj + x
    BY <1>1, <1>2, <1>3, <2>1
  <2> HIDE DEF x, y, bj, bk, cj
  <2>3. cj <= cj + x /\ cj + bj <= cj + x + bk
    BY <2>2
  <2> QED  BY <2>2, <2>3 DEF bj, bk, cj
<1>5. c[p] <= c[q]
  <2> HIDE DEF n
  <2>1. p \in 1..n /\ q \in 1..n
    BY DEF n
  <2> QED  BY <1>1, <1>2, <1>4, <2>1, NeverFalls
<1>6. c[p] + s[p].bal <= c[q] + s[q].bal
  <2>1. (\A i \in 1..n : g[i] \in Int) /\ \A i \in 1..n : g[i] = c[i] + s[i].bal
    BY <1>1, <1>2
  <2>2. \A i \in 2..n : g[i - 1] <= g[i]
    <3>1. \A i \in 2..n : i - 1 \in 1..n /\ i \in 1..n
      BY <1>1
    <3> HIDE DEF g
    <3> QED  BY <1>4, <2>1, <3>1
  <2> HIDE DEF g, n
  <2>3. p \in 1..n /\ q \in 1..n
    BY DEF n
  <2>4. g[p] <= g[q]
    BY <1>1, <2>1, <2>2, <2>3, NeverFalls
  <2> QED  BY <2>1, <2>3, <2>4
<1> DEFINE cp == c[p]  cq == c[q]  bp == s[p].bal  bq == s[q].bal
<1>7. cp \in Int /\ cq \in Int /\ bp \in Int /\ bq \in Int /\ cp <= cq /\ cp + bp <= cq + bq
  BY <1>1, <1>2, <1>5, <1>6
<1> HIDE DEF cp, cq, bp, bq
<1>8. cp + Larger(bp - bq, 0) <= cq
  BY <1>7 DEF Larger
<1> QED  BY <1>8 DEF cp, cq, bp, bq, c

\* Fewer snapshots tell no more spending: what rises and falls between two that are
\* drawn was spent at least as often in the rows between them.
LEMMA ChartSpendsLess ==
  ASSUME NEW points, IsApart(points), NEW out, Charts(out, points)
  PROVE  SumFunction(Spending(out)) <= SumFunction(Spending(points))
<1> DEFINE n == Len(points)
           m == Len(out)
           place == [i \in 1..m |-> CHOOSE j \in 1..n : out[i] = points[j]]
           c == SpentBy(points)
           d == SpentBy(out)
           T == {i \in 1..m : ~(d[i] <= c[place[i]])}
<1>1. points \in Seq(Snapshots) /\ points # <<>> /\ n \in Nat /\ n >= 1
  <2>1. points \in Seq(Snapshots) /\ points # <<>>
    BY DEF IsApart, IsSeries
  <2> QED  BY <2>1, SeriesFacts
<1>2. out \in Seq(Snapshots) /\ m >= 1 /\ m \in Nat /\ out # <<>>
  <2>1. out \in Seq(Snapshots) /\ m >= 1
    BY DEF Charts
  <2>2. m \in Nat
    BY <2>1
  <2>3. out # <<>>
    BY <2>1
  <2> QED  BY <2>1, <2>2, <2>3
<1>3. \A i \in 1..m : place[i] \in 1..n /\ out[i] = points[place[i]]
  <2>1. \A i \in 1..m : \E j \in 1..n : out[i] = points[j]
    BY DEF Charts
  <2> QED  BY <2>1
<1> HIDE DEF place
<1>4. \A i \in 1..n : points[i].at \in Nat /\ points[i].bal \in Int
  BY <1>1, SeriesFacts
<1>5. ASSUME NEW i \in 2..m PROVE place[i - 1] <= place[i] /\ i - 1 \in 1..m /\ i \in 1..m
  <2>1. i - 1 \in 1..m /\ i \in 1..m
    BY <1>2
  <2>2. points[place[i - 1]].at < points[place[i]].at
    BY <1>3, <2>1 DEF Charts
  <2> DEFINE x == place[i - 1]  y == place[i]
  <2>3. x \in 1..n /\ y \in 1..n /\ points[x].at < points[y].at
    BY <1>3, <2>1, <2>2
  <2> HIDE DEF x, y
  <2>4. ~(y < x)
    <3> SUFFICES ASSUME y < x PROVE FALSE
      OBVIOUS
    <3>1. DOMAIN points = 1..n
      BY <1>1
    <3>2. points[y].at < points[x].at
      BY <2>3, <3>1 DEF IsApart
    <3>3. points[y].at \in Nat /\ points[x].at \in Nat
      BY <1>4, <2>3
    <3> QED  BY <2>3, <3>2, <3>3
  <2>5. x <= y
    BY <2>3, <2>4
  <2> QED  BY <2>1, <2>5 DEF x, y
<1>6. (\A k \in 1..n : c[k] \in Int) /\ c[1] = 0 /\ c[n] = SumFunction(Spending(points))
  BY <1>1, SpentByFacts
<1>7. (\A k \in 1..m : d[k] \in Int) /\ d[1] = 0 /\ d[m] = SumFunction(Spending(out))
      /\ \A k \in 2..m : d[k] = d[k - 1] + Spending(out)[k]
  BY <1>2, SpentByFacts
<1>8. \A p, q \in 1..n : p <= q => c[p] + Larger(points[p].bal - points[q].bal, 0) <= c[q]
  BY <1>1, SpentBetween
<1> HIDE DEF c, d
<1>9. \A i \in 2..m : Spending(out)[i] = Larger(points[place[i - 1]].bal - points[place[i]].bal, 0)
  <2> SUFFICES ASSUME NEW i \in 2..m
               PROVE  Spending(out)[i] = Larger(points[place[i - 1]].bal - points[place[i]].bal, 0)
    OBVIOUS
  <2>1. out[i - 1] = points[place[i - 1]] /\ out[i] = points[place[i]]
    BY <1>3, <1>5
  <2>2. Spending(out)[i] = Larger(out[i - 1].bal - out[i].bal, 0)
    BY DEF Spending, Spent
  <2> QED  BY <2>1, <2>2
<1>10. T = {}
  <2> SUFFICES ASSUME T # {} PROVE FALSE
    OBVIOUS
  <2>1. PICK i \in T : \A l \in T : i <= l
    <3>1. T \in SUBSET Nat
      OBVIOUS
    <3> HIDE DEF T
    <3> QED  BY <3>1, LeastOfNat
  <2>2. i \in 1..m /\ ~(d[i] <= c[place[i]])
    OBVIOUS
  <2>3. i # 1
    <3> SUFFICES ASSUME i = 1 PROVE FALSE
      OBVIOUS
    <3> DEFINE x == place[1]
    <3>1. x \in 1..n /\ 1 \in 1..n
      BY <1>1, <1>2, <1>3, <2>2
    <3> HIDE DEF x
    <3>2. c[1] + Larger(points[1].bal - points[x].bal, 0) <= c[x]
      BY <1>8, <3>1
    <3>3. points[1].bal \in Int /\ points[x].bal \in Int /\ c[x] \in Int
      BY <1>4, <1>6, <3>1
    <3>4. Larger(points[1].bal - points[x].bal, 0) >= 0 /\ Larger(points[1].bal - points[x].bal, 0) \in Int
      BY <3>3 DEF Larger
    <3>5. 0 <= c[x]
      BY <1>6, <3>2, <3>3, <3>4
    <3> QED  BY <1>7, <2>2, <3>5 DEF x
  <2>4. i \in 2..m
    BY <1>2, <2>2, <2>3
  <2>5. i - 1 \notin T
    <3>1. i - 1 < i /\ i - 1 \in Int /\ i \in Int
      BY <2>4
    <3> HIDE DEF T
    <3> QED  BY <2>1, <3>1
  <2>6. d[i - 1] <= c[place[i - 1]]
    BY <1>5, <2>4, <2>5
  <2> DEFINE x == place[i - 1]  y == place[i]  e == Larger(points[x].bal - points[y].bal, 0)
  <2>7. x \in 1..n /\ y \in 1..n /\ x <= y
    BY <1>3, <1>5, <2>4
  <2>8. c[x] + e <= c[y]
    <3> HIDE DEF x, y
    <3> QED  BY <1>8, <2>7
  <2>9. d[i] = d[i - 1] + e
    BY <1>7, <1>9, <2>4
  <2>10. e \in Int /\ c[x] \in Int /\ c[y] \in Int /\ d[i - 1] \in Int /\ d[i] \in Int
    <3>1. c[x] \in Int /\ c[y] \in Int /\ points[x].bal \in Int /\ points[y].bal \in Int
      <4> HIDE DEF x, y, e
      <4> QED  BY <1>4, <1>6, <2>7
    <3>2. d[i - 1] \in Int /\ d[i] \in Int
      BY <1>5, <1>7, <2>4
    <3>3. e \in Int
      <4> DEFINE bx == points[x].bal  by == points[y].bal
      <4>1. bx \in Int /\ by \in Int
        BY <3>1
      <4> HIDE DEF bx, by
      <4>2. Larger(bx - by, 0) \in Int
        BY <4>1 DEF Larger
      <4> QED  BY <4>2 DEF bx, by
    <3> QED  BY <3>1, <3>2, <3>3
  <2>11. d[i - 1] <= c[x] /\ ~(d[i] <= c[y])
    BY <2>2, <2>6
  <2> HIDE DEF e, x, y
  <2> QED  BY <2>8, <2>9, <2>10, <2>11
<1>11. d[m] <= c[place[m]]
  <2>1. m \in 1..m
    BY <1>2
  <2> QED  BY <1>10, <2>1
<1>12. c[place[m]] <= c[n]
  <2> DEFINE x == place[m]
  <2>1. x \in 1..n /\ n \in 1..n /\ x <= n
    BY <1>1, <1>2, <1>3
  <2> HIDE DEF x
  <2>2. c[x] + Larger(points[x].bal - points[n].bal, 0) <= c[n]
    BY <1>8, <2>1
  <2>3. points[n].bal \in Int /\ points[x].bal \in Int /\ c[x] \in Int /\ c[n] \in Int
    BY <1>4, <1>6, <2>1
  <2>4. Larger(points[x].bal - points[n].bal, 0) >= 0 /\ Larger(points[x].bal - points[n].bal, 0) \in Int
    BY <2>3 DEF Larger
  <2>5. c[x] <= c[n]
    BY <2>2, <2>3, <2>4
  <2> QED  BY <2>5 DEF x
<1>13. d[m] \in Int /\ c[n] \in Int /\ c[place[m]] \in Int
  BY <1>1, <1>2, <1>3, <1>6, <1>7
<1>14. d[m] <= c[n]
  BY <1>11, <1>12, <1>13
<1> QED  BY <1>6, <1>7, <1>14

\* A chart of the points has their range.
LEMMA ChartRange ==
  ASSUME NEW points, IsApart(points), NEW out, Charts(out, points)
  PROVE  /\ Min({out[i].bal : i \in DOMAIN out}) = Min({points[i].bal : i \in DOMAIN points})
         /\ Max({out[i].bal : i \in DOMAIN out}) = Max({points[i].bal : i \in DOMAIN points})
<1> DEFINE n == Len(points)
           m == Len(out)
           low == Min({points[i].bal : i \in DOMAIN points})
           high == Max({points[i].bal : i \in DOMAIN points})
           balances == {points[i].bal : i \in DOMAIN points}
           kept == {out[i].bal : i \in DOMAIN out}
           f == [i \in 1..n |-> points[i].bal]
<1>1. points \in Seq(Snapshots) /\ points # <<>> /\ n \in Nat /\ n >= 1 /\ DOMAIN points = 1..n
  <2>1. points \in Seq(Snapshots) /\ points # <<>>
    BY DEF IsApart, IsSeries
  <2> QED  BY <2>1, SeriesFacts
<1>2. out \in Seq(Snapshots) /\ DOMAIN out = 1..m
  BY SeriesFacts DEF Charts
<1>3. \A i \in 1..n : points[i].bal \in Int
  BY <1>1, SeriesFacts
<1>4. kept \in SUBSET balances /\ balances \in SUBSET Int
  <2>1. \A i \in 1..m : \E j \in 1..n : out[i] = points[j]
    BY DEF Charts
  <2> QED  BY <1>1, <1>2, <1>3, <2>1
<1>5. low \in kept /\ high \in kept
  <2>1. (\E i \in 1..m : out[i].bal = low) /\ (\E i \in 1..m : out[i].bal = high)
    BY ChartExtremes
  <2> QED  BY <1>2, <2>1
<1>6. (\E x \in balances : \A y \in balances : x <= y) /\ (\E x \in balances : \A y \in balances : x >= y)
  <2>1. \A i \in 1..n : f[i] \in Int
    BY <1>3
  <2>2. (\E i \in 1..n : \A j \in 1..n : f[i] <= f[j]) /\ (\E i \in 1..n : \A j \in 1..n : f[i] >= f[j])
    <3> HIDE DEF f
    <3> QED  BY <1>1, <2>1, ExtremesExist
  <2> QED  BY <1>1, <2>2
<1> HIDE DEF kept, balances
<1>7. low = Min(balances) /\ high = Max(balances)
  BY DEF balances
<1> HIDE DEF low, high
<1>8. \A y \in kept : low <= y /\ y <= high
  <2>1. PICK x \in balances : \A y \in balances : x <= y
    BY <1>6
  <2>2. PICK z \in balances : \A y \in balances : z >= y
    BY <1>6
  <2>3. low = x /\ high = z
    BY <1>4, <1>7, <2>1, <2>2, MinMaxAre
  <2>4. \A y \in kept : y \in balances /\ y \in Int /\ z \in Int
    BY <1>4, <2>2
  <2> QED  BY <2>1, <2>2, <2>3, <2>4
<1>9. Min(kept) = low /\ Max(kept) = high
  <2>1. kept \in SUBSET Int
    BY <1>4
  <2>2. high \in Int /\ \A y \in kept : y \in Int /\ high >= y
    BY <1>5, <1>8, <2>1
  <2>3. \A y \in kept : low <= y
    BY <1>8
  <2> QED  BY <1>5, <2>1, <2>2, <2>3, MinMaxAre
<1> QED  BY <1>7, <1>9 DEF kept, balances

\* Whoever reads the rows, spending less top-ups is what the balance lost; the days of the
\* summary add up; and balance_trend, which reads the series a chart is drawn from, tells
\* its net change, range and ends exactly, each drawn snapshot in one point, and never
\* more spending than there was: all of it up to the cap (mcpserver/spend.go, trend.go, history.go).
THEOREM NothingIsLost ==
  ASSUME NEW rows, IsApart(rows), NEW interval
  PROVE  FlowsConserve(rows, interval)
<1> DEFINE n == Len(rows)
           out == DownsampleTrend(rows)
           tool == TrendTool(rows, interval)
           balances == {rows[i].bal : i \in DOMAIN rows}
<1>1. ViewAddsUp(rows) /\ Charts(out, rows)
  BY ViewSums, DrawnCharts
<1>2. tool = [summary |-> Summarize(out), points |-> Bucket(out, interval)]
  BY DEF TrendTool, BalanceTrend
<1> HIDE DEF tool
<1>3. n <= TrendPointCap => out = rows
  BY DEF DownsampleTrend
<1> HIDE DEF out
<1>4. IsApart(out)
  <2>1. out \in Seq(Snapshots) /\ Len(out) >= 1 /\ \A i \in 2..Len(out) : out[i - 1].at < out[i].at
    BY <1>1 DEF Charts
  <2>2. Len(out) \in Nat /\ DOMAIN out = 1..Len(out) /\ out # <<>> /\ \A i \in 1..Len(out) : out[i].at \in Nat
    BY <2>1, SeriesFacts
  <2> DEFINE c == Len(out)
             f == [i \in 1..c |-> out[i].at - i]
  <2>3. \A p, q \in 1..c : p <= q => f[p] <= f[q]
    <3>1. \A i \in 1..c : f[i] \in Int
      BY <2>2
    <3>2. ASSUME NEW i \in 2..c PROVE f[i - 1] <= f[i]
      <4>1. i - 1 \in 1..c /\ i \in 1..c /\ i \in Int
        BY <2>2
      <4>2. out[i - 1].at < out[i].at /\ out[i - 1].at \in Nat /\ out[i].at \in Nat
        BY <2>1, <2>2, <4>1
      <4>3. out[i - 1].at - (i - 1) <= out[i].at - i
        BY <4>1, <4>2
      <4> QED  BY <4>1, <4>3
    <3>3. c \in Nat
      BY <2>2
    <3> HIDE DEF f, c
    <3> QED  BY <3>1, <3>2, <3>3, NeverFalls
  <2>4. ASSUME NEW p \in 1..c, NEW q \in 1..c, p < q PROVE out[p].at < out[q].at
    <3>1. out[p].at - p <= out[q].at - q
      <4>1. f[p] <= f[q]
        BY <2>2, <2>3, <2>4
      <4> QED  BY <4>1
    <3>2. out[p].at \in Nat /\ out[q].at \in Nat /\ p \in Int /\ q \in Int
      BY <2>2
    <3> QED  BY <2>4, <3>1, <3>2
  <2>5. ASSUME NEW p \in 1..c, NEW q \in 1..c, p <= q PROVE out[p].at <= out[q].at
    <3>1. out[p].at \in Nat /\ out[q].at \in Nat /\ p \in Int /\ q \in Int
      BY <2>2
    <3>2. CASE p = q
      BY <3>1, <3>2
    <3>3. CASE p < q
      BY <2>4, <3>1, <3>3
    <3> QED  BY <2>5, <3>1, <3>2, <3>3
  <2> QED  BY <2>1, <2>2, <2>4, <2>5 DEF IsApart, IsSeries
<1>5. TellsAll(out, interval)
  BY <1>4, SummaryTellsAll
<1>6. SumFunction(Spending(out)) <= SumFunction(Spending(rows))
  BY <1>1, ChartSpendsLess
<1>7. Min({out[i].bal : i \in DOMAIN out}) = Min(balances) /\ Max({out[i].bal : i \in DOMAIN out}) = Max(balances)
  BY <1>1, ChartRange
<1>8. out[1] = rows[1] /\ out[Len(out)] = rows[n] /\ Len(out) <= n
  BY <1>1 DEF Charts
<1> DEFINE t == tool.summary
           b == tool.points
           v == SpendView(rows, rows[n].at)
           lost == rows[1].bal - rows[n].bal
<1>9. t = Summarize(out) /\ b = Bucket(out, interval)
  BY <1>2
<1> HIDE DEF t, b, v, lost, balances
<1>10. /\ t.count = Len(out) /\ t.consumed = SumFunction(Spending(out))
       /\ t.consumed - t.toppedUp = out[1].bal - out[Len(out)].bal /\ t.change = 0 - (out[1].bal - out[Len(out)].bal)
       /\ t.low = Min({out[i].bal : i \in DOMAIN out}) /\ t.high = Max({out[i].bal : i \in DOMAIN out})
       /\ SumFunction([i \in DOMAIN b |-> b[i].n]) = Len(out)
       /\ \A i \in DOMAIN b \ {1} : b[i - 1].at < b[i].at
       /\ b[Len(b)].bal = out[Len(out)].bal
       /\ Min({b[i].low : i \in DOMAIN b}) = t.low /\ Max({b[i].high : i \in DOMAIN b}) = t.high
  BY <1>5, <1>9 DEF TellsAll
<1>11. /\ v.consumed = SumFunction(Spending(rows)) /\ v.consumed - v.toppedUp = lost
       /\ SumFunction([k \in DOMAIN v.daily |-> v.daily[k].consumed]) = v.consumed
       /\ SumFunction([k \in DOMAIN v.daily |-> v.daily[k].toppedUp]) = v.toppedUp
  BY <1>1 DEF ViewAddsUp, v, lost
<1>12. out[1].bal - out[Len(out)].bal = lost
  BY <1>8 DEF lost
<1>13. t.consumed - t.toppedUp = lost /\ t.change = 0 - lost
  BY <1>10, <1>12
<1>14. t.low = Min(balances) /\ t.high = Max(balances) /\ t.count <= n /\ t.consumed <= v.consumed
  BY <1>6, <1>7, <1>8, <1>10, <1>11
<1>15. n <= TrendPointCap => t.count = n /\ t.consumed = v.consumed
  BY <1>3, <1>10, <1>11
<1>16. SumFunction([i \in DOMAIN b |-> b[i].n]) = t.count /\ b[Len(b)].bal = rows[n].bal
  BY <1>8, <1>10
<1> QED  BY <1>10, <1>11, <1>13, <1>14, <1>15, <1>16 DEF FlowsConserve, t, b, v, lost, balances, tool

-------------------------------------------------------------------------------
(* The machine that chooses the inputs, and the theorems about it           *)

\* What is chosen is a shape, and then an input of a kind the program can meet.
Chosen == input = NoInput \/ input \in Shapes \/ (input.step = "input" /\ Sane(input))

\* Every input given to the functions is one the program can meet.
LEMMA InputsAreSane == FiguresSpec => []Chosen
<1>1. FiguresInit => Chosen
  BY DEF FiguresInit, Chosen
<1>2. Chosen /\ [FiguresNext]_input => Chosen'
  <2> SUFFICES ASSUME Chosen, [FiguresNext]_input PROVE Chosen'
    OBVIOUS
  <2>1. CASE ChooseShape
    BY <2>1 DEF ChooseShape, Chosen
  <2>2. CASE ChooseInput
    <3>1. input.step = "shape" /\ input' \in InputsOf(input)
      BY <2>2 DEF ChooseInput
    <3>2. input \in Shapes
      BY <3>1 DEF Chosen, NoInput
    <3>3. input'.step = "input" /\ Sane(input')
      BY <3>1, <3>2, FiguresAssumption
    <3> QED  BY <3>3 DEF Chosen, Sane
  <2>3. CASE UNCHANGED input
    BY <2>3 DEF Chosen, Sane
  <2> QED  BY <2>1, <2>2, <2>3 DEF FiguresNext
<1> QED  BY <1>1, <1>2, PTL DEF FiguresSpec

\* A given input is sane.
LEMMA GivenIsSane ==
  ASSUME Chosen, NEW k, Given(k)
  PROVE  Sane(input) /\ input.kind = k
<1>1. input.step = "input" /\ input.kind = k
  BY DEF Given
<1>2. input # NoInput /\ input \notin Shapes
  BY <1>1, FiguresAssumption DEF NoInput
<1> QED  BY <1>1, <1>2 DEF Chosen

\* The dashboard's estimates, the agents' summary and the weekly report agree about what
\* was spent, and the trend tells no more of it than there was, for every input.
THEOREM SpendingInvariance == FiguresSpec => []SpendingAgrees
<1>1. Chosen => SpendingAgrees
  <2> SUFFICES ASSUME Chosen PROVE SpendingAgrees
    OBVIOUS
  <2>1. EstimatesAgree
    <3> SUFFICES ASSUME Given("agree")
                 PROVE  SpendAgreesWithRunway(input.series, IF input.with = 0 THEN input.series[Len(input.series)].at ELSE input.with)
      BY DEF EstimatesAgree
    <3> DEFINE s == input.series
               now == IF input.with = 0 THEN s[Len(s)].at ELSE input.with
    <3>1. IsSeries(s) /\ input.with \in Nat
      <4>1. Sane(input) /\ input.kind = "agree"
        BY GivenIsSane
      <4> QED  BY <4>1 DEF Sane
    <3>2. s[Len(s)].at \in Nat
      <4>1. s \in Seq(Snapshots) /\ s # <<>>
        BY <3>1 DEF IsSeries
      <4> HIDE DEF s
      <4>2. Len(s) \in 1..Len(s)
        BY <4>1
      <4> QED  BY <4>1, <4>2, SeriesFacts
    <3>3. now \in Nat
      BY <3>1, <3>2
    <3> HIDE DEF s, now
    <3>4. SpendAgreesWithRunway(s, now)
      BY <3>1, <3>3, EstimatesRead
    <3> QED  BY <3>4 DEF s, now
  <2>2. NothingLostInGroups
    <3> SUFFICES ASSUME Given("flows") PROVE FlowsConserve(input.series, input.with)
      BY DEF NothingLostInGroups
    <3>1. Sane(input) /\ input.kind = "flows"
      BY GivenIsSane
    <3>2. IsApart(input.series)
      BY <3>1 DEF Sane
    <3> QED  BY <3>2, NothingIsLost
  <2>3. WeeklyReportAgrees
    <3> SUFFICES ASSUME Given("weekly") PROVE ReportAgrees(input.series, input.results, input.subs, input.now)
      BY DEF WeeklyReportAgrees
    <3>1. Sane(input) /\ input.kind = "weekly"
      BY GivenIsSane
    <3>2. IsFleet(input.series) /\ input.now \in Nat /\ input.results \in Seq([id : STRING, success : BOOLEAN, alarm : BOOLEAN])
      BY <3>1 DEF Sane
    <3> QED  BY <3>2, ReportReads
  <2> QED  BY <2>1, <2>2, <2>3 DEF SpendingAgrees
<1> QED  BY <1>1, InputsAreSane, PTL

\* What the costs page counts of a month and what it misses, and the split at the turn of
\* a month, for every input.
THEOREM CostsInvariance == FiguresSpec => []CostsExact
<1>1. Chosen => CostsExact
  <2> SUFFICES ASSUME Chosen PROVE CostsExact
    OBVIOUS
  <2>1. MonthBoundaryCounted
    <3> SUFFICES ASSUME Given("months") PROVE MonthsSplit(input.series, input.with)
      BY DEF MonthBoundaryCounted
    <3>1. Sane(input) /\ input.kind = "months"
      BY GivenIsSane
    <3>2. IsSeries(input.series) /\ input.with \in Nat
      BY <3>1 DEF Sane
    <3> QED  BY <3>2, EveryMonthSplits
  <2>2. CostsCountedOnce
    <3> SUFFICES ASSUME Given("costs") PROVE CountedOnce(input.series, input.projects, input.cells, input.fx, input.when)
      BY DEF CostsCountedOnce
    <3>1. Sane(input) /\ input.kind = "costs"
      BY GivenIsSane
    <3>2. /\ IsTable(input.series, input.when)
          /\ AreProjects(input.projects)
          /\ IsFiniteSet(input.cells) /\ input.cells \in SUBSET Reported
          /\ Rates(input.fx)
      BY <3>1 DEF Sane, IsTable, Rates
    <3> QED  BY <3>2, EveryCostOnce
  <2> QED  BY <2>1, <2>2 DEF CostsExact
<1> QED  BY <1>1, InputsAreSane, PTL

\* A chart keeps its ends, order and extremes, for every input and every cap.
THEOREM ChartInvariance == FiguresSpec => []ChartKeepsShape
<1>1. Chosen => ChartKeepsShape
  <2> SUFFICES ASSUME Chosen, Given("shape") PROVE ShapeSurvives(input.series)
    BY DEF ChartKeepsShape
  <2>1. Sane(input) /\ input.kind = "shape"
    BY GivenIsSane
  <2>2. IsApart(input.series)
    BY <2>1 DEF Sane
  <2> QED  BY <2>2, ShapeIsKept
<1> QED  BY <1>1, InputsAreSane, PTL

-------------------------------------------------------------------------------
(* Usage: what the operators compute                                       *)

\* ListUsageSpend is a sum over rows, and what a report says one over its entries.
LEMMA SpendSums ==
  ASSUME NEW R, IsFiniteSet(R), \A r \in R : r.cost \in Int
  PROVE  \E g : Sums(g, [r \in R |-> r.cost], R, OneOf(R)) /\ ListUsageSpend(R) = g[R]
<1> DEFINE c == [r \in R |-> r.cost]
           one(s) == CHOOSE x \in s : TRUE
           Step(g) == [s \in SUBSET R |-> IF s = {} THEN 0 ELSE one(s).cost + g[s \ {one(s)}]]
           iter == CHOOSE g : g = Step(g)
<1>1. ListUsageSpend(R) = iter[R]
  BY DEF ListUsageSpend, MapThenSumSet, MapThenFoldSet
<1>2. \A s \in SUBSET R : s # {} => one(s) \in R /\ OneOf(R)[s] = one(s) /\ c[OneOf(R)[s]] = one(s).cost
  BY DEF OneOf
<1> HIDE DEF one
<1>3. c \in [R -> Int]
  OBVIOUS
<1> HIDE DEF c
<1>4. ASSUME NEW g PROVE Step(g) = [s \in SUBSET R |-> IF s = {} THEN 0 ELSE c[OneOf(R)[s]] + g[s \ {OneOf(R)[s]}]]
  BY <1>2
<1>5. \E g : g = Step(g)
  <2>1. PICK g : g = [s \in SUBSET R |-> IF s = {} THEN 0 ELSE c[OneOf(R)[s]] + g[s \ {OneOf(R)[s]}]]
    BY <1>3, SumExists
  <2>2. g = Step(g)
    <3> HIDE DEF Step
    <3> QED  BY <1>4, <2>1
  <2> QED  BY <2>2
<1>6. iter = Step(iter)
  <2> HIDE DEF Step
  <2> QED  BY <1>5
<1> HIDE DEF iter, Step
<1>7. Sums(iter, c, R, OneOf(R))
  BY <1>3, <1>4, <1>6, SumExists
<1> QED  BY <1>1, <1>7 DEF c

\* What a report says the spend is.
Says(e) == MapThenSumSet(LAMBDA i : e[i].cost, DOMAIN e)

\* It is a sum over the entries.
LEMMA EntrySums ==
  ASSUME NEW e, IsFiniteSet(DOMAIN e), \A i \in DOMAIN e : e[i].cost \in Int
  PROVE  \E g : Sums(g, [i \in DOMAIN e |-> e[i].cost], DOMAIN e, OneOf(DOMAIN e)) /\ Says(e) = g[DOMAIN e]
<1> DEFINE S == DOMAIN e
           c == [i \in S |-> e[i].cost]
           one(s) == CHOOSE x \in s : TRUE
           Step(g) == [s \in SUBSET S |-> IF s = {} THEN 0 ELSE e[one(s)].cost + g[s \ {one(s)}]]
           iter == CHOOSE g : g = Step(g)
<1>2. Says(e) = iter[S]
  BY DEF Says, MapThenSumSet, MapThenFoldSet
<1>1. IsFiniteSet(S)
  OBVIOUS
<1> HIDE DEF S
<1>3. \A s \in SUBSET S : s # {} => one(s) \in S /\ OneOf(S)[s] = one(s) /\ c[OneOf(S)[s]] = e[one(s)].cost
  BY DEF OneOf
<1> HIDE DEF one
<1>4. c \in [S -> Int]
  BY DEF S
<1> HIDE DEF c
<1>5. ASSUME NEW g PROVE Step(g) = [s \in SUBSET S |-> IF s = {} THEN 0 ELSE c[OneOf(S)[s]] + g[s \ {OneOf(S)[s]}]]
  BY <1>3
<1>6. \E g : g = Step(g)
  <2>1. PICK g : g = [s \in SUBSET S |-> IF s = {} THEN 0 ELSE c[OneOf(S)[s]] + g[s \ {OneOf(S)[s]}]]
    BY <1>1, <1>4, SumExists
  <2>2. g = Step(g)
    <3> HIDE DEF Step
    <3> QED  BY <1>5, <2>1
  <2> QED  BY <2>2
<1>7. iter = Step(iter)
  <2> HIDE DEF Step
  <2> QED  BY <1>6
<1> HIDE DEF iter, Step
<1>8. Sums(iter, c, S, OneOf(S))
  BY <1>1, <1>4, <1>5, <1>7, SumExists
<1> QED  BY <1>2, <1>8 DEF c, S

\* The rows a batch leaves: the last upsert of every cell it names, and the rows of other cells.
LEMMA BatchStores ==
  ASSUME NEW rows, NEW e, NEW k \in Nat, DOMAIN e = 1..k,
         \A i \in 1..k : \A j \in 1..k : e[i].cell = e[j].cell => i = j
  PROVE  FoldLeft(UpsertUsageEvent, rows, e) =
           {r \in rows : \A i \in 1..k : e[i].cell # r.cell} \cup {e[i] : i \in 1..k}
<1> DEFINE D == 1..k
           Step(g) == [s \in SUBSET D |-> IF s = {} THEN rows ELSE UpsertUsageEvent(g[s \ {Max(s)}], e[Max(s)])]
           iter == CHOOSE g : g = Step(g)
           V == SUBSET (rows \cup {e[i] : i \in D})
           h == [i \in D |-> [v \in V |-> UpsertUsageEvent(v, e[i])]]
           pick == [s \in SUBSET D |-> Max(s)]
<1>1. FoldLeft(UpsertUsageEvent, rows, e) = iter[D]
  BY DEF FoldLeft, MapThenFoldSet
<1>2. \A s \in SUBSET D : s # {} => Max(s) \in s /\ pick[s] = Max(s)
  BY GreatestOf
<1>3. FoldOver(D, V, rows, h, pick)
  <2>1. rows \in V
    OBVIOUS
  <2>2. h \in [D -> [V -> V]]
    BY DEF UpsertUsageEvent
  <2>3. IsFiniteSet(D)
    BY FS_Interval
  <2> HIDE DEF V, h, pick, D
  <2> QED  BY <1>2, <2>1, <2>2, <2>3 DEF FoldOver, Takes
<1>4. \E g : g = Step(g)
  <2>1. PICK g : IsFold(g, D, V, rows, h, pick)
    BY <1>3, FoldExists
  <2>2. ASSUME NEW s \in SUBSET D, s # {} PROVE g[s] = UpsertUsageEvent(g[s \ {Max(s)}], e[Max(s)])
    <3>1. pick[s] = Max(s) /\ Max(s) \in D
      BY <1>2, <2>2
    <3>2. g[s \ {Max(s)}] \in V
      <4> HIDE DEF V, h, pick, D
      <4> QED  BY <2>1 DEF IsFold
    <3>3. h[Max(s)][g[s \ {Max(s)}]] = UpsertUsageEvent(g[s \ {Max(s)}], e[Max(s)])
      <4> HIDE DEF V
      <4> QED  BY <3>1, <3>2
    <3>4. g[s] = h[pick[s]][g[s \ {pick[s]}]]
      <4> HIDE DEF V, h, pick, D
      <4> QED  BY <2>1, <2>2 DEF IsFold, FoldStep
    <3> HIDE DEF V, h, pick, D
    <3> QED  BY <3>1, <3>3, <3>4
  <2> HIDE DEF V, h, pick, D
  <2>3. g[{}] = rows /\ g \in [SUBSET D -> V]
    BY <2>1 DEF IsFold, FoldStep
  <2>4. g = Step(g)
    BY <2>2, <2>3
  <2> QED  BY <2>4
<1>5. iter = Step(iter)
  <2> HIDE DEF Step
  <2> QED  BY <1>4
<1>6. /\ iter[{}] = rows
      /\ \A s \in SUBSET D : s # {} => iter[s] = UpsertUsageEvent(iter[s \ {Max(s)}], e[Max(s)])
  <2> HIDE DEF iter, D
  <2> QED  BY <1>5
<1> HIDE DEF iter, Step, V, h, pick
<1> DEFINE Left(n) == {r \in rows : \A i \in 1..n : e[i].cell # r.cell} \cup {e[i] : i \in 1..n}
           T == {n \in 0..k : iter[1..n] # Left(n)}
<1>7. T = {}
  <2> SUFFICES ASSUME T # {} PROVE FALSE
    OBVIOUS
  <2>1. PICK n \in T : \A m \in T : n <= m
    <3>1. T \in SUBSET Nat
      OBVIOUS
    <3> HIDE DEF T
    <3> QED  BY <3>1, LeastOfNat
  <2>2. n \in 0..k /\ iter[1..n] # Left(n)
    OBVIOUS
  <2>3. n # 0
    <3> SUFFICES ASSUME n = 0 PROVE FALSE
      OBVIOUS
    <3>1. 1..n = {} /\ Left(n) = rows
      OBVIOUS
    <3> HIDE DEF Left
    <3> QED  BY <1>6, <2>2, <3>1
  <2>4. n - 1 \in 0..k /\ n - 1 \notin T
    <3> HIDE DEF T
    <3> QED  BY <2>1, <2>2, <2>3
  <2>5. iter[1..(n - 1)] = Left(n - 1)
    BY <2>4
  <2> DEFINE earlier == 1..(n - 1)
  <2>6. 1..n \in SUBSET D /\ n \in 1..n /\ 1..n # {} /\ (1..n) \ {n} = earlier /\ 1..n = earlier \cup {n}
    BY <2>2, <2>3
  <2>7. Max(1..n) = n
    <3>1. Max(1..n) \in 1..n /\ n <= Max(1..n)
      BY <2>6, GreatestOf
    <3> QED  BY <2>2, <3>1
  <2>8. iter[1..n] = UpsertUsageEvent(Left(n - 1), e[n])
    <3> HIDE DEF Left, T
    <3> QED  BY <1>6, <2>5, <2>6, <2>7
  <2>9. \A i \in earlier : e[i].cell # e[n].cell
    <3> SUFFICES ASSUME NEW i \in earlier PROVE e[i].cell # e[n].cell
      OBVIOUS
    <3>1. i \in 1..k /\ n \in 1..k /\ i # n
      BY <2>2, <2>3
    <3> QED  BY <3>1
  <2>10. UpsertUsageEvent(Left(n - 1), e[n]) = Left(n)
    <3> DEFINE all == 1..n
    <3>1. all = earlier \cup {n}
      BY <2>6
    <3>2. UpsertUsageEvent({r \in rows : \A i \in earlier : e[i].cell # r.cell} \cup {e[i] : i \in earlier}, e[n])
            = {r \in rows : \A i \in all : e[i].cell # r.cell} \cup {e[i] : i \in all}
      <4> HIDE DEF earlier, all
      <4> QED  BY <2>9, <3>1 DEF UpsertUsageEvent
    <3> QED  BY <3>2
  <2> QED  BY <2>2, <2>8, <2>10
<1>8. iter[D] = Left(k)
  BY <1>7
<1> QED  BY <1>1, <1>8

-------------------------------------------------------------------------------
(* Usage: the invariant and the theorem                                     *)

\* The rows that report r leaves behind, on its own or over those of another one.
RowsOf(r) == {r.entries[i] : i \in DOMAIN r.entries}

Attempt == [phase : {"idle", "open", "refused", "stored", "failed"}, done : Nat, rows : Seq([cell : Cells, cost : Nat])]

\* A transaction has written the first entries of its report and nothing else ...
WholeSoFar(r) ==
  /\ batch[r].phase # "open" => batch[r].done = 0 /\ batch[r].rows = <<>>
  /\ batch[r].phase = "open" =>
       /\ r \in Taken
       /\ Len(batch[r].rows) = batch[r].done
       /\ batch[r].done <= Len(r.entries)
       /\ \A i \in 1..batch[r].done : batch[r].rows[i] = r.entries[i]

\* ... and what is committed is nothing yet or one report.
UsageInv ==
  /\ batch \in [Reports -> Attempt]
  /\ \A r \in Reports : WholeSoFar(r)
  /\ usageRows = {} \/ \E r \in Taken : usageRows = RowsOf(r)

\* What the entries of a report are: finitely many rows, each of a cell of its own, of every cell.
LEMMA EntriesOf ==
  ASSUME NEW r \in Taken
  PROVE  /\ Len(r.entries) \in Nat /\ DOMAIN r.entries = 1..Len(r.entries)
         /\ \A i \in 1..Len(r.entries) : r.entries[i] \in [cell : Cells, cost : Nat]
         /\ \A i, j \in 1..Len(r.entries) : r.entries[i].cell = r.entries[j].cell => i = j
         /\ \A c \in Cells : \E i \in 1..Len(r.entries) : r.entries[i].cell = c
<1>1. r.entries \in Seq([cell : Cells, cost : Nat])
  BY UsageAssumption
<1>2. DOMAIN r.entries = 1..Len(r.entries) /\ Len(r.entries) \in Nat
  BY <1>1
<1>3. \A i \in 1..Len(r.entries) : r.entries[i] \in [cell : Cells, cost : Nat]
  BY <1>1, ElementOfSeq
<1> QED  BY <1>2, <1>3, UsageAssumption

\* A committed batch replaces whatever an earlier report left.
LEMMA CommitReplaces ==
  ASSUME NEW r \in Taken, NEW rows, \A x \in rows : x.cell \in Cells
  PROVE  FoldLeft(UpsertUsageEvent, rows, r.entries) = RowsOf(r)
<1> DEFINE e == r.entries
           k == Len(e)
<1>1. /\ k \in Nat /\ DOMAIN e = 1..k
      /\ \A i \in 1..k : \A j \in 1..k : e[i].cell = e[j].cell => i = j
      /\ \A c \in Cells : \E i \in 1..k : e[i].cell = c
  BY EntriesOf
<1>2. RowsOf(r) = {e[i] : i \in 1..k}
  BY <1>1 DEF RowsOf
<1> HIDE DEF e, k
<1>3. FoldLeft(UpsertUsageEvent, rows, e) = {x \in rows : \A i \in 1..k : e[i].cell # x.cell} \cup {e[i] : i \in 1..k}
  BY <1>1, BatchStores
<1>4. {x \in rows : \A i \in 1..k : e[i].cell # x.cell} = {}
  BY <1>1
<1> QED  BY <1>2, <1>3, <1>4 DEF e

\* The inductive invariant: an open transaction holds the first entries of its report,
\* and the committed rows are those of one report or none (UpsertUsageEvents, store/usage.go).
LEMMA UsageInvariance == UsageSpec => []UsageInv
<1>1. UsageInit => UsageInv
  <2> SUFFICES ASSUME UsageInit PROVE UsageInv
    OBVIOUS
  <2>1. \A r \in Reports : batch[r].phase = "idle" /\ batch[r].done = 0 /\ batch[r].rows = <<>> /\ batch[r] \in Attempt
    BY DEF UsageInit, Attempt
  <2>2. batch \in [Reports -> Attempt]
    BY <2>1 DEF UsageInit
  <2>3. \A r \in Reports : WholeSoFar(r)
    BY <2>1, EntriesOf DEF WholeSoFar
  <2> QED  BY <2>2, <2>3 DEF UsageInit, UsageInv
<1>2. ASSUME UsageInv, [UsageNext]_usageVars PROVE UsageInv'
  <2>1. batch \in [Reports -> Attempt] /\ (\A x \in Reports : WholeSoFar(x)) /\ (usageRows = {} \/ \E r \in Taken : usageRows = RowsOf(r))
    BY <1>2 DEF UsageInv
  <2>2. CASE UNCHANGED usageVars
    <3>1. \A x \in Reports : WholeSoFar(x)'
      BY <2>1, <2>2 DEF WholeSoFar, usageVars
    <3> QED  BY <2>1, <2>2, <3>1 DEF UsageInv, usageVars
  <2>3. CASE StopServer
    <3>1. batch' = [r \in Reports |-> IF batch[r].phase = "open"
                      THEN [phase |-> "failed", done |-> 0, rows |-> <<>>] ELSE batch[r]] /\ usageRows' = usageRows
      BY <2>3 DEF StopServer
    <3>2. batch' \in [Reports -> Attempt]
      <4>1. [phase |-> "failed", done |-> 0, rows |-> <<>>] \in Attempt
        BY DEF Attempt
      <4> QED  BY <2>1, <3>1, <4>1
    <3>3. ASSUME NEW x \in Reports PROVE WholeSoFar(x)'
      <4>1. CASE batch[x].phase = "open"
        <5>1. batch'[x].phase = "failed" /\ batch'[x].done = 0 /\ batch'[x].rows = <<>>
          BY <3>1, <4>1
        <5> QED  BY <5>1, EntriesOf DEF WholeSoFar
      <4>2. CASE batch[x].phase # "open"
        <5>1. batch'[x] = batch[x]
          BY <3>1, <4>2
        <5> QED  BY <2>1, <5>1 DEF WholeSoFar
      <4> QED  BY <4>1, <4>2
    <3> QED  BY <2>1, <3>1, <3>2, <3>3 DEF UsageInv
  <2>4. ASSUME NEW r \in Reports, Post(r) \/ WriteCell(r) \/ Commit(r) \/ Rollback(r) \/ Again(r)
        PROVE  UsageInv'
    <3>1. batch[r] \in Attempt /\ WholeSoFar(r)
      BY <2>1
    <3>2. ASSUME NEW b \in Attempt, batch' = [batch EXCEPT ![r] = b], WholeSoFar(r)',
                 usageRows' = {} \/ \E x \in Taken : usageRows' = RowsOf(x)
          PROVE  UsageInv'
      <4>1. batch' \in [Reports -> Attempt]
        BY <2>1, <3>2
      <4>2. ASSUME NEW x \in Reports, x # r PROVE WholeSoFar(x)'
        <5>1. batch'[x] = batch[x]
          BY <2>1, <3>2, <4>2
        <5> QED  BY <2>1, <5>1 DEF WholeSoFar
      <4> QED  BY <3>2, <4>1, <4>2 DEF UsageInv
    <3>3. CASE Post(r) \/ Again(r)
      <4>1. PICK p \in {"idle", "open", "refused"} : batch' = [batch EXCEPT ![r].phase = p] /\ (p = "open" => Accepted(r))
        BY <3>3 DEF Post, Again
      <4>2. batch[r].phase # "open" /\ usageRows' = usageRows
        BY <3>3 DEF Post, Again
      <4> DEFINE b == [batch[r] EXCEPT !.phase = p]
      <4>3. b \in Attempt /\ batch' = [batch EXCEPT ![r] = b]
        BY <3>1, <4>1 DEF Attempt
      <4>4. batch'[r] = b /\ b.done = batch[r].done /\ b.rows = batch[r].rows
        BY <2>1, <3>1, <4>3 DEF Attempt
      <4>5. b.phase = "open" => r \in Taken
        <5>1. b.phase = p
          BY <3>1 DEF Attempt
        <5> QED  BY <4>1, <5>1 DEF Taken
      <4>6. r \in Taken => Len(r.entries) \in Nat
        BY EntriesOf
      <4>7. WholeSoFar(r)'
        BY <3>1, <4>2, <4>4, <4>5, <4>6 DEF WholeSoFar
      <4> HIDE DEF b
      <4> QED  BY <2>1, <3>2, <4>2, <4>3, <4>7
    <3>4. CASE WriteCell(r)
      <4> DEFINE e == r.entries[batch[r].done + 1]
                 b == [batch[r] EXCEPT !.done = batch[r].done + 1, !.rows = Append(batch[r].rows, e)]
      <4>1. /\ batch[r].phase = "open" /\ batch[r].done < Len(r.entries) /\ usageRows' = usageRows
            /\ batch[r].done \in Nat /\ batch[r].rows \in Seq([cell : Cells, cost : Nat])
        BY <3>1, <3>4 DEF WriteCell, Attempt
      <4>2. r \in Taken /\ Len(batch[r].rows) = batch[r].done /\ batch[r].done <= Len(r.entries)
        BY <3>1, <4>1 DEF WholeSoFar
      <4>3. e \in [cell : Cells, cost : Nat]
        BY <4>2, <4>1, EntriesOf
      <4>4. b \in Attempt
        <5>1. Append(batch[r].rows, e) \in Seq([cell : Cells, cost : Nat]) /\ batch[r].done + 1 \in Nat
          BY <4>1, <4>3
        <5> HIDE DEF e
        <5> QED  BY <3>1, <5>1 DEF Attempt
      <4>5. batch' = [batch EXCEPT ![r] = b]
        BY <3>4 DEF WriteCell
      <4>6. WholeSoFar(r)'
        <5>1. batch'[r] = b /\ b.phase = "open" /\ b.done = batch[r].done + 1 /\ b.rows = Append(batch[r].rows, e)
          BY <2>1, <3>1, <4>1, <4>5 DEF Attempt
        <5>2. Len(batch[r].rows) = batch[r].done /\ \A i \in 1..batch[r].done : batch[r].rows[i] = r.entries[i]
          BY <3>1, <4>1 DEF WholeSoFar
        <5>3. Len(Append(batch[r].rows, e)) = batch[r].done + 1
          BY <4>1, <4>3, <5>2
        <5>4. \A i \in 1..(batch[r].done + 1) : Append(batch[r].rows, e)[i] = r.entries[i]
          BY <4>1, <4>3, <5>2
        <5> HIDE DEF e, b
        <5> QED  BY <4>2, <4>1, <5>1, <5>3, <5>4, EntriesOf DEF WholeSoFar
      <4> HIDE DEF b
      <4> QED  BY <2>1, <3>2, <4>1, <4>4, <4>5, <4>6
    <3>5. CASE Commit(r)
      <4> DEFINE b == [phase |-> "stored", done |-> 0, rows |-> <<>>]
      <4>1. /\ batch' = [batch EXCEPT ![r] = b]
            /\ usageRows' = FoldLeft(UpsertUsageEvent, usageRows, batch[r].rows)
            /\ batch[r].done = Len(r.entries) /\ batch[r].phase = "open"
        BY <3>5 DEF Commit
      <4>2. r \in Taken
        BY <3>1, <4>1 DEF WholeSoFar
      <4>3. batch[r].rows = r.entries
        <5>1. batch[r].rows \in Seq([cell : Cells, cost : Nat]) /\ r.entries \in Seq([cell : Cells, cost : Nat])
          BY <3>1, <4>2, UsageAssumption DEF Attempt
        <5>2. Len(batch[r].rows) = Len(r.entries) /\ \A i \in 1..Len(r.entries) : batch[r].rows[i] = r.entries[i]
          BY <3>1, <4>1 DEF WholeSoFar
        <5> QED  BY <5>1, <5>2, SeqEqual
      <4>4. \A x \in usageRows : x.cell \in Cells
        <5> SUFFICES ASSUME NEW y \in Taken, usageRows = RowsOf(y) PROVE \A x \in usageRows : x.cell \in Cells
          BY <2>1
        <5> QED  BY EntriesOf DEF RowsOf
      <4>5. usageRows' = RowsOf(r)
        BY <4>2, <4>1, <4>3, <4>4, CommitReplaces
      <4>6. b \in Attempt
        BY DEF Attempt
      <4>7. WholeSoFar(r)'
        BY <2>1, <3>1, <4>1 DEF WholeSoFar
      <4> HIDE DEF b
      <4> QED  BY <3>2, <4>2, <4>1, <4>5, <4>6, <4>7
    <3>6. CASE Rollback(r)
      <4> DEFINE b == [phase |-> "failed", done |-> 0, rows |-> <<>>]
      <4>1. batch' = [batch EXCEPT ![r] = b] /\ usageRows' = usageRows
        BY <3>6 DEF Rollback
      <4>2. b \in Attempt
        BY DEF Attempt
      <4>3. WholeSoFar(r)'
        BY <2>1, <3>1, <4>1 DEF WholeSoFar
      <4> HIDE DEF b
      <4> QED  BY <2>1, <3>2, <4>1, <4>2, <4>3
    <3> QED  BY <2>4, <3>3, <3>4, <3>5, <3>6
  <2> QED  BY <1>2, <2>2, <2>3, <2>4 DEF UsageNext
<1> QED  BY <1>1, <1>2, PTL DEF UsageSpec

\* Nothing reported costs nothing, and the rows of a report what its entries say.
LEMMA RowsCostReport ==
  /\ ListUsageSpend({}) = 0
  /\ \A r \in Taken : ListUsageSpend(RowsOf(r)) = Says(r.entries)
<1>1. ListUsageSpend({}) = 0
  <2>1. PICK g : Sums(g, [r \in {} |-> r.cost], {}, OneOf({})) /\ ListUsageSpend({}) = g[{}]
    BY FS_EmptySet, SpendSums
  <2> QED  BY <2>1 DEF Sums
<1>2. ASSUME NEW r \in Taken
      PROVE  ListUsageSpend(RowsOf(r)) = Says(r.entries)
  <2> DEFINE e == r.entries
             S == DOMAIN e
             R == RowsOf(r)
             m == [i \in S |-> e[i]]
             c == [i \in S |-> e[i].cost]
             d == [x \in R |-> x.cost]
  <2>1. IsFiniteSet(S)
    BY EntriesOf, FS_Interval
  <2>2. IsFiniteSet(R)
    <3>1. m \in Surjection(S, R)
      BY DEF Surjection, RowsOf
    <3> HIDE DEF m, S, R
    <3> QED  BY <2>1, <3>1, FS_Surjection
  <2>3. (\A i \in S : e[i].cost \in Int) /\ (\A x \in R : x.cost \in Int)
    BY EntriesOf DEF RowsOf
  <2>4. \A i \in S : \A j \in S : m[i] = m[j] => i = j
    BY EntriesOf
  <2>5. m \in [S -> R] /\ R = {m[i] : i \in S} /\ \A i \in S : c[i] = d[m[i]]
    BY DEF RowsOf
  <2>6. PICK g : Sums(g, c, S, OneOf(S)) /\ Says(e) = g[S]
    <3> HIDE DEF e
    <3> QED  BY <2>1, <2>3, EntrySums
  <2>7. PICK k : Sums(k, d, R, OneOf(R)) /\ ListUsageSpend(R) = k[R]
    <3> HIDE DEF R
    <3> QED  BY <2>2, <2>3, SpendSums
  <2>8. g[S] = k[{m[i] : i \in S}]
    <3> HIDE DEF S, R, m, c, d, e
    <3> QED  BY <2>4, <2>5, <2>6, <2>7, SumImage
  <2>9. ListUsageSpend(R) = Says(e)
    <3> HIDE DEF S, R, m, e
    <3> QED  BY <2>5, <2>6, <2>7, <2>8
  <2> QED  BY <2>9
<1> QED  BY <1>1, <1>2

\* A report posted again is a refresh and a batch is whole (UpsertUsageEvents, store/usage.go):
\* whatever reports run beside each other, fail, stop with the server or are posted twice,
\* the spend read is nothing yet or exactly what one of them says.
THEOREM SpendIsWhole == UsageSpec => []SpendIsOneReport
<1>1. SpendIsOneReport <=> ListUsageSpend(usageRows) \in {0} \cup {Says(r.entries) : r \in Taken}
  BY DEF SpendIsOneReport, Says
<1>2. UsageInv => SpendIsOneReport
  <2> SUFFICES ASSUME UsageInv PROVE SpendIsOneReport
    OBVIOUS
  <2>1. CASE usageRows = {}
    BY <2>1, RowsCostReport, <1>1
  <2>2. ASSUME NEW r \in Taken, usageRows = RowsOf(r) PROVE SpendIsOneReport
    <3>1. ListUsageSpend(usageRows) = Says(r.entries)
      BY <2>2, RowsCostReport
    <3> QED  BY <3>1, <1>1
  <2> QED  BY <2>1, <2>2 DEF UsageInv
<1> QED  BY <1>2, UsageInvariance, PTL

-------------------------------------------------------------------------------
(* The Gregorian calendar                                                   *)

LeapDay(y) == IF IsLeap(y) THEN 1 ELSE 0

\* The days of a year before a month.
MonthOffset(y, m) == DaysBeforeMonth[m] + (IF m > 2 /\ IsLeap(y) THEN 1 ELSE 0)

\* Quotients round down.
LEMMA FloorOf ==
  ASSUME NEW a \in Int
  PROVE  /\ a \div 4 \in Int /\ 4 * (a \div 4) <= a /\ a < 4 * (a \div 4) + 4
         /\ a \div 100 \in Int /\ 100 * (a \div 100) <= a /\ a < 100 * (a \div 100) + 100
         /\ a \div 400 \in Int /\ 400 * (a \div 400) <= a /\ a < 400 * (a \div 400) + 400
OBVIOUS

\* And so does that of the year before the first.
LEMMA MinusOne == (0 - 1) \div 4 = 0 - 1 /\ (0 - 1) \div 100 = 0 - 1 /\ (0 - 1) \div 400 = 0 - 1
<1> DEFINE a == 0 - 1
<1>1. a \in Int
  OBVIOUS
<1>5. a = 0 - 1
  OBVIOUS
<1> HIDE DEF a
<1>2. /\ a \div 4 \in Int /\ 4 * (a \div 4) <= a /\ a < 4 * (a \div 4) + 4
      /\ a \div 100 \in Int /\ 100 * (a \div 100) <= a /\ a < 100 * (a \div 100) + 100
      /\ a \div 400 \in Int /\ 400 * (a \div 400) <= a /\ a < 400 * (a \div 400) + 400
  BY <1>1, FloorOf
<1> DEFINE p == a \div 4  q == a \div 100  k == a \div 400
<1>3. /\ p \in Int /\ 4 * p <= a /\ a < 4 * p + 4
      /\ q \in Int /\ 100 * q <= a /\ a < 100 * q + 100
      /\ k \in Int /\ 400 * k <= a /\ a < 400 * k + 400
  BY <1>2
<1> HIDE DEF p, q, k
<1>4. p = 0 - 1 /\ q = 0 - 1 /\ k = 0 - 1
  BY <1>1, <1>3, <1>5
<1> QED  BY <1>4 DEF p, q, k, a

\* A quotient by a constant grows by one at its multiples.
LEMMA QuotientStep ==
  ASSUME NEW a \in Nat
  PROVE  /\ a \div 4 \in Nat /\ a \div 100 \in Nat /\ a \div 400 \in Nat
         /\ (a + 1) \div 4 = (a \div 4) + (IF (a + 1) % 4 = 0 THEN 1 ELSE 0)
         /\ (a + 1) \div 100 = (a \div 100) + (IF (a + 1) % 100 = 0 THEN 1 ELSE 0)
         /\ (a + 1) \div 400 = (a \div 400) + (IF (a + 1) % 400 = 0 THEN 1 ELSE 0)
         /\ (a % 400 = 0 => a % 100 = 0) /\ (a % 100 = 0 => a % 4 = 0)
<1>1. a \div 4 \in Nat /\ a \div 100 \in Nat /\ a \div 400 \in Nat
  OBVIOUS
<1>2. (a + 1) \div 4 = (a \div 4) + (IF (a + 1) % 4 = 0 THEN 1 ELSE 0)
  OBVIOUS
<1>3. (a + 1) \div 100 = (a \div 100) + (IF (a + 1) % 100 = 0 THEN 1 ELSE 0)
  OBVIOUS
<1>4. (a + 1) \div 400 = (a \div 400) + (IF (a + 1) % 400 = 0 THEN 1 ELSE 0)
  OBVIOUS
<1>5. (a % 400 = 0 => a % 100 = 0) /\ (a % 100 = 0 => a % 4 = 0)
  OBVIOUS
<1> QED  BY <1>1, <1>2, <1>3, <1>4, <1>5

\* A year has 365 days, or 366.
LEMMA YearLength ==
  ASSUME NEW y \in Nat \ {0}
  PROVE  /\ DaysBeforeYear(y) \in Nat /\ LeapDay(y) \in 0..1
         /\ DaysBeforeYear(y + 1) = DaysBeforeYear(y) + 365 + LeapDay(y)
<1> DEFINE a == y - 1
<1>1. a \in Nat /\ y = a + 1 /\ (y + 1) - 1 = a + 1
  OBVIOUS
<1> HIDE DEF a
<1>2. y \in Nat /\ LeapDay(y) \in 0..1
  BY DEF LeapDay
<1> DEFINE F4 == IF (a + 1) % 4 = 0 THEN 1 ELSE 0
           F100 == IF (a + 1) % 100 = 0 THEN 1 ELSE 0
           F400 == IF (a + 1) % 400 = 0 THEN 1 ELSE 0
<1>3. /\ a \div 4 \in Nat /\ a \div 100 \in Nat /\ a \div 400 \in Nat
      /\ (a + 1) \div 4 = (a \div 4) + F4 /\ (a + 1) \div 100 = (a \div 100) + F100 /\ (a + 1) \div 400 = (a \div 400) + F400
      /\ a \div 100 <= a \div 4
  BY <1>1, QuotientStep
<1>4. LeapDay(y) = F4 - F100 + F400
  <2>1. (y % 400 = 0 => y % 100 = 0) /\ (y % 100 = 0 => y % 4 = 0)
    BY <1>2, QuotientStep
  <2> QED  BY <1>1, <2>1 DEF LeapDay, IsLeap
<1>5. DaysBeforeYear(y) = 365 * a + (a \div 4) - (a \div 100) + (a \div 400)
  BY DEF DaysBeforeYear, a
<1>6. DaysBeforeYear(y + 1) = 365 * (a + 1) + ((a + 1) \div 4) - ((a + 1) \div 100) + ((a + 1) \div 400)
  BY <1>1 DEF DaysBeforeYear
<1> DEFINE p == a \div 4  q == a \div 100  r == a \div 400
<1>7. F4 \in Int /\ F100 \in Int /\ F400 \in Int
  OBVIOUS
<1> HIDE DEF F4, F100, F400, p, q, r
<1>8. p \in Nat /\ q \in Nat /\ r \in Nat /\ q <= p
  BY <1>3 DEF p, q, r
<1>9. DaysBeforeYear(y) = 365 * a + p - q + r
  BY <1>5 DEF p, q, r
<1>10. DaysBeforeYear(y + 1) = 365 * (a + 1) + (p + F4) - (q + F100) + (r + F400)
  BY <1>3, <1>6 DEF p, q, r
<1> QED  BY <1>1, <1>2, <1>4, <1>7, <1>8, <1>9, <1>10

\* Where the years stand, roughly.
LEMMA YearBounds ==
  ASSUME NEW y \in Nat
  PROVE  DaysBeforeYear(y + 1) \in Nat /\ 365 * y <= DaysBeforeYear(y + 1) /\ DaysBeforeYear(y + 1) <= 366 * y
<1> DEFINE p == y \div 4  q == y \div 100  r == y \div 400
<1>1. p \in Nat /\ q \in Nat /\ r \in Nat /\ q <= p /\ r <= q /\ p <= y
  OBVIOUS
<1>2. DaysBeforeYear(y + 1) = 365 * y + p - q + r
  BY DEF DaysBeforeYear
<1> HIDE DEF p, q, r
<1> QED  BY <1>1, <1>2

\* Later years begin later.
LEMMA YearOrder ==
  ASSUME NEW y \in Nat \ {0}, NEW z \in Nat \ {0}, y < z
  PROVE  DaysBeforeYear(y + 1) <= DaysBeforeYear(z)
<1> DEFINE a == y  b == z - 1
           p == a \div 4  q == p \div 25  r == q \div 4
           l == b \div 4  m == l \div 25  n == m \div 4
<1>1. a \in Nat /\ b \in Nat /\ a <= b /\ (y + 1) - 1 = a
  OBVIOUS
<1>2. p = a \div 4 /\ q = a \div 100 /\ r = a \div 400 /\ l = b \div 4 /\ m = b \div 100 /\ n = b \div 400
  BY <1>1
<1>3. p \in Nat /\ q \in Nat /\ r \in Nat /\ l \in Nat /\ m \in Nat /\ n \in Nat
  BY <1>1
<1>4. p <= l
  BY <1>1
<1>5. p - q <= l - m
  <2> HIDE DEF p, l
  <2> QED  BY <1>3, <1>4
<1>6. q <= m
  <2> HIDE DEF p, l
  <2> QED  BY <1>3, <1>4
<1>7. r <= n
  <2> HIDE DEF q, m
  <2> QED  BY <1>3, <1>6
<1>8. DaysBeforeYear(y + 1) = 365 * a + p - q + r /\ DaysBeforeYear(z) = 365 * b + l - m + n
  <2> HIDE DEF p, q, r, l, m, n
  <2> QED  BY <1>1, <1>2 DEF DaysBeforeYear
<1> HIDE DEF a, b, p, q, r, l, m, n
<1> QED  BY <1>1, <1>3, <1>5, <1>7, <1>8

\* The table of the months.
LEMMA MonthTable ==
  ASSUME NEW y \in Nat, NEW m \in 1..12
  PROVE  /\ MonthOffset(y, m) \in 0..335 /\ daysInMonth(y, m) \in 28..31
         /\ MonthOffset(y, 1) = 0 /\ MonthOffset(y, 12) + daysInMonth(y, 12) = 365 + LeapDay(y)
         /\ m < 12 => MonthOffset(y, m + 1) = MonthOffset(y, m) + daysInMonth(y, m)
<1>1. /\ DaysBeforeMonth[1] = 0 /\ DaysBeforeMonth[2] = 31 /\ DaysBeforeMonth[3] = 59 /\ DaysBeforeMonth[4] = 90
      /\ DaysBeforeMonth[5] = 120 /\ DaysBeforeMonth[6] = 151 /\ DaysBeforeMonth[7] = 181 /\ DaysBeforeMonth[8] = 212
      /\ DaysBeforeMonth[9] = 243 /\ DaysBeforeMonth[10] = 273 /\ DaysBeforeMonth[11] = 304 /\ DaysBeforeMonth[12] = 334
  BY DEF DaysBeforeMonth
<1>2. /\ MonthLengths[1] = 31 /\ MonthLengths[2] = 28 /\ MonthLengths[3] = 31 /\ MonthLengths[4] = 30
      /\ MonthLengths[5] = 31 /\ MonthLengths[6] = 30 /\ MonthLengths[7] = 31 /\ MonthLengths[8] = 31
      /\ MonthLengths[9] = 30 /\ MonthLengths[10] = 31 /\ MonthLengths[11] = 30 /\ MonthLengths[12] = 31
  BY DEF MonthLengths
<1> DEFINE leap == IsLeap(y)
<1>3. /\ MonthOffset(y, m) = DaysBeforeMonth[m] + (IF m > 2 /\ leap THEN 1 ELSE 0)
      /\ MonthOffset(y, m + 1) = DaysBeforeMonth[m + 1] + (IF m + 1 > 2 /\ leap THEN 1 ELSE 0)
      /\ daysInMonth(y, m) = (IF m = 2 /\ leap THEN 29 ELSE MonthLengths[m])
      /\ LeapDay(y) = (IF leap THEN 1 ELSE 0)
  BY DEF MonthOffset, daysInMonth, LeapDay
<1>4. MonthOffset(y, 1) = 0 /\ MonthOffset(y, 12) + daysInMonth(y, 12) = 365 + LeapDay(y)
  BY <1>1, <1>2 DEF MonthOffset, daysInMonth, LeapDay
<1> HIDE DEF leap
<1>5. m \in {1, 2, 3, 4, 5, 6, 7, 8, 9, 10, 11, 12}
  OBVIOUS
<1>6. MonthOffset(y, m) \in 0..335 /\ daysInMonth(y, m) \in 28..31
  BY <1>1, <1>2, <1>3, <1>5
<1>7. m < 12 => MonthOffset(y, m + 1) = MonthOffset(y, m) + daysInMonth(y, m)
  BY <1>1, <1>2, <1>3, <1>5
<1> QED  BY <1>4, <1>6, <1>7
\* A day's year is the one that holds it.
LEMMA YearOf ==
  ASSUME NEW n \in Nat \ {0}
  PROVE  Year(n) \in Nat \ {0} /\ DaysBeforeYear(Year(n)) < n /\ n <= DaysBeforeYear(Year(n) + 1)
<1> DEFINE T == {y \in Nat : n <= DaysBeforeYear(y + 1)}
<1>1. n \in T
  <2>1. n \in Nat /\ 365 * n <= DaysBeforeYear(n + 1) /\ DaysBeforeYear(n + 1) \in Nat
    BY YearBounds
  <2> QED  BY <2>1
<1>2. T \in SUBSET Nat /\ T # {}
  BY <1>1
<1> HIDE DEF T
<1>3. PICK y \in T : \A z \in T : y <= z
  BY <1>2, LeastOfNat
<1>4. y \in Nat /\ n <= DaysBeforeYear(y + 1) /\ DaysBeforeYear(y + 1) \in Nat /\ DaysBeforeYear(y + 1) <= 366 * y
  BY <1>3, YearBounds DEF T
<1>5. y # 0
  <2>1. n > 0 /\ n \in Nat
    OBVIOUS
  <2> QED  BY <1>4, <2>1
<1>6. y - 1 \in Nat /\ (y - 1) + 1 = y
  BY <1>4, <1>5
<1>7. DaysBeforeYear(y) \in Nat /\ 365 * (y - 1) <= DaysBeforeYear(y)
  <2> DEFINE x == y - 1
  <2>1. DaysBeforeYear(x + 1) \in Nat /\ 365 * x <= DaysBeforeYear(x + 1)
    BY <1>6, YearBounds
  <2> QED  BY <1>6, <2>1
<1>8. DaysBeforeYear(y) < n
  <2>1. y - 1 \notin T
    <3>1. ~(y <= y - 1)
      BY <1>4
    <3> QED  BY <1>3, <3>1
  <2>2. ~(n <= DaysBeforeYear(y))
    BY <1>6, <2>1 DEF T
  <2> QED  BY <1>7, <2>2
<1>9. y \in (n \div 366)..(n \div 365 + 1)
  <2> DEFINE d == DaysBeforeYear(y)  e == DaysBeforeYear(y + 1)
  <2>1. d \in Nat /\ e \in Nat /\ n <= e /\ e <= 366 * y /\ 365 * (y - 1) <= d /\ d < n
    BY <1>4, <1>7, <1>8
  <2> HIDE DEF d, e
  <2>2. n <= 366 * y /\ 365 * (y - 1) < n
    BY <1>4, <2>1
  <2>3. n \div 366 <= y
    BY <1>4, <2>2
  <2>4. y - 1 <= n \div 365
    BY <1>4, <2>2
  <2>5. n \div 366 \in Int /\ n \div 365 \in Int
    OBVIOUS
  <2> QED  BY <1>4, <2>3, <2>4, <2>5
<1>10. \E x \in (n \div 366)..(n \div 365 + 1) : DaysBeforeYear(x) < n /\ n <= DaysBeforeYear(x + 1)
  BY <1>4, <1>8, <1>9
<1>11. /\ Year(n) \in (n \div 366)..(n \div 365 + 1)
       /\ DaysBeforeYear(Year(n)) < n /\ n <= DaysBeforeYear(Year(n) + 1)
  BY <1>10 DEF Year
<1>12. Year(n) \in Nat
  BY <1>11
<1>13. Year(n) # 0
  <2>1. DaysBeforeYear(0 + 1) \in Nat /\ DaysBeforeYear(0 + 1) <= 366 * 0
    BY YearBounds
  <2> QED  BY <1>11, <2>1
<1> QED  BY <1>11, <1>12, <1>13

\* It is the only one.
LEMMA YearIs ==
  ASSUME NEW n \in Nat \ {0}, NEW y \in Nat \ {0}, DaysBeforeYear(y) < n, n <= DaysBeforeYear(y + 1)
  PROVE  Year(n) = y
<1> DEFINE z == Year(n)
<1>1. z \in Nat \ {0} /\ DaysBeforeYear(z) < n /\ n <= DaysBeforeYear(z + 1)
  BY YearOf
<1>2. /\ DaysBeforeYear(y) \in Nat /\ DaysBeforeYear(z) \in Nat
      /\ DaysBeforeYear(y + 1) = DaysBeforeYear(y) + 365 + LeapDay(y) /\ LeapDay(y) \in 0..1
      /\ DaysBeforeYear(z + 1) = DaysBeforeYear(z) + 365 + LeapDay(z) /\ LeapDay(z) \in 0..1
  BY <1>1, YearLength
<1> HIDE DEF z
<1>3. ~(y < z)
  <2> SUFFICES ASSUME y < z PROVE FALSE
    OBVIOUS
  <2>1. DaysBeforeYear(y + 1) <= DaysBeforeYear(z)
    BY <1>1, YearOrder
  <2> QED  BY <1>1, <1>2, <2>1
<1>4. ~(z < y)
  <2> SUFFICES ASSUME z < y PROVE FALSE
    OBVIOUS
  <2>1. DaysBeforeYear(z + 1) <= DaysBeforeYear(y)
    BY <1>1, YearOrder
  <2> QED  BY <1>1, <1>2, <2>1
<1> QED  BY <1>1, <1>3, <1>4 DEF z

\* A month begins where the one before it ends.
LEMMA MonthSteps ==
  ASSUME NEW y \in Nat
  PROVE  \A k \in 1..12 : /\ MonthOffset(y, k) \in Int /\ daysInMonth(y, k) \in Int /\ daysInMonth(y, k) >= 0
                          /\ k < 12 => MonthOffset(y, k + 1) = MonthOffset(y, k) + daysInMonth(y, k)
<1> TAKE k \in 1..12
<1>1. /\ MonthOffset(y, k) \in 0..335 /\ daysInMonth(y, k) \in 28..31
      /\ k < 12 => MonthOffset(y, k + 1) = MonthOffset(y, k) + daysInMonth(y, k)
  BY MonthTable
<1> DEFINE o == MonthOffset(y, k)  c == daysInMonth(y, k)
<1> HIDE DEF o, c
<1>2. o \in 0..335 /\ c \in 28..31
  BY <1>1 DEF o, c
<1>3. o \in Int /\ c \in Int /\ c >= 0
  BY <1>2
<1> QED  BY <1>1, <1>3 DEF o, c

\* Later months begin later.
LEMMA MonthOrder ==
  ASSUME NEW y \in Nat, NEW m \in 1..12, NEW l \in 1..12, m < l
  PROVE  MonthOffset(y, m) + daysInMonth(y, m) <= MonthOffset(y, l)
<1> DEFINE T == {k \in Nat : k \in 1..12 /\ m < k /\ ~(MonthOffset(y, m) + daysInMonth(y, m) <= MonthOffset(y, k))}
<1>1. \A k \in 1..12 : /\ MonthOffset(y, k) \in Int /\ daysInMonth(y, k) \in Int /\ daysInMonth(y, k) >= 0
                       /\ k < 12 => MonthOffset(y, k + 1) = MonthOffset(y, k) + daysInMonth(y, k)
  BY MonthSteps
<1>2. T = {}
  <2> SUFFICES ASSUME T # {} PROVE FALSE
    OBVIOUS
  <2>1. PICK k \in T : \A j \in T : k <= j
    <3> HIDE DEF T
    <3>1. T \in SUBSET Nat
      BY DEF T
    <3> QED  BY <3>1, LeastOfNat
  <2>2. k \in 1..12 /\ m < k /\ ~(MonthOffset(y, m) + daysInMonth(y, m) <= MonthOffset(y, k)) /\ k - 1 \notin T
    <3>1. ~(k <= k - 1)
      OBVIOUS
    <3> QED  BY <2>1, <3>1
  <2> DEFINE j == k - 1
  <2>3. j \in 1..12 /\ j < 12 /\ k = j + 1 /\ m <= j /\ j \notin T
    BY <2>2
  <2> HIDE DEF j
  <2>4. MonthOffset(y, k) = MonthOffset(y, j) + daysInMonth(y, j) /\ daysInMonth(y, j) >= 0
    BY <1>1, <2>3
  <2>5. CASE m = j
    BY <1>1, <2>2, <2>4, <2>5
  <2>6. CASE m # j
    <3>1. m < j /\ j \in Nat
      BY <2>3, <2>6
    <3>2. MonthOffset(y, m) + daysInMonth(y, m) <= MonthOffset(y, j)
      BY <2>3, <3>1
    <3> QED  BY <1>1, <2>2, <2>3, <2>4, <3>2
  <2> QED  BY <2>5, <2>6
<1>3. l \in Nat /\ l \notin T
  BY <1>2
<1> QED  BY <1>3

\* A day written as year, month and day of the month.
Civil(n, y, m, d) == y \in Nat \ {0} /\ m \in 1..12 /\ d \in 1..daysInMonth(y, m) /\ n = DayNumber(y, m, d)

\* Where it stands in its year.
LEMMA CivilPlace ==
  ASSUME NEW n, NEW y, NEW m, NEW d, Civil(n, y, m, d)
  PROVE  /\ y \in Nat \ {0} /\ m \in 1..12 /\ d \in Nat \ {0} /\ d <= daysInMonth(y, m) /\ daysInMonth(y, m) \in 28..31
         /\ n = DaysBeforeYear(y) + MonthOffset(y, m) + d /\ DaysBeforeYear(y) \in Nat /\ MonthOffset(y, m) \in Nat
         /\ n \in Nat \ {0} /\ DaysBeforeYear(y) < n /\ n <= DaysBeforeYear(y + 1)
<1>1. /\ y \in Nat \ {0} /\ m \in 1..12 /\ d \in 1..daysInMonth(y, m)
      /\ n = DaysBeforeYear(y) + DaysBeforeMonth[m] + (IF m > 2 /\ IsLeap(y) THEN 1 ELSE 0) + d
      /\ MonthOffset(y, m) = DaysBeforeMonth[m] + (IF m > 2 /\ IsLeap(y) THEN 1 ELSE 0)
  BY DEF Civil, DayNumber, MonthOffset
<1>2. /\ DaysBeforeYear(y) \in Nat /\ LeapDay(y) \in 0..1 /\ DaysBeforeYear(y + 1) = DaysBeforeYear(y) + 365 + LeapDay(y)
      /\ MonthOffset(y, m) \in 0..335 /\ daysInMonth(y, m) \in 28..31
      /\ MonthOffset(y, 12) + daysInMonth(y, 12) = 365 + LeapDay(y)
      /\ MonthOffset(y, 12) \in 0..335 /\ daysInMonth(y, 12) \in 28..31
  <2>1. /\ DaysBeforeYear(y) \in Nat /\ LeapDay(y) \in 0..1 /\ DaysBeforeYear(y + 1) = DaysBeforeYear(y) + 365 + LeapDay(y)
    BY <1>1, YearLength
  <2>2. MonthOffset(y, m) \in 0..335 /\ daysInMonth(y, m) \in 28..31
    BY <1>1, MonthTable
  <2>3. 12 \in 1..12
    OBVIOUS
  <2>4. /\ MonthOffset(y, 12) + daysInMonth(y, 12) = 365 + LeapDay(y)
        /\ MonthOffset(y, 12) \in 0..335 /\ daysInMonth(y, 12) \in 28..31
    BY <1>1, <2>3, MonthTable
  <2> QED  BY <2>1, <2>2, <2>4
<1>4. n = DaysBeforeYear(y) + MonthOffset(y, m) + d
  <2> DEFINE x == IF m > 2 /\ IsLeap(y) THEN 1 ELSE 0
             b == DaysBeforeMonth[m]  o == MonthOffset(y, m)  a == DaysBeforeYear(y)
  <2>1. x \in Int /\ d \in Int /\ n = a + b + x + d /\ o = b + x /\ a \in Int /\ o \in Int
    BY <1>1, <1>2
  <2>2. b \in Int
    <3>1. \A k \in 1..12 : DaysBeforeMonth[k] \in Int
      BY DEF DaysBeforeMonth
    <3> QED  BY <1>1, <3>1
  <2> HIDE DEF x, b, o, a
  <2>3. n = a + o + d
    BY <2>1, <2>2
  <2> QED  BY <2>3 DEF a, o
<1>3. MonthOffset(y, m) + daysInMonth(y, m) <= 365 + LeapDay(y)
  <2>1. CASE m = 12
    BY <1>2, <2>1
  <2>2. CASE m # 12
    <3>1. m < 12 /\ 12 \in 1..12
      BY <1>1, <2>2
    <3>2. MonthOffset(y, m) + daysInMonth(y, m) <= MonthOffset(y, 12)
      BY <1>1, <3>1, MonthOrder
    <3> QED  BY <1>2, <3>2
  <2> QED  BY <2>1, <2>2
<1> QED  BY <1>1, <1>2, <1>3, <1>4

\* Dates are ordered by year, month and day.
LEMMA CivilOrder ==
  ASSUME NEW n, NEW y, NEW m, NEW d, Civil(n, y, m, d),
         NEW k, NEW z, NEW l, NEW e, Civil(k, z, l, e)
  PROVE  /\ y < z => n < k
         /\ y = z /\ m < l => n < k
         /\ y = z /\ m = l => (n < k <=> d < e)
<1>1. /\ y \in Nat \ {0} /\ m \in 1..12 /\ d \in Nat \ {0} /\ d <= daysInMonth(y, m) /\ daysInMonth(y, m) \in 28..31
      /\ n = DaysBeforeYear(y) + MonthOffset(y, m) + d /\ DaysBeforeYear(y) \in Nat /\ MonthOffset(y, m) \in Nat
      /\ n \in Nat \ {0} /\ n <= DaysBeforeYear(y + 1)
  BY CivilPlace
<1>2. /\ z \in Nat \ {0} /\ l \in 1..12 /\ e \in Nat \ {0}
      /\ k = DaysBeforeYear(z) + MonthOffset(z, l) + e /\ DaysBeforeYear(z) \in Nat /\ MonthOffset(z, l) \in Nat
      /\ k \in Nat \ {0} /\ DaysBeforeYear(z) < k
  BY CivilPlace
<1>3. ASSUME y < z PROVE n < k
  <2>1. DaysBeforeYear(y + 1) <= DaysBeforeYear(z) /\ DaysBeforeYear(y + 1) \in Int
    BY <1>1, <1>2, <1>3, YearOrder, YearBounds
  <2> QED  BY <1>1, <1>2, <2>1
<1>4. ASSUME y = z, m < l PROVE n < k
  <2>1. MonthOffset(y, m) + daysInMonth(y, m) <= MonthOffset(y, l)
    BY <1>1, <1>2, <1>4, MonthOrder
  <2> QED  BY <1>1, <1>2, <1>4, <2>1
<1>5. ASSUME y = z, m = l PROVE n < k <=> d < e
  BY <1>1, <1>2, <1>5
<1> QED  BY <1>3, <1>4, <1>5

\* The year, month and day of a date are those it is written with.
LEMMA CivilIs ==
  ASSUME NEW n, NEW y, NEW m, NEW d, Civil(n, y, m, d)
  PROVE  n \in Nat \ {0} /\ Year(n) = y /\ Month(n) = m /\ DayOf(n) = d
<1>1. /\ y \in Nat \ {0} /\ m \in 1..12 /\ d \in Nat \ {0} /\ d <= daysInMonth(y, m) /\ daysInMonth(y, m) \in 28..31
      /\ n = DaysBeforeYear(y) + MonthOffset(y, m) + d /\ DaysBeforeYear(y) \in Nat /\ MonthOffset(y, m) \in Nat
      /\ n \in Nat \ {0} /\ DaysBeforeYear(y) < n /\ n <= DaysBeforeYear(y + 1)
  BY CivilPlace
<1>2. Year(n) = y
  BY <1>1, YearIs
<1>3. \A l \in 1..12 : Civil(DayNumber(y, l, 1), y, l, 1) /\ daysInMonth(y, l) \in 28..31
  <2> TAKE l \in 1..12
  <2>1. daysInMonth(y, l) \in 28..31
    BY <1>1, MonthTable
  <2> QED  BY <1>1, <2>1 DEF Civil
<1>4. ASSUME NEW l \in 1..12
      PROVE  (DayNumber(y, l, 1) <= n /\ n < DayNumber(y, l, 1) + daysInMonth(y, l)) <=> l = m
  <2> DEFINE s == DayNumber(y, l, 1)
  <2>1. /\ s \in Nat \ {0} /\ s = DaysBeforeYear(y) + MonthOffset(y, l) + 1 /\ MonthOffset(y, l) \in Nat /\ daysInMonth(y, l) \in 28..31
    BY <1>3, CivilPlace
  <2> HIDE DEF s
  <2>2. CASE l = m
    <3>1. s <= n /\ n < s + daysInMonth(y, l)
      BY <1>1, <2>1, <2>2
    <3> QED  BY <2>2, <3>1 DEF s
  <2>3. CASE l < m
    <3>1. MonthOffset(y, l) + daysInMonth(y, l) <= MonthOffset(y, m)
      BY <1>1, <2>3, MonthOrder
    <3>2. ~(n < s + daysInMonth(y, l)) /\ l # m
      BY <1>1, <2>1, <2>3, <3>1
    <3> QED  BY <3>2 DEF s
  <2>4. CASE m < l
    <3>1. MonthOffset(y, m) + daysInMonth(y, m) <= MonthOffset(y, l)
      BY <1>1, <2>4, MonthOrder
    <3>2. ~(s <= n) /\ l # m
      BY <1>1, <2>1, <2>4, <3>1
    <3> QED  BY <3>2 DEF s
  <2>5. l = m \/ l < m \/ m < l
    BY <1>1
  <2> QED  BY <2>2, <2>3, <2>4, <2>5 DEF s
<1>5. Month(n) = m
  BY <1>1, <1>2, <1>4 DEF Month
<1>6. DayOf(n) = d
  <2>1. DayOf(n) = n - DayNumber(y, m, 1) + 1
    BY <1>2, <1>5 DEF DayOf
  <2>2. DayNumber(y, m, 1) = DaysBeforeYear(y) + MonthOffset(y, m) + 1
    BY <1>1, <1>3, CivilPlace
  <2> QED  BY <1>1, <2>1, <2>2
<1> QED  BY <1>1, <1>2, <1>5, <1>6

\* Every day is written so.
LEMMA CivilOf ==
  ASSUME NEW n \in Nat \ {0}
  PROVE  Civil(n, Year(n), Month(n), DayOf(n))
<1> DEFINE y == Year(n)
           k == n - DaysBeforeYear(y)
           T == {l \in Nat : l \in 1..12 /\ k <= MonthOffset(y, l) + daysInMonth(y, l)}
<1>1. y \in Nat \ {0} /\ DaysBeforeYear(y) < n /\ n <= DaysBeforeYear(y + 1)
  BY YearOf
<1> HIDE DEF y
<1>2. DaysBeforeYear(y) \in Nat /\ DaysBeforeYear(y + 1) = DaysBeforeYear(y) + 365 + LeapDay(y) /\ LeapDay(y) \in 0..1
  BY <1>1, YearLength
<1>3. k \in Nat \ {0} /\ k <= 365 + LeapDay(y) /\ n = DaysBeforeYear(y) + k
  BY <1>1, <1>2
<1> HIDE DEF k
<1>4. 12 \in T
  <2>1. 12 \in 1..12
    OBVIOUS
  <2>2. MonthOffset(y, 12) + daysInMonth(y, 12) = 365 + LeapDay(y)
    BY <1>1, <2>1, MonthTable
  <2> QED  BY <1>3, <2>1, <2>2
<1>5. PICK m \in T : \A l \in T : m <= l
  <2>1. T \in SUBSET Nat /\ T # {}
    BY <1>4
  <2> HIDE DEF T
  <2> QED  BY <2>1, LeastOfNat
<1>6. /\ m \in 1..12 /\ k <= MonthOffset(y, m) + daysInMonth(y, m)
      /\ MonthOffset(y, m) \in 0..335 /\ daysInMonth(y, m) \in 28..31
  <2>1. m \in 1..12 /\ k <= MonthOffset(y, m) + daysInMonth(y, m)
    BY <1>5
  <2> HIDE DEF T
  <2> QED  BY <1>1, <2>1, MonthTable
<1>7. MonthOffset(y, m) < k
  <2>1. CASE m = 1
    <3>1. MonthOffset(y, 1) = 0
      BY <1>1, <1>6, MonthTable
    <3> QED  BY <1>3, <2>1, <3>1
  <2>2. CASE m # 1
    <3> DEFINE j == m - 1
    <3>1. j \in 1..12 /\ j < 12 /\ j + 1 = m /\ ~(m <= j) /\ j \in Nat
      BY <1>6, <2>2
    <3>2. j \notin T
      <4> HIDE DEF T, j
      <4> QED  BY <1>5, <3>1
    <3> HIDE DEF j
    <3>3. ~(k <= MonthOffset(y, j) + daysInMonth(y, j))
      BY <3>1, <3>2
    <3>4. MonthOffset(y, m) = MonthOffset(y, j) + daysInMonth(y, j)
      BY <1>1, <3>1, MonthTable
    <3>5. ~(k <= MonthOffset(y, m))
      BY <3>3, <3>4
    <3> QED  BY <1>3, <1>6, <3>5
  <2> QED  BY <2>1, <2>2
<1> HIDE DEF T
<1> DEFINE d == k - MonthOffset(y, m)
<1>8. d \in 1..daysInMonth(y, m) /\ k = MonthOffset(y, m) + d
  BY <1>3, <1>6, <1>7
<1> HIDE DEF d
<1>9. DayNumber(y, m, d) = DaysBeforeYear(y) + MonthOffset(y, m) + d
  <2>1. Civil(DayNumber(y, m, d), y, m, d)
    BY <1>1, <1>6, <1>8 DEF Civil
  <2> QED  BY <2>1, CivilPlace
<1>10. n = DayNumber(y, m, d)
  <2>1. d \in Int
    BY <1>6, <1>8
  <2> QED  BY <1>2, <1>3, <1>6, <1>8, <1>9, <2>1
<1>11. Civil(n, y, m, d)
  BY <1>1, <1>6, <1>8, <1>10 DEF Civil
<1>12. Month(n) = m /\ DayOf(n) = d
  BY <1>11, CivilIs
<1> QED  BY <1>11, <1>12 DEF y

\* The month changes after its last day.
LEMMA LastOfMonth ==
  ASSUME NEW n \in Nat \ {0}
  PROVE  Month(n + 1) # Month(n) <=> DayOf(n) = daysInMonth(Year(n), Month(n))
<1> DEFINE y == Year(n)  m == Month(n)  d == DayOf(n)
<1>1. Civil(n, y, m, d)
  BY CivilOf
<1> HIDE DEF y, m, d
<1>2. /\ y \in Nat \ {0} /\ m \in 1..12 /\ d \in Nat \ {0} /\ d <= daysInMonth(y, m) /\ daysInMonth(y, m) \in 28..31
      /\ n = DaysBeforeYear(y) + MonthOffset(y, m) + d /\ DaysBeforeYear(y) \in Nat /\ MonthOffset(y, m) \in Nat
  BY <1>1, CivilPlace
<1>3. \A z \in Nat \ {0}, l \in 1..12, e \in Nat \ {0} :
        e <= daysInMonth(z, l) => Civil(DaysBeforeYear(z) + MonthOffset(z, l) + e, z, l, e)
  <2> TAKE z \in Nat \ {0}, l \in 1..12, e \in Nat \ {0}
  <2> SUFFICES ASSUME e <= daysInMonth(z, l) PROVE Civil(DaysBeforeYear(z) + MonthOffset(z, l) + e, z, l, e)
    OBVIOUS
  <2>1. daysInMonth(z, l) \in 28..31
    BY MonthTable
  <2>2. e \in 1..daysInMonth(z, l)
    BY <2>1
  <2>3. Civil(DayNumber(z, l, e), z, l, e)
    BY <2>2 DEF Civil
  <2>4. DayNumber(z, l, e) = DaysBeforeYear(z) + MonthOffset(z, l) + e
    BY <2>3, CivilPlace
  <2> QED  BY <2>3, <2>4
<1>4. CASE d < daysInMonth(y, m)
  <2>1. d + 1 \in Nat \ {0} /\ d + 1 <= daysInMonth(y, m) /\ n + 1 = DaysBeforeYear(y) + MonthOffset(y, m) + (d + 1)
    BY <1>2, <1>4
  <2>2. Civil(n + 1, y, m, d + 1)
    BY <1>2, <1>3, <2>1
  <2>3. Month(n + 1) = m
    BY <2>2, CivilIs
  <2>4. d # daysInMonth(y, m)
    BY <1>2, <1>4
  <2> QED  BY <2>3, <2>4 DEF y, m, d
<1>5. CASE d = daysInMonth(y, m)
  <2>1. CASE m < 12
    <3> DEFINE l == m + 1
    <3>1. l \in 1..12 /\ l # m /\ MonthOffset(y, l) = MonthOffset(y, m) + daysInMonth(y, m)
      BY <1>2, <2>1, MonthTable
    <3> HIDE DEF l
    <3>2. n + 1 = DaysBeforeYear(y) + MonthOffset(y, l) + 1 /\ 1 \in Nat \ {0} /\ 1 <= daysInMonth(y, l)
      <4>1. daysInMonth(y, l) \in 28..31
        BY <1>2, <3>1, MonthTable
      <4> QED  BY <1>2, <1>5, <3>1, <4>1
    <3>3. Civil(n + 1, y, l, 1)
      BY <1>2, <1>3, <3>1, <3>2
    <3>4. Month(n + 1) = l
      BY <3>3, CivilIs
    <3> QED  BY <1>5, <3>1, <3>4 DEF y, m, d
  <2>2. CASE m = 12
    <3> DEFINE z == y + 1
    <3>1. z \in Nat \ {0} /\ DaysBeforeYear(z) = DaysBeforeYear(y) + 365 + LeapDay(y) /\ LeapDay(y) \in 0..1
      BY <1>2, YearLength
    <3>2. MonthOffset(y, 12) + daysInMonth(y, 12) = 365 + LeapDay(y)
      BY <1>2, <2>2, MonthTable
    <3> HIDE DEF z
    <3>3. 1 \in 1..12
      OBVIOUS
    <3>4. MonthOffset(z, 1) = 0 /\ daysInMonth(z, 1) \in 28..31
      BY <3>1, <3>3, MonthTable
    <3>5. n + 1 = DaysBeforeYear(z) + MonthOffset(z, 1) + 1 /\ 1 \in Nat \ {0} /\ 1 <= daysInMonth(z, 1)
      BY <1>2, <1>5, <2>2, <3>1, <3>2, <3>4
    <3>6. Civil(n + 1, z, 1, 1)
      BY <1>3, <3>1, <3>3, <3>5
    <3>7. Month(n + 1) = 1
      BY <3>6, CivilIs
    <3> QED  BY <1>5, <2>2, <3>7 DEF y, m, d
  <2> QED  BY <1>2, <2>1, <2>2
<1> QED  BY <1>2, <1>4, <1>5

-------------------------------------------------------------------------------
(* Dates in a month, and the cycles that renew in one                       *)

\* The date safeMonthDate finds: the day asked for, or the last of the month.
LEMMA SafeDate ==
  ASSUME NEW y \in Nat \ {0}, NEW m \in 1..12, NEW d \in Nat \ {0}
  PROVE  /\ Civil(safeMonthDate(y, m, d), y, m, Smaller(d, daysInMonth(y, m)))
         /\ safeMonthDate(y, m, d) \in Nat \ {0}
         /\ Year(safeMonthDate(y, m, d)) = y /\ Month(safeMonthDate(y, m, d)) = m
<1> DEFINE c == daysInMonth(y, m)
           e == Smaller(d, c)
<1>1. c \in 28..31
  BY MonthTable
<1>2. safeMonthDate(y, m, d) = DayNumber(y, m, IF (IF d > c THEN c ELSE d) < 1 THEN 1 ELSE (IF d > c THEN c ELSE d))
  BY DEF safeMonthDate
<1> HIDE DEF c
<1>3. e \in 1..c /\ e = (IF (IF d > c THEN c ELSE d) < 1 THEN 1 ELSE (IF d > c THEN c ELSE d))
  BY <1>1 DEF Smaller
<1>4. Civil(safeMonthDate(y, m, d), y, m, e)
  BY <1>2, <1>3 DEF Civil, c
<1> QED  BY <1>4, CivilIs DEF c

\* It is no later than its year, in the first years too.
LEMMA SafeInYear ==
  ASSUME NEW y \in Nat, NEW m \in 1..12, NEW d \in Nat \ {0}
  PROVE  safeMonthDate(y, m, d) \in Int /\ safeMonthDate(y, m, d) <= DaysBeforeYear(y + 1)
<1>1. CASE y # 0
  <2>1. y \in Nat \ {0}
    BY <1>1
  <2>2. Civil(safeMonthDate(y, m, d), y, m, Smaller(d, daysInMonth(y, m)))
    BY <2>1, SafeDate
  <2> QED  BY <2>2, CivilPlace
<1>2. CASE y = 0
  <2> DEFINE c == daysInMonth(0, m)
             e == IF (IF d > c THEN c ELSE d) < 1 THEN 1 ELSE (IF d > c THEN c ELSE d)
             o == MonthOffset(0, m)
             z == DaysBeforeYear(0)
  <2>1. c \in 28..31 /\ o \in 0..335 /\ 0 \in Nat
    BY MonthTable
  <2>2. o + c <= 366
    <3>1. MonthOffset(0, 12) + daysInMonth(0, 12) = 365 + LeapDay(0) /\ LeapDay(0) \in 0..1 /\ 12 \in 1..12
      BY <2>1, MonthTable DEF LeapDay
    <3>2. MonthOffset(0, 12) \in 0..335 /\ daysInMonth(0, 12) \in 28..31
      BY <2>1, <3>1, MonthTable
    <3>3. CASE m = 12
      BY <3>1, <3>3
    <3>4. CASE m # 12
      <4>1. o + c <= MonthOffset(0, 12)
        <5>1. m < 12
          BY <3>4
        <5> QED  BY <2>1, <3>1, <5>1, MonthOrder
      <4> QED  BY <2>1, <3>1, <3>2, <4>1
    <3> QED  BY <3>3, <3>4
  <2>3. z = 0 - 366 /\ DaysBeforeYear(0 + 1) = 0
    <3>1. (0 - 1) \div 4 = 0 - 1 /\ (0 - 1) \div 100 = 0 - 1 /\ (0 - 1) \div 400 = 0 - 1
      BY MinusOne
    <3>2. z = 365 * (0 - 1) + ((0 - 1) \div 4) - ((0 - 1) \div 100) + ((0 - 1) \div 400)
      BY DEF DaysBeforeYear
    <3>3. z = 365 * (0 - 1) + (0 - 1) - (0 - 1) + (0 - 1)
      BY <3>1, <3>2
    <3>4. DaysBeforeYear(0 + 1) \in Nat /\ DaysBeforeYear(0 + 1) <= 366 * 0
      BY YearBounds
    <3> QED  BY <3>3, <3>4
  <2>4. safeMonthDate(y, m, d) = DayNumber(0, m, e)
    BY <1>2 DEF safeMonthDate
  <2>5. DayNumber(0, m, e) = z + DaysBeforeMonth[m] + (IF m > 2 /\ IsLeap(0) THEN 1 ELSE 0) + e
    BY DEF DayNumber
  <2>6. o = DaysBeforeMonth[m] + (IF m > 2 /\ IsLeap(0) THEN 1 ELSE 0) /\ DaysBeforeMonth[m] \in Int
    <3>1. \A k \in 1..12 : DaysBeforeMonth[k] \in Int
      BY DEF DaysBeforeMonth
    <3> QED  BY <3>1 DEF MonthOffset
  <2> HIDE DEF c
  <2>7. e \in Int /\ e <= c
    BY <2>1
  <2> HIDE DEF e, o, z
  <2>8. DayNumber(0, m, e) = z + o + e
    <3> DEFINE x == IF m > 2 /\ IsLeap(0) THEN 1 ELSE 0  b == DaysBeforeMonth[m]
    <3>1. x \in Int /\ b \in Int /\ z \in Int /\ DayNumber(0, m, e) = z + b + x + e /\ o = b + x
      BY <2>3, <2>5, <2>6
    <3> HIDE DEF x, b
    <3> QED  BY <2>7, <3>1
  <2> QED  BY <1>2, <2>1, <2>2, <2>3, <2>4, <2>7, <2>8
<1> QED  BY <1>1, <1>2

\* Days in order are in order of year, and of month in a year.
LEMMA YearsRise ==
  ASSUME NEW n \in Nat \ {0}, NEW k \in Nat \ {0}, n <= k
  PROVE  /\ Year(n) \in Nat \ {0} /\ Year(k) \in Nat \ {0} /\ Month(n) \in 1..12 /\ Month(k) \in 1..12
         /\ Year(n) <= Year(k) /\ (Year(n) = Year(k) => Month(n) <= Month(k))
<1>1. Civil(n, Year(n), Month(n), DayOf(n)) /\ Civil(k, Year(k), Month(k), DayOf(k))
  BY CivilOf
<1>2. /\ Year(n) \in Nat \ {0} /\ Year(k) \in Nat \ {0} /\ Month(n) \in 1..12 /\ Month(k) \in 1..12
  BY <1>1, CivilPlace
<1>3. ~(k < n)
  OBVIOUS
<1>4. ~(Year(k) < Year(n)) /\ ~(Year(k) = Year(n) /\ Month(k) < Month(n))
  BY <1>1, <1>3, CivilOrder
<1> QED  BY <1>2, <1>4

\* A day of the month, clamped to its end, said of a day and found by safeMonthDate.
LEMMA ClampedDay ==
  ASSUME NEW n \in Nat \ {0}, NEW d \in Nat \ {0}
  PROVE  (DayOf(n) = d \/ (d > DayOf(n) /\ Month(n + 1) # Month(n))) <=> n = safeMonthDate(Year(n), Month(n), d)
<1> DEFINE y == Year(n)  m == Month(n)  e == DayOf(n)
           c == daysInMonth(y, m)
           u == safeMonthDate(y, m, d)
<1>1. Civil(n, y, m, e)
  BY CivilOf
<1>2. Month(n + 1) # m <=> e = c
  BY LastOfMonth
<1> HIDE DEF y, m, e
<1>3. y \in Nat \ {0} /\ m \in 1..12 /\ e \in Nat \ {0} /\ e <= c /\ c \in 28..31
  BY <1>1, CivilPlace
<1>4. Civil(u, y, m, Smaller(d, c))
  BY <1>3, SafeDate
<1>5. n = u <=> e = Smaller(d, c)
  <2>1. n = u => e = Smaller(d, c)
    BY <1>1, <1>4, CivilIs
  <2>2. n = DayNumber(y, m, e) /\ u = DayNumber(y, m, Smaller(d, c))
    BY <1>1, <1>4 DEF Civil
  <2> QED  BY <2>1, <2>2
<1> HIDE DEF c, u
<1>6. e = Smaller(d, c) <=> (e = d \/ (d > e /\ e = c))
  BY <1>3 DEF Smaller
<1> QED  BY <1>2, <1>5, <1>6 DEF y, m, e, c, u

\* The renewal a schedule should name from a day on: the first.
IsEarliest(s, t, u) ==
  u \in Nat \ {0} /\ u >= t /\ IsRenewal(s, u) /\ \A n \in t..(u - 1) : ~IsRenewal(s, n)

\* The renewal before it is no later.
Precedes(s, u) == before(s, u) \in Int /\ before(s, u) <= u

\* A weekly plan renews on its day of the week, a week after the last time.
LEMMA WeeklyNext ==
  ASSUME NEW s, s.cycle = "weekly", s.day \in 1..7, NEW t \in Nat \ {0}
  PROVE  IsEarliest(s, t, onOrAfter(s, t)) /\ Precedes(s, onOrAfter(s, t))
<1> DEFINE u == onOrAfter(s, t)
           d == s.day
           w == ((t - 1) % 7) + 1
<1>1. u = t + (IF d - w < 0 THEN d - w + 7 ELSE d - w)
  BY DEF onOrAfter, isoWeekday
<1>2. \A n : IsRenewal(s, n) <=> ((n - 1) % 7) + 1 = d
  BY DEF IsRenewal, isoWeekday
<1>3. before(s, u) = u - 7
  BY DEF before
<1>4. d \in 1..7
  OBVIOUS
<1> HIDE DEF u, d
<1>5. w \in 1..7
  OBVIOUS
<1>6. u \in Nat \ {0} /\ u >= t /\ u < t + 7
  <2> HIDE DEF w
  <2> QED  BY <1>1, <1>4, <1>5
<1>7. ((u - 1) % 7) + 1 = d
  BY <1>1, <1>4
<1>8. ASSUME NEW n \in t..(u - 1) PROVE ((n - 1) % 7) + 1 # d
  <2>1. n \in Int /\ t <= n /\ n < u /\ u < n + 7
    BY <1>6
  <2> QED  BY <1>6, <1>7, <2>1
<1> QED  BY <1>2, <1>3, <1>6, <1>7, <1>8 DEF u, IsEarliest, Precedes

\* The month a schedule moves to: this one, the next, the one before.
LEMMA ShiftFacts ==
  ASSUME NEW t \in Nat \ {0}, NEW d \in Nat \ {0}
  PROVE  /\ shiftMonth(t, 0, d) = safeMonthDate(Year(t), Month(t), d)
         /\ Month(t) < 12 => shiftMonth(t, 1, d) = safeMonthDate(Year(t), Month(t) + 1, d)
         /\ Month(t) = 12 => shiftMonth(t, 1, d) = safeMonthDate(Year(t) + 1, 1, d)
         /\ Month(t) > 1 => shiftMonth(t, -1, d) = safeMonthDate(Year(t), Month(t) - 1, d)
         /\ Month(t) = 1 => shiftMonth(t, -1, d) = safeMonthDate(Year(t) - 1, 12, d)
<1> DEFINE y == Year(t)  m == Month(t)
           Moved(a) == safeMonthDate(y + a \div 12, (a % 12) + 1, d)
<1>1. y \in Nat \ {0} /\ m \in 1..12
  BY YearsRise
<1>2. /\ shiftMonth(t, 0, d) = Moved(m - 1 + 0)
      /\ shiftMonth(t, 1, d) = Moved(m - 1 + 1)
      /\ shiftMonth(t, -1, d) = Moved(m - 1 + (-1))
  BY DEF shiftMonth
<1> HIDE DEF y, m
<1>3. \A a \in Int : /\ a \in 0..11 => a \div 12 = 0 /\ a % 12 = a
                     /\ a = 12 => a \div 12 = 1 /\ a % 12 = 0
                     /\ a + 1 = 0 => a \div 12 = 0 - 1 /\ a % 12 = 11
  <2> TAKE a \in Int
  <2> DEFINE q == a \div 12  r == a % 12
  <2>1. q \in Int /\ r \in 0..11 /\ a = 12 * q + r
    OBVIOUS
  <2> HIDE DEF q, r
  <2>2. /\ a \in 0..11 => q = 0 /\ r = a
        /\ a = 12 => q = 1 /\ r = 0
        /\ a + 1 = 0 => q = 0 - 1 /\ r = 11
    BY <2>1
  <2> QED  BY <2>2 DEF q, r
<1>4. shiftMonth(t, 0, d) = safeMonthDate(y, m, d)
  <2> DEFINE a == m - 1 + 0
  <2>1. a \in Int /\ a \in 0..11 /\ a + 1 = m
    BY <1>1
  <2> HIDE DEF a
  <2>2. a \div 12 = 0 /\ a % 12 = a
    BY <1>3, <2>1
  <2>3. y + a \div 12 = y /\ (a % 12) + 1 = m
    BY <1>1, <2>1, <2>2
  <2> QED  BY <1>2, <2>3 DEF a
<1>5. ASSUME m < 12 PROVE shiftMonth(t, 1, d) = safeMonthDate(y, m + 1, d)
  <2> DEFINE a == m - 1 + 1
  <2>1. a \in Int /\ a \in 0..11 /\ a = m
    BY <1>1, <1>5
  <2> HIDE DEF a
  <2>2. a \div 12 = 0 /\ a % 12 = a
    BY <1>3, <2>1
  <2>3. y + a \div 12 = y /\ (a % 12) + 1 = m + 1
    BY <1>1, <2>1, <2>2
  <2> QED  BY <1>2, <2>3 DEF a
<1>6. ASSUME m = 12 PROVE shiftMonth(t, 1, d) = safeMonthDate(y + 1, 1, d)
  <2> DEFINE a == m - 1 + 1
  <2>1. a \in Int /\ a = 12
    BY <1>1, <1>6
  <2> HIDE DEF a
  <2>2. a \div 12 = 1 /\ a % 12 = 0
    BY <1>3, <2>1
  <2>3. y + a \div 12 = y + 1 /\ (a % 12) + 1 = 1
    BY <1>1, <2>2
  <2> QED  BY <1>2, <2>3 DEF a
<1>7. ASSUME m > 1 PROVE shiftMonth(t, -1, d) = safeMonthDate(y, m - 1, d)
  <2> DEFINE a == m - 1 + (-1)
  <2>1. a \in Int /\ a \in 0..11 /\ a + 1 = m - 1
    BY <1>1, <1>7
  <2> HIDE DEF a
  <2>2. a \div 12 = 0 /\ a % 12 = a
    BY <1>3, <2>1
  <2>3. y + a \div 12 = y /\ (a % 12) + 1 = m - 1
    BY <1>1, <2>1, <2>2
  <2> QED  BY <1>2, <2>3 DEF a
<1>8. ASSUME m = 1 PROVE shiftMonth(t, -1, d) = safeMonthDate(y - 1, 12, d)
  <2> DEFINE a == m - 1 + (-1)
  <2>1. a \in Int /\ a + 1 = 0
    BY <1>1, <1>8
  <2> HIDE DEF a
  <2>2. a \div 12 = 0 - 1 /\ a % 12 = 11
    BY <1>3, <2>1
  <2>3. y + a \div 12 = y - 1 /\ (a % 12) + 1 = 12
    BY <1>1, <2>2
  <2> QED  BY <1>2, <2>3 DEF a
<1> QED  BY <1>4, <1>5, <1>6, <1>7, <1>8 DEF y, m

\* Of two clamped dates in different months the earlier month's comes first.
LEMMA SafeOrder ==
  ASSUME NEW y \in Nat \ {0}, NEW m \in 1..12, NEW z \in Nat \ {0}, NEW l \in 1..12, NEW d \in Nat \ {0}, NEW n \in Nat \ {0}
  PROVE  /\ (y < Year(n) \/ (y = Year(n) /\ m < Month(n))) => safeMonthDate(y, m, d) < n
         /\ (Year(n) < y \/ (Year(n) = y /\ Month(n) < m)) => n < safeMonthDate(y, m, d)
<1>1. Civil(safeMonthDate(y, m, d), y, m, Smaller(d, daysInMonth(y, m)))
  BY SafeDate
<1>2. Civil(n, Year(n), Month(n), DayOf(n))
  BY CivilOf
<1> QED  BY <1>1, <1>2, CivilOrder

\* A monthly plan renews on its day of the month, or the last one.
LEMMA MonthlyNext ==
  ASSUME NEW s, s.cycle = "monthly", s.day \in 1..31, NEW t \in Nat \ {0}
  PROVE  IsEarliest(s, t, onOrAfter(s, t)) /\ Precedes(s, onOrAfter(s, t))
<1> DEFINE d == s.day
           y == Year(t)  m == Month(t)  e == DayOf(t)
           c == daysInMonth(y, m)
           this == safeMonthDate(y, m, d)
           u == onOrAfter(s, t)
<1>1. d \in Nat \ {0}
  OBVIOUS
<1>2. u = shiftMonth(t, IF e > d THEN 1 ELSE 0, d) /\ before(s, u) = shiftMonth(u, -1, d)
  BY DEF onOrAfter, before
<1>3. \A n \in Nat \ {0} : IsRenewal(s, n) <=> n = safeMonthDate(Year(n), Month(n), d)
  <2> TAKE n \in Nat \ {0}
  <2>1. IsRenewal(s, n) <=> (DayOf(n) = d \/ (d > DayOf(n) /\ Month(n + 1) # Month(n)))
    BY DEF IsRenewal
  <2> QED  BY <1>1, <2>1, ClampedDay
<1> HIDE DEF d, u
<1>4. Civil(t, y, m, e)
  BY CivilOf
<1>5. y \in Nat \ {0} /\ m \in 1..12 /\ e \in Nat \ {0} /\ e <= c /\ c \in 28..31
  BY <1>4, CivilPlace
<1>6. Civil(this, y, m, Smaller(d, c)) /\ this \in Nat \ {0} /\ Year(this) = y /\ Month(this) = m
  BY <1>1, <1>5, SafeDate
<1>7. this < t <=> Smaller(d, c) < e
  BY <1>4, <1>6, CivilOrder
<1>8. Smaller(d, c) < e <=> d < e
  <2> HIDE DEF c
  <2> QED  BY <1>1, <1>5 DEF Smaller
<1>9. ASSUME ~(e > d) PROVE IsEarliest(s, t, u)
  <2>1. u = this
    BY <1>1, <1>2, <1>9, ShiftFacts
  <2>2. u \in Nat \ {0} /\ u >= t
    <3> HIDE DEF this
    <3>1. ~(d < e)
      BY <1>1, <1>5, <1>9
    <3>2. ~(this < t)
      BY <1>7, <1>8, <3>1
    <3> QED  BY <1>6, <2>1, <3>2
  <2>3. IsRenewal(s, u)
    BY <1>3, <1>6, <2>1
  <2>4. ASSUME NEW n \in t..(u - 1) PROVE ~IsRenewal(s, n)
    <3>1. n \in Nat \ {0} /\ t <= n /\ n <= u /\ n # u
      BY <2>2
    <3>2. /\ Year(n) \in Nat \ {0} /\ Month(n) \in 1..12 /\ y <= Year(n) /\ (y = Year(n) => m <= Month(n))
          /\ Year(n) <= y /\ (Year(n) = y => Month(n) <= m)
      <4>1. y <= Year(n) /\ (y = Year(n) => m <= Month(n))
        BY <3>1, YearsRise
      <4>2. Year(n) \in Nat \ {0} /\ Month(n) \in 1..12 /\ Year(n) <= Year(u) /\ (Year(n) = Year(u) => Month(n) <= Month(u))
        BY <2>2, <3>1, YearsRise
      <4> QED  BY <1>6, <2>1, <4>1, <4>2
    <3>3. Year(n) = y /\ Month(n) = m
      BY <1>5, <3>2
    <3> QED  BY <1>3, <2>1, <3>1, <3>3
  <2> HIDE DEF this
  <2> QED  BY <2>2, <2>3, <2>4 DEF IsEarliest
<1>10. ASSUME e > d PROVE IsEarliest(s, t, u)
  <2>1. this < t
    <3>1. d < e
      BY <1>1, <1>5, <1>10
    <3> QED  BY <1>7, <1>8, <3>1
  <2> HIDE DEF this
  <2> DEFINE z == IF m < 12 THEN y ELSE y + 1
             l == IF m < 12 THEN m + 1 ELSE 1
  <2>2. z \in Nat \ {0} /\ l \in 1..12 /\ (y < z \/ (y = z /\ m < l))
    BY <1>5
  <2>3. u = safeMonthDate(z, l, d)
    <3>1. CASE m < 12
      BY <1>1, <1>2, <1>10, <3>1, ShiftFacts
    <3>2. CASE m = 12
      BY <1>1, <1>2, <1>10, <3>2, ShiftFacts
    <3> QED  BY <1>5, <3>1, <3>2
  <2>4. \A n \in Nat \ {0} : Year(n) \in Nat \ {0} /\ Month(n) \in 1..12 /\ y <= Year(n) /\ (y = Year(n) => m <= Month(n))
                /\ Year(n) <= z /\ (Year(n) = z => Month(n) <= l)
              => (Year(n) = y /\ Month(n) = m) \/ (Year(n) = z /\ Month(n) = l)
    <3> TAKE n \in Nat \ {0}
    <3> DEFINE a == Year(n)  b == Month(n)
    <3> HIDE DEF a, b
    <3>1. a \in Nat \ {0} /\ b \in 1..12 /\ y <= a /\ (y = a => m <= b) /\ a <= z /\ (a = z => b <= l)
          => (a = y /\ b = m) \/ (a = z /\ b = l)
      BY <1>5
    <3> QED  BY <3>1 DEF a, b
  <2> HIDE DEF z, l
  <2>5. u \in Nat \ {0} /\ Year(u) = z /\ Month(u) = l
    BY <1>1, <2>2, <2>3, SafeDate
  <2>6. t < u
    BY <1>1, <2>2, <2>3, SafeOrder
  <2>7. IsRenewal(s, u)
    BY <1>3, <2>3, <2>5
  <2>9. u >= t
    BY <2>5, <2>6
  <2>8. ASSUME NEW n \in t..(u - 1) PROVE ~IsRenewal(s, n)
    <3>1. n \in Nat \ {0} /\ t <= n /\ n <= u /\ n # u
      BY <2>5
    <3>2. y <= Year(n) /\ (y = Year(n) => m <= Month(n))
      BY <3>1, YearsRise
    <3>3. Year(n) \in Nat \ {0} /\ Month(n) \in 1..12 /\ Year(n) <= z /\ (Year(n) = z => Month(n) <= l)
      BY <2>5, <3>1, YearsRise
    <3>4. (Year(n) = y /\ Month(n) = m) \/ (Year(n) = z /\ Month(n) = l)
      BY <2>4, <3>1, <3>2, <3>3
    <3>5. n # this
      BY <1>6, <2>1, <3>1
    <3> QED  BY <1>3, <2>3, <3>1, <3>4, <3>5 DEF this
  <2> QED  BY <2>5, <2>7, <2>8, <2>9 DEF IsEarliest
<1>11. IsEarliest(s, t, u)
  BY <1>9, <1>10
<1>12. u \in Nat \ {0} /\ IsRenewal(s, u)
  BY <1>11 DEF IsEarliest
<1>13. before(s, u) \in Int /\ before(s, u) <= u
  <2> DEFINE z == Year(u)  l == Month(u)
  <2>1. z \in Nat \ {0} /\ l \in 1..12
    BY <1>12, YearsRise
  <2>2. CASE l > 1
    <3>1. before(s, u) = safeMonthDate(z, l - 1, d)
      BY <1>1, <1>2, <1>12, <2>2, ShiftFacts
    <3>2. l - 1 \in 1..12 /\ l - 1 < l
      BY <2>1, <2>2
    <3>3. safeMonthDate(z, l - 1, d) < u /\ safeMonthDate(z, l - 1, d) \in Nat \ {0}
      BY <1>1, <1>12, <2>1, <3>2, SafeOrder, SafeDate
    <3> QED  BY <1>12, <3>1, <3>3
  <2>3. CASE l = 1
    <3>1. before(s, u) = safeMonthDate(z - 1, 12, d)
      BY <1>1, <1>2, <1>12, <2>3, ShiftFacts
    <3>2. z - 1 \in Nat /\ (z - 1) + 1 = z /\ 12 \in 1..12
      BY <2>1
    <3>3. safeMonthDate(z - 1, 12, d) \in Int /\ safeMonthDate(z - 1, 12, d) <= DaysBeforeYear((z - 1) + 1)
      BY <1>1, <3>2, SafeInYear
    <3>4. DaysBeforeYear(z) < u /\ DaysBeforeYear(z) \in Nat
      BY <1>12, <2>1, YearOf, YearLength
    <3> QED  BY <1>12, <3>1, <3>2, <3>3, <3>4
  <2> QED  BY <2>1, <2>2, <2>3
<1> QED  BY <1>11, <1>13 DEF u, Precedes

\* A schedule that renews on one day of one month of every year.
IsYearly(s, m, d) ==
  /\ m \in 1..12 /\ d \in Nat \ {0}
  /\ \A y \in Int : \A base : YearlyIn(s, y, base) = safeMonthDate(y, m, d)
  /\ \A n \in Nat \ {0} : IsRenewal(s, n) <=> n = safeMonthDate(Year(n), m, d)

\* What SplitMMDD reads.
LEMMA SplitFacts ==
  ASSUME NEW r \in Nat
  PROVE  /\ r <= 31 => SplitMMDD(r) = {}
         /\ SplitMMDD(r) # {} => /\ r > 31 /\ SplitMMDD(r) = {<<r \div 100, r % 100>>}
                                 /\ r \div 100 \in 1..12 /\ r % 100 \in 1..31
<1> DEFINE m == r \div 100  d == r % 100
<1>1. SplitMMDD(r) = IF r > 31 /\ m \in 1..12 /\ d \in 1..31 THEN {<<m, d>>} ELSE {}
  BY DEF SplitMMDD
<1> HIDE DEF m, d
<1>2. r <= 31 => ~(r > 31)
  OBVIOUS
<1> QED  BY <1>1, <1>2 DEF m, d

\* A yearly plan with a date, or a mark, is such a schedule.
LEMMA YearlyRule ==
  ASSUME NEW s, s.cycle = "yearly", s.day \in Nat,
         \/ SplitMMDD(s.day) # {}
         \/ SplitMMDD(s.day) = {} /\ s.day <= 31 /\ s.anchor \in Nat \ {0}
  PROVE  \E m, d : IsYearly(s, m, d)
<1> DEFINE r == s.day
           m == IF r > 31 THEN r \div 100 ELSE Month(s.anchor)
           d == IF r > 31 THEN r % 100 ELSE DayOf(s.anchor)
<1>1. /\ r \in Nat /\ (r <= 31 => SplitMMDD(r) = {})
      /\ SplitMMDD(r) # {} => /\ r > 31 /\ SplitMMDD(r) = {<<r \div 100, r % 100>>}
                              /\ r \div 100 \in 1..12 /\ r % 100 \in 1..31
  BY SplitFacts
<1>2. m \in 1..12 /\ d \in Nat \ {0}
  <2>1. CASE SplitMMDD(r) # {}
    BY <1>1, <2>1
  <2>2. CASE SplitMMDD(r) = {} /\ r <= 31 /\ s.anchor \in Nat \ {0}
    <3>1. Civil(s.anchor, Year(s.anchor), Month(s.anchor), DayOf(s.anchor))
      BY <2>2, CivilOf
    <3>2. Month(s.anchor) \in 1..12 /\ DayOf(s.anchor) \in Nat \ {0}
      BY <3>1, CivilPlace
    <3>3. ~(r > 31)
      BY <1>1, <2>2
    <3> QED  BY <3>2, <3>3
  <2> QED  BY <2>1, <2>2
<1>3. ASSUME NEW y \in Int, NEW base PROVE YearlyIn(s, y, base) = safeMonthDate(y, m, d)
  <2>1. CASE SplitMMDD(r) # {}
    <3> DEFINE x == CHOOSE z \in SplitMMDD(s.day) : TRUE
    <3>1. x = <<r \div 100, r % 100>>
      BY <1>1, <2>1
    <3>2. YearlyIn(s, y, base) = safeMonthDate(y, x[1], x[2])
      BY <2>1 DEF YearlyIn
    <3> HIDE DEF x
    <3>3. x[1] = r \div 100 /\ x[2] = r % 100
      <4> DEFINE a == r \div 100  b == r % 100
      <4>1. x = <<a, b>>
        BY <3>1
      <4> HIDE DEF a, b
      <4>2. x[1] = a /\ x[2] = b
        BY <4>1
      <4> QED  BY <4>2 DEF a, b
    <3>4. m = r \div 100 /\ d = r % 100
      BY <1>1, <2>1
    <3> HIDE DEF m, d
    <3> QED  BY <3>2, <3>3, <3>4
  <2>2. CASE SplitMMDD(r) = {} /\ r <= 31 /\ s.anchor \in Nat \ {0}
    <3>1. s.anchor # NoMark
      BY <2>2 DEF NoMark
    <3>2. YearlyIn(s, y, base) = safeReplaceYear(s.anchor, y)
      BY <2>2, <3>1 DEF YearlyIn
    <3>3. m = Month(s.anchor) /\ d = DayOf(s.anchor)
      <4>1. ~(r > 31)
        BY <1>1, <2>2
      <4> QED  BY <4>1
    <3> HIDE DEF m, d
    <3> QED  BY <3>2, <3>3 DEF safeReplaceYear
  <2> QED  BY <2>1, <2>2
<1>4. \A n : IsRenewal(s, n) <=> Month(n) = m /\ (DayOf(n) = d \/ (d > DayOf(n) /\ Month(n + 1) # m))
  BY DEF IsRenewal
<1> HIDE DEF m, d, r
<1>5. ASSUME NEW n \in Nat \ {0} PROVE IsRenewal(s, n) <=> n = safeMonthDate(Year(n), m, d)
  <2>1. Month(n) = m => (IsRenewal(s, n) <=> n = safeMonthDate(Year(n), m, d))
    BY <1>2, <1>4, ClampedDay
  <2>2. n = safeMonthDate(Year(n), m, d) => Month(n) = m
    <3>1. Year(n) \in Nat \ {0}
      BY YearOf
    <3>2. Month(safeMonthDate(Year(n), m, d)) = m
      BY <1>2, <3>1, SafeDate
    <3> QED  BY <3>2
  <2>3. IsRenewal(s, n) => Month(n) = m
    BY <1>4
  <2> QED  BY <2>1, <2>2, <2>3
<1>6. IsYearly(s, m, d)
  BY <1>2, <1>3, <1>5 DEF IsYearly
<1> QED  BY <1>6

\* It renews then, this year or the next.
LEMMA YearlyNext ==
  ASSUME NEW s, s.cycle = "yearly", NEW m, NEW d, IsYearly(s, m, d),
         ~(SplitMMDD(s.day) = {} /\ s.anchor = NoMark), NEW t \in Nat \ {0}
  PROVE  IsEarliest(s, t, onOrAfter(s, t)) /\ Precedes(s, onOrAfter(s, t))
<1> DEFINE y == Year(t)
           Of(z) == safeMonthDate(z, m, d)
           u == onOrAfter(s, t)
<1>1. m \in 1..12 /\ d \in Nat \ {0}
  BY DEF IsYearly
<1>2. \A n \in Nat \ {0} : IsRenewal(s, n) <=> n = Of(Year(n))
  BY DEF IsYearly
<1>3. \A z \in Int : \A base : YearlyIn(s, z, base) = Of(z)
  BY DEF IsYearly
<1>4. y \in Nat \ {0} /\ y + 1 \in Nat \ {0}
  BY YearOf
<1>5. u = IF YearlyIn(s, y, t) < t THEN YearlyIn(s, y + 1, t) ELSE YearlyIn(s, y, t)
  BY DEF onOrAfter
<1>6. before(s, u) = YearlyIn(s, Year(u) - 1, u)
  BY DEF before
<1> HIDE DEF y, u
<1>7. u = IF Of(y) < t THEN Of(y + 1) ELSE Of(y)
  BY <1>3, <1>4, <1>5
<1>8. \A z \in Nat \ {0} : Of(z) \in Nat \ {0} /\ Year(Of(z)) = z
  BY <1>1, SafeDate
<1>9. \A n \in Nat \ {0} : n >= t => Year(n) \in Nat \ {0} /\ y <= Year(n)
  BY YearsRise DEF y
<1>10. \A n \in Nat \ {0} : \A z \in Nat \ {0} : Year(n) < z => n < Of(z)
  BY <1>1, SafeOrder
<1>11. \A n \in Nat \ {0}, k \in Nat \ {0} : n <= k => Year(n) <= Year(k)
  BY YearsRise
<1> HIDE DEF Of
<1>12. ASSUME ~(Of(y) < t) PROVE IsEarliest(s, t, u)
  <2>1. u = Of(y) /\ u \in Nat \ {0} /\ u >= t /\ Year(u) = y
    BY <1>4, <1>7, <1>8, <1>12
  <2>2. IsRenewal(s, u)
    BY <1>2, <2>1
  <2>3. ASSUME NEW n \in t..(u - 1) PROVE ~IsRenewal(s, n)
    <3>1. n \in Nat \ {0} /\ n >= t /\ n <= u /\ n # u
      BY <2>1
    <3>2. Year(n) \in Nat \ {0} /\ y <= Year(n) /\ Year(n) <= y
      BY <1>9, <1>11, <2>1, <3>1
    <3>3. Year(n) = y
      BY <1>4, <3>2
    <3> QED  BY <1>2, <2>1, <3>1, <3>3
  <2> QED  BY <2>1, <2>2, <2>3 DEF IsEarliest
<1>13. ASSUME Of(y) < t PROVE IsEarliest(s, t, u)
  <2>1. u = Of(y + 1) /\ u \in Nat \ {0} /\ Year(u) = y + 1
    BY <1>4, <1>7, <1>8, <1>13
  <2>2. t < u
    <3>1. Year(t) < y + 1
      BY <1>4 DEF y
    <3> QED  BY <1>4, <1>10, <2>1, <3>1
  <2>3. IsRenewal(s, u)
    BY <1>2, <2>1
  <2>4. ASSUME NEW n \in t..(u - 1) PROVE ~IsRenewal(s, n)
    <3>1. n \in Nat \ {0} /\ n >= t /\ n <= u /\ n # u
      BY <2>1
    <3>2. Year(n) \in Nat \ {0} /\ y <= Year(n) /\ Year(n) <= y + 1
      BY <1>9, <1>11, <2>1, <3>1
    <3>3. Year(n) = y \/ Year(n) = y + 1
      BY <1>4, <3>2
    <3>4. n # Of(y)
      <4>1. Of(y) \in Nat
        BY <1>4, <1>8
      <4> QED  BY <1>13, <3>1, <4>1
    <3> QED  BY <1>2, <2>1, <3>1, <3>3, <3>4
  <2>5. u >= t
    BY <2>1, <2>2
  <2> QED  BY <2>1, <2>3, <2>4, <2>5 DEF IsEarliest
<1>14. IsEarliest(s, t, u)
  BY <1>12, <1>13
<1>15. before(s, u) \in Int /\ before(s, u) <= u
  <2> DEFINE z == Year(u) - 1
  <2>1. u \in Nat \ {0}
    BY <1>14 DEF IsEarliest
  <2>2. Year(u) \in Nat \ {0} /\ DaysBeforeYear(Year(u)) < u /\ DaysBeforeYear(Year(u)) \in Nat
    BY <2>1, YearOf, YearLength
  <2>3. z \in Nat /\ z + 1 = Year(u)
    BY <2>2
  <2>4. before(s, u) = Of(z)
    BY <1>3, <1>6, <2>3
  <2> HIDE DEF z
  <2>5. Of(z) \in Int /\ Of(z) <= DaysBeforeYear(z + 1)
    BY <1>1, <2>3, SafeInYear DEF Of
  <2> QED  BY <2>1, <2>2, <2>3, <2>4, <2>5
<1> QED  BY <1>14, <1>15 DEF u, Precedes

\* A year from a day, on the same date, is 365 days away or 366.
LEMMA YearAway ==
  ASSUME NEW t \in Nat \ {0}
  PROVE  /\ safeReplaceYear(t, Year(t) + 1) \in Nat \ {0}
         /\ safeReplaceYear(t, Year(t) + 1) - t >= 365 /\ safeReplaceYear(t, Year(t) + 1) - t <= 366
<1> DEFINE y == Year(t)  m == Month(t)  d == DayOf(t)  z == y + 1
           u == safeMonthDate(z, m, d)
<1>1. Civil(t, y, m, d)
  BY CivilOf
<1>2. safeReplaceYear(t, Year(t) + 1) = u
  BY DEF safeReplaceYear
<1> HIDE DEF y, m, d
<1>3. /\ y \in Nat \ {0} /\ m \in 1..12 /\ d \in Nat \ {0} /\ d <= daysInMonth(y, m) /\ daysInMonth(y, m) \in 28..31
      /\ t = DaysBeforeYear(y) + MonthOffset(y, m) + d /\ DaysBeforeYear(y) \in Nat /\ MonthOffset(y, m) \in Nat
  BY <1>1, CivilPlace
<1>4. z \in Nat \ {0} /\ DaysBeforeYear(z) = DaysBeforeYear(y) + 365 + LeapDay(y) /\ LeapDay(y) \in 0..1 /\ LeapDay(z) \in 0..1
  BY <1>3, YearLength
<1> HIDE DEF z
<1>5. Civil(u, z, m, Smaller(d, daysInMonth(z, m)))
  BY <1>3, <1>4, SafeDate
<1>6. /\ u = DaysBeforeYear(z) + MonthOffset(z, m) + Smaller(d, daysInMonth(z, m)) /\ MonthOffset(z, m) \in Nat
      /\ u \in Nat \ {0} /\ daysInMonth(z, m) \in 28..31
  BY <1>5, CivilPlace
<1>7. LeapDay(y) = 1 => LeapDay(z) = 0
  <2>1. y % 4 = 0 => (y + 1) % 4 # 0
    BY <1>3
  <2> QED  BY <2>1 DEF LeapDay, IsLeap, z
<1>8. /\ MonthOffset(z, m) - MonthOffset(y, m) = IF m > 2 THEN LeapDay(z) - LeapDay(y) ELSE 0
      /\ daysInMonth(z, m) - daysInMonth(y, m) = IF m = 2 THEN LeapDay(z) - LeapDay(y) ELSE 0
  <2> DEFINE b == DaysBeforeMonth[m]  c == MonthLengths[m]
  <2>1. /\ MonthOffset(z, m) = b + (IF m > 2 /\ IsLeap(z) THEN 1 ELSE 0)
        /\ MonthOffset(y, m) = b + (IF m > 2 /\ IsLeap(y) THEN 1 ELSE 0)
    BY DEF MonthOffset
  <2>2. /\ daysInMonth(z, m) = (IF m = 2 /\ IsLeap(z) THEN 29 ELSE c)
        /\ daysInMonth(y, m) = (IF m = 2 /\ IsLeap(y) THEN 29 ELSE c)
    BY DEF daysInMonth
  <2>3. (\A k \in 1..12 : DaysBeforeMonth[k] \in Int /\ MonthLengths[k] \in Int) /\ MonthLengths[2] = 28
    BY DEF DaysBeforeMonth, MonthLengths
  <2>4. b \in Int /\ c \in Int /\ (m = 2 => c = 28)
    BY <1>3, <2>3
  <2>5. (IsLeap(y) <=> LeapDay(y) = 1) /\ (IsLeap(z) <=> LeapDay(z) = 1)
    BY DEF LeapDay
  <2> HIDE DEF b, c
  <2>6. MonthOffset(z, m) - MonthOffset(y, m) = IF m > 2 THEN LeapDay(z) - LeapDay(y) ELSE 0
    BY <1>3, <1>4, <2>1, <2>4, <2>5
  <2>7. daysInMonth(z, m) - daysInMonth(y, m) = IF m = 2 THEN LeapDay(z) - LeapDay(y) ELSE 0
    BY <1>3, <1>4, <2>2, <2>4, <2>5
  <2> QED  BY <2>6, <2>7
<1> DEFINE e == Smaller(d, daysInMonth(z, m))
<1>9. /\ e \in Int /\ e <= d /\ (e = d \/ e = daysInMonth(z, m))
      /\ (d <= daysInMonth(z, m) => e = d)
  BY <1>3, <1>6 DEF Smaller
<1> HIDE DEF e, u
<1>10. u - t = 365 + LeapDay(y) + (MonthOffset(z, m) - MonthOffset(y, m)) + (e - d)
  BY <1>3, <1>4, <1>6, <1>9 DEF e
<1>11. u - t >= 365 /\ u - t <= 366
  <2> DEFINE a == LeapDay(y)  b == LeapDay(z)  p == MonthOffset(z, m) - MonthOffset(y, m)
             k == daysInMonth(y, m)  l == daysInMonth(z, m)
  <2>1. /\ a \in 0..1 /\ b \in 0..1 /\ (a = 1 => b = 0) /\ k \in 28..31 /\ l \in 28..31 /\ d <= k /\ d \in Int /\ m \in 1..12
        /\ p = (IF m > 2 THEN b - a ELSE 0) /\ l - k = (IF m = 2 THEN b - a ELSE 0)
        /\ e \in Int /\ e <= d /\ (e = d \/ e = l) /\ (d <= l => e = d) /\ u - t = 365 + a + p + (e - d)
    BY <1>3, <1>4, <1>6, <1>7, <1>8, <1>9, <1>10
  <2> DEFINE w == u - t
  <2> HIDE DEF a, b, p, k, l, w
  <2>2. w = 365 + a + p + (e - d)
    BY <2>1 DEF w
  <2>3. w >= 365 /\ w <= 366
    BY <2>1, <2>2
  <2> QED  BY <2>3 DEF w
<1> QED  BY <1>2, <1>6, <1>11 DEF e

-------------------------------------------------------------------------------
(* The lunar years of the table                                             *)

\* The table, read out.
LEMMA LunarTable ==
  /\ DOMAIN LunarYears = 2023..2026
  /\ LunarYears[2023].repeated = 2 /\ LunarYears[2024].repeated = 13
  /\ LunarYears[2025].repeated = 6 /\ LunarYears[2026].repeated = 13
  /\ LunarYears[2023].days = <<29, 30, 29, 29, 30, 30, 29, 30, 30, 29, 30, 29, 30>>
  /\ LunarYears[2024].days = <<29, 30, 29, 29, 30, 29, 30, 30, 29, 30, 30, 29>>
  /\ LunarYears[2025].days = <<30, 29, 30, 29, 29, 30, 29, 30, 29, 30, 30, 30, 29>>
  /\ LunarYears[2026].days = <<30, 29, 30, 29, 29, 30, 29, 29, 30, 30, 30, 29>>
<1>1. DOMAIN LunarYears = 2023..2026
  BY DEF LunarYears
<1>2. 2023 \in 2023..2026 /\ 2024 \in 2023..2026 /\ 2025 \in 2023..2026 /\ 2026 \in 2023..2026
  OBVIOUS
<1>3. LunarYears[2023] = [start |-> DayNumber(2023, 1, 22), repeated |-> 2,
                          days |-> <<29, 30, 29, 29, 30, 30, 29, 30, 30, 29, 30, 29, 30>>]
  BY <1>2 DEF LunarYears
<1>4. LunarYears[2024] = [start |-> DayNumber(2024, 2, 10), repeated |-> 13,
                          days |-> <<29, 30, 29, 29, 30, 29, 30, 30, 29, 30, 30, 29>>]
  BY <1>2 DEF LunarYears
<1>5. LunarYears[2025] = [start |-> DayNumber(2025, 1, 29), repeated |-> 6,
                          days |-> <<30, 29, 30, 29, 29, 30, 29, 30, 29, 30, 30, 30, 29>>]
  BY <1>2 DEF LunarYears
<1>6. LunarYears[2026] = [start |-> DayNumber(2026, 2, 17), repeated |-> 13,
                          days |-> <<30, 29, 30, 29, 29, 30, 29, 29, 30, 30, 30, 29>>]
  BY <1>2 DEF LunarYears
<1> QED  BY <1>1, <1>3, <1>4, <1>5, <1>6

\* When the lunar years begin.
LEMMA LunarStarts ==
  /\ LunarYears[2023].start = 738542 /\ LunarYears[2024].start = 738926
  /\ LunarYears[2025].start = 739280 /\ LunarYears[2026].start = 739664
<1>1. 2023 \in 2023..2026 /\ 2024 \in 2023..2026 /\ 2025 \in 2023..2026 /\ 2026 \in 2023..2026
  OBVIOUS
<1>2. /\ LunarYears[2023].start = DayNumber(2023, 1, 22) /\ LunarYears[2024].start = DayNumber(2024, 2, 10)
      /\ LunarYears[2025].start = DayNumber(2025, 1, 29) /\ LunarYears[2026].start = DayNumber(2026, 2, 17)
  BY <1>1 DEF LunarYears
<1>3. DaysBeforeMonth[1] = 0 /\ DaysBeforeMonth[2] = 31
  BY DEF DaysBeforeMonth
<1>4. /\ DaysBeforeYear(2023) = 738520 /\ DaysBeforeYear(2024) = 738885
      /\ DaysBeforeYear(2025) = 739251 /\ DaysBeforeYear(2026) = 739616
  BY DEF DaysBeforeYear
<1>5. /\ DayNumber(2023, 1, 22) = 738520 + 0 + 0 + 22 /\ DayNumber(2024, 2, 10) = 738885 + 31 + 0 + 10
      /\ DayNumber(2025, 1, 29) = 739251 + 0 + 0 + 29 /\ DayNumber(2026, 2, 17) = 739616 + 31 + 0 + 17
  BY <1>3, <1>4 DEF DayNumber
<1> QED  BY <1>2, <1>5


\* A lunar year has n months.
LunarLengths(y, n) ==
  n \in Nat /\ DOMAIN LunarYears[y].days = 1..n /\ \A i \in 1..n : LunarYears[y].days[i] \in 29..30

\* They follow one another.
LunarAdds(y, n) ==
  LunarDays(y, 0) = 0 /\ \A k, l \in 0..n : l = k + 1 => LunarDays(y, l) = LunarYears[y].days[l] + LunarDays(y, k)

\* The days of the first months are a sum.
LEMMA LunarSum ==
  ASSUME NEW y, NEW n, LunarLengths(y, n)
  PROVE  LunarAdds(y, n)
<1> DEFINE f == LunarYears[y].days
           D == 1..n
<1>1. \A k : LunarDays(y, k) = SumFunctionOnSet(f, 1..k)
  BY DEF LunarDays
<1>2. n \in Nat /\ Whole(f, D)
  <2>1. n \in Nat /\ \A i \in D : f[i] \in 29..30
    BY DEF LunarLengths
  <2>2. IsFiniteSet(D)
    BY <2>1, FS_Interval
  <2>3. \A i \in D : f[i] \in Int
    BY <2>1
  <2> QED  BY <2>1, <2>2, <2>3 DEF Whole
<1> HIDE DEF f
<1>3. LunarDays(y, 0) = 0
  <2> DEFINE A == 1..0
  <2>1. A = {} /\ A \in SUBSET D
    OBVIOUS
  <2>2. LunarDays(y, 0) = SumFunctionOnSet(f, A)
    BY <1>1
  <2> HIDE DEF A, D
  <2>3. Whole(f, A)
    BY <1>2, <2>1, WholePart
  <2> QED  BY <2>1, <2>2, <2>3, SumFacts
<1>4. ASSUME NEW k \in 0..n, NEW l \in 0..n, l = k + 1 PROVE LunarDays(y, l) = f[l] + LunarDays(y, k)
  <2> DEFINE A == 1..k  B == 1..l
  <2>1. B = A \cup {l} /\ l \notin A /\ B \in SUBSET D
    BY <1>2, <1>4
  <2>2. LunarDays(y, l) = SumFunctionOnSet(f, B) /\ LunarDays(y, k) = SumFunctionOnSet(f, A)
    BY <1>1
  <2> HIDE DEF A, B, D
  <2>3. Whole(f, B)
    BY <1>2, <2>1, WholePart
  <2>4. Whole(f, A \cup {l})
    BY <2>1, <2>3
  <2>5. SumFunctionOnSet(f, A \cup {l}) = f[l] + SumFunctionOnSet(f, A)
    BY <2>1, <2>4, SumAdds
  <2> QED  BY <2>1, <2>2, <2>5
<1> QED  BY <1>3, <1>4 DEF f, LunarAdds

\* Where the months of a lunar year stand in it; it has `length' days.
MonthsFit(y, n, length) ==
  /\ LunarLengths(y, n)
  /\ \A i \in 1..n : LunarDays(y, i - 1) \in Nat /\ LunarDays(y, i - 1) + LunarYears[y].days[i] <= length

\* The years of the table are as long as their months.
LEMMA LunarMonths ==
  MonthsFit(2023, 13, 384) /\ MonthsFit(2024, 12, 354) /\ MonthsFit(2025, 13, 384) /\ MonthsFit(2026, 12, 354)
<1>1. MonthsFit(2023, 13, 384)
  <2> DEFINE f == LunarYears[2023].days  P(k) == LunarDays(2023, k)
  <2>1. f = <<29, 30, 29, 29, 30, 30, 29, 30, 30, 29, 30, 29, 30>>
    BY LunarTable
  <2>2. LunarLengths(2023, 13)
    BY <2>1 DEF LunarLengths
  <2>3. f[1] = 29 /\ f[2] = 30 /\ f[3] = 29 /\ f[4] = 29 /\ f[5] = 30 /\ f[6] = 30 /\ f[7] = 29 /\ f[8] = 30 /\ f[9] = 30 /\ f[10] = 29 /\ f[11] = 30 /\ f[12] = 29 /\ f[13] = 30
    BY <2>1
  <2>4. P(0) = 0 /\ \A k, l \in 0..13 : l = k + 1 => P(l) = f[l] + P(k)
    <3>1. LunarAdds(2023, 13)
      BY <2>2, LunarSum
    <3> QED  BY <3>1 DEF LunarAdds
  <2> HIDE DEF f, P
  <2>5. /\ P(1) = f[1] + P(0) /\ P(2) = f[2] + P(1) /\ P(3) = f[3] + P(2) /\ P(4) = f[4] + P(3) /\ P(5) = f[5] + P(4) /\ P(6) = f[6] + P(5)
        /\ P(7) = f[7] + P(6) /\ P(8) = f[8] + P(7) /\ P(9) = f[9] + P(8) /\ P(10) = f[10] + P(9) /\ P(11) = f[11] + P(10) /\ P(12) = f[12] + P(11) /\ P(13) = f[13] + P(12)
    BY <2>4
  <2>6. P(0) = 0 /\ P(1) = 29 /\ P(2) = 59 /\ P(3) = 88 /\ P(4) = 117 /\ P(5) = 147 /\ P(6) = 177 /\ P(7) = 206 /\ P(8) = 236 /\ P(9) = 266 /\ P(10) = 295 /\ P(11) = 325 /\ P(12) = 354 /\ P(13) = 384
    BY <2>3, <2>4, <2>5
  <2>7. ASSUME NEW i \in 1..13 PROVE P(i - 1) \in Nat /\ P(i - 1) + f[i] <= 384
    <3>1. i = 1 \/ i = 2 \/ i = 3 \/ i = 4 \/ i = 5 \/ i = 6 \/ i = 7 \/ i = 8 \/ i = 9 \/ i = 10 \/ i = 11 \/ i = 12 \/ i = 13
      OBVIOUS
    <3> QED  BY <2>3, <2>6, <3>1
  <2> QED  BY <2>2, <2>7 DEF MonthsFit, f, P
<1>2. MonthsFit(2024, 12, 354)
  <2> DEFINE f == LunarYears[2024].days  P(k) == LunarDays(2024, k)
  <2>1. f = <<29, 30, 29, 29, 30, 29, 30, 30, 29, 30, 30, 29>>
    BY LunarTable
  <2>2. LunarLengths(2024, 12)
    BY <2>1 DEF LunarLengths
  <2>3. f[1] = 29 /\ f[2] = 30 /\ f[3] = 29 /\ f[4] = 29 /\ f[5] = 30 /\ f[6] = 29 /\ f[7] = 30 /\ f[8] = 30 /\ f[9] = 29 /\ f[10] = 30 /\ f[11] = 30 /\ f[12] = 29
    BY <2>1
  <2>4. P(0) = 0 /\ \A k, l \in 0..12 : l = k + 1 => P(l) = f[l] + P(k)
    <3>1. LunarAdds(2024, 12)
      BY <2>2, LunarSum
    <3> QED  BY <3>1 DEF LunarAdds
  <2> HIDE DEF f, P
  <2>5. /\ P(1) = f[1] + P(0) /\ P(2) = f[2] + P(1) /\ P(3) = f[3] + P(2) /\ P(4) = f[4] + P(3) /\ P(5) = f[5] + P(4) /\ P(6) = f[6] + P(5)
        /\ P(7) = f[7] + P(6) /\ P(8) = f[8] + P(7) /\ P(9) = f[9] + P(8) /\ P(10) = f[10] + P(9) /\ P(11) = f[11] + P(10) /\ P(12) = f[12] + P(11)
    BY <2>4
  <2>6. P(0) = 0 /\ P(1) = 29 /\ P(2) = 59 /\ P(3) = 88 /\ P(4) = 117 /\ P(5) = 147 /\ P(6) = 176 /\ P(7) = 206 /\ P(8) = 236 /\ P(9) = 265 /\ P(10) = 295 /\ P(11) = 325 /\ P(12) = 354
    BY <2>3, <2>4, <2>5
  <2>7. ASSUME NEW i \in 1..12 PROVE P(i - 1) \in Nat /\ P(i - 1) + f[i] <= 354
    <3>1. i = 1 \/ i = 2 \/ i = 3 \/ i = 4 \/ i = 5 \/ i = 6 \/ i = 7 \/ i = 8 \/ i = 9 \/ i = 10 \/ i = 11 \/ i = 12
      OBVIOUS
    <3> QED  BY <2>3, <2>6, <3>1
  <2> QED  BY <2>2, <2>7 DEF MonthsFit, f, P
<1>3. MonthsFit(2025, 13, 384)
  <2> DEFINE f == LunarYears[2025].days  P(k) == LunarDays(2025, k)
  <2>1. f = <<30, 29, 30, 29, 29, 30, 29, 30, 29, 30, 30, 30, 29>>
    BY LunarTable
  <2>2. LunarLengths(2025, 13)
    BY <2>1 DEF LunarLengths
  <2>3. f[1] = 30 /\ f[2] = 29 /\ f[3] = 30 /\ f[4] = 29 /\ f[5] = 29 /\ f[6] = 30 /\ f[7] = 29 /\ f[8] = 30 /\ f[9] = 29 /\ f[10] = 30 /\ f[11] = 30 /\ f[12] = 30 /\ f[13] = 29
    BY <2>1
  <2>4. P(0) = 0 /\ \A k, l \in 0..13 : l = k + 1 => P(l) = f[l] + P(k)
    <3>1. LunarAdds(2025, 13)
      BY <2>2, LunarSum
    <3> QED  BY <3>1 DEF LunarAdds
  <2> HIDE DEF f, P
  <2>5. /\ P(1) = f[1] + P(0) /\ P(2) = f[2] + P(1) /\ P(3) = f[3] + P(2) /\ P(4) = f[4] + P(3) /\ P(5) = f[5] + P(4) /\ P(6) = f[6] + P(5)
        /\ P(7) = f[7] + P(6) /\ P(8) = f[8] + P(7) /\ P(9) = f[9] + P(8) /\ P(10) = f[10] + P(9) /\ P(11) = f[11] + P(10) /\ P(12) = f[12] + P(11) /\ P(13) = f[13] + P(12)
    BY <2>4
  <2>6. P(0) = 0 /\ P(1) = 30 /\ P(2) = 59 /\ P(3) = 89 /\ P(4) = 118 /\ P(5) = 147 /\ P(6) = 177 /\ P(7) = 206 /\ P(8) = 236 /\ P(9) = 265 /\ P(10) = 295 /\ P(11) = 325 /\ P(12) = 355 /\ P(13) = 384
    BY <2>3, <2>4, <2>5
  <2>7. ASSUME NEW i \in 1..13 PROVE P(i - 1) \in Nat /\ P(i - 1) + f[i] <= 384
    <3>1. i = 1 \/ i = 2 \/ i = 3 \/ i = 4 \/ i = 5 \/ i = 6 \/ i = 7 \/ i = 8 \/ i = 9 \/ i = 10 \/ i = 11 \/ i = 12 \/ i = 13
      OBVIOUS
    <3> QED  BY <2>3, <2>6, <3>1
  <2> QED  BY <2>2, <2>7 DEF MonthsFit, f, P
<1>4. MonthsFit(2026, 12, 354)
  <2> DEFINE f == LunarYears[2026].days  P(k) == LunarDays(2026, k)
  <2>1. f = <<30, 29, 30, 29, 29, 30, 29, 29, 30, 30, 30, 29>>
    BY LunarTable
  <2>2. LunarLengths(2026, 12)
    BY <2>1 DEF LunarLengths
  <2>3. f[1] = 30 /\ f[2] = 29 /\ f[3] = 30 /\ f[4] = 29 /\ f[5] = 29 /\ f[6] = 30 /\ f[7] = 29 /\ f[8] = 29 /\ f[9] = 30 /\ f[10] = 30 /\ f[11] = 30 /\ f[12] = 29
    BY <2>1
  <2>4. P(0) = 0 /\ \A k, l \in 0..12 : l = k + 1 => P(l) = f[l] + P(k)
    <3>1. LunarAdds(2026, 12)
      BY <2>2, LunarSum
    <3> QED  BY <3>1 DEF LunarAdds
  <2> HIDE DEF f, P
  <2>5. /\ P(1) = f[1] + P(0) /\ P(2) = f[2] + P(1) /\ P(3) = f[3] + P(2) /\ P(4) = f[4] + P(3) /\ P(5) = f[5] + P(4) /\ P(6) = f[6] + P(5)
        /\ P(7) = f[7] + P(6) /\ P(8) = f[8] + P(7) /\ P(9) = f[9] + P(8) /\ P(10) = f[10] + P(9) /\ P(11) = f[11] + P(10) /\ P(12) = f[12] + P(11)
    BY <2>4
  <2>6. P(0) = 0 /\ P(1) = 30 /\ P(2) = 59 /\ P(3) = 89 /\ P(4) = 118 /\ P(5) = 147 /\ P(6) = 177 /\ P(7) = 206 /\ P(8) = 235 /\ P(9) = 265 /\ P(10) = 295 /\ P(11) = 325 /\ P(12) = 354
    BY <2>3, <2>4, <2>5
  <2>7. ASSUME NEW i \in 1..12 PROVE P(i - 1) \in Nat /\ P(i - 1) + f[i] <= 354
    <3>1. i = 1 \/ i = 2 \/ i = 3 \/ i = 4 \/ i = 5 \/ i = 6 \/ i = 7 \/ i = 8 \/ i = 9 \/ i = 10 \/ i = 11 \/ i = 12
      OBVIOUS
    <3> QED  BY <2>3, <2>6, <3>1
  <2> QED  BY <2>2, <2>7 DEF MonthsFit, f, P
<1> QED  BY <1>1, <1>2, <1>3, <1>4


\* The days of a lunar year, as far as the table says.
InLunarYear(x, y) ==
  /\ y \in 2023..2026 /\ x \in Nat \ {0} /\ LunarYears[y].start <= x
  /\ y < 2026 => x < LunarYears[y + 1].start

\* The months of a lunar year have their n places in its days, the twelve that have a name too.
YearFits(y, n, length) ==
  /\ MonthsFit(y, n, length) /\ LunarYears[y].start \in Nat \ {0}
  /\ y < 2026 => LunarYears[y + 1].start = LunarYears[y].start + length
  /\ \A m \in 1..12 : (IF m > LunarYears[y].repeated THEN m + 1 ELSE m) \in 1..n

\* So it is in the four years of the table.
LEMMA LunarFits == YearFits(2023, 13, 384) /\ YearFits(2024, 12, 354) /\ YearFits(2025, 13, 384) /\ YearFits(2026, 12, 354)
<1>1. ASSUME NEW q, NEW n \in 12..13, (q \in 1..12 /\ n = 13) \/ q = 13, NEW m \in 1..12
      PROVE  (IF m > q THEN m + 1 ELSE m) \in 1..n
  BY <1>1
<1>2. 2023 + 1 = 2024 /\ 2024 + 1 = 2025 /\ 2025 + 1 = 2026 /\ ~(2026 < 2026) /\ 2 \in 1..12 /\ 6 \in 1..12 /\ 12 \in 12..13 /\ 13 \in 12..13
  OBVIOUS
<1>3. YearFits(2023, 13, 384)
  <2>1. LunarYears[2023].start \in Nat \ {0} /\ LunarYears[2023 + 1].start = LunarYears[2023].start + 384
    BY <1>2, LunarStarts
  <2>2. \A m \in 1..12 : (IF m > LunarYears[2023].repeated THEN m + 1 ELSE m) \in 1..13
    BY <1>1, <1>2, LunarTable
  <2> QED  BY <2>1, <2>2, LunarMonths DEF YearFits
<1>4. YearFits(2024, 12, 354)
  <2>1. LunarYears[2024].start \in Nat \ {0} /\ LunarYears[2024 + 1].start = LunarYears[2024].start + 354
    BY <1>2, LunarStarts
  <2>2. \A m \in 1..12 : (IF m > LunarYears[2024].repeated THEN m + 1 ELSE m) \in 1..12
    BY <1>1, <1>2, LunarTable
  <2> QED  BY <2>1, <2>2, LunarMonths DEF YearFits
<1>5. YearFits(2025, 13, 384)
  <2>1. LunarYears[2025].start \in Nat \ {0} /\ LunarYears[2025 + 1].start = LunarYears[2025].start + 384
    BY <1>2, LunarStarts
  <2>2. \A m \in 1..12 : (IF m > LunarYears[2025].repeated THEN m + 1 ELSE m) \in 1..13
    BY <1>1, <1>2, LunarTable
  <2> QED  BY <2>1, <2>2, LunarMonths DEF YearFits
<1>6. YearFits(2026, 12, 354)
  <2>1. LunarYears[2026].start \in Nat \ {0}
    BY LunarStarts
  <2>2. \A m \in 1..12 : (IF m > LunarYears[2026].repeated THEN m + 1 ELSE m) \in 1..12
    BY <1>1, <1>2, LunarTable
  <2> QED  BY <1>2, <2>1, <2>2, LunarMonths DEF YearFits
<1> QED  BY <1>3, <1>4, <1>5, <1>6

\* A month and day falls on one day of a lunar year, or on none.
LEMMA LunarPlace ==
  ASSUME NEW r \in Nat, NEW y \in 2023..2026
  PROVE  lunarDate(y, r) = {} \/ \E x : lunarDate(y, r) = {x} /\ InLunarYear(x, y)
<1> DEFINE year == LunarYears[y]
           Index(m) == IF m > year.repeated THEN m + 1 ELSE m
           S == {z \in SplitMMDD(r) : z[2] <= year.days[Index(z[1])]}
           Lands(md) == year.start + LunarDays(y, Index(md[1]) - 1) + md[2] - 1
<1>1. lunarDate(y, r) = {Lands(md) : md \in S}
  BY DEF lunarDate
<1>2. PICK n \in Nat, length \in Nat : YearFits(y, n, length)
  BY LunarFits
<1>3. ASSUME NEW md \in S PROVE S = {md} /\ InLunarYear(Lands(md), y)
  <2> DEFINE i == Index(md[1])
  <2>1. SplitMMDD(r) = {md} /\ md[1] \in 1..12 /\ md[2] \in 1..31 /\ md[2] <= year.days[i]
    <3> DEFINE a == r \div 100  b == r % 100
    <3>1. SplitMMDD(r) = {<<a, b>>} /\ a \in 1..12 /\ b \in 1..31
      BY SplitFacts
    <3>2. md \in SplitMMDD(r) /\ md[2] <= year.days[i]
      OBVIOUS
    <3> HIDE DEF a, b, i, S
    <3>3. md = <<a, b>>
      BY <3>1, <3>2
    <3> QED  BY <3>1, <3>2, <3>3
  <2>2. i \in 1..n
    BY <1>2, <2>1 DEF YearFits
  <2>3. Lands(md) = year.start + LunarDays(y, i - 1) + md[2] - 1
    OBVIOUS
  <2> HIDE DEF i
  <2>4. LunarDays(y, i - 1) \in Nat /\ LunarDays(y, i - 1) + year.days[i] <= length /\ year.days[i] \in 29..30
    <3>1. MonthsFit(y, n, length) /\ LunarLengths(y, n)
      BY <1>2 DEF YearFits, MonthsFit
    <3> QED  BY <2>2, <3>1 DEF MonthsFit, LunarLengths
  <2>5. year.start \in Nat \ {0} /\ (y < 2026 => LunarYears[y + 1].start = year.start + length)
    BY <1>2 DEF YearFits
  <2> DEFINE x == Lands(md)  b == md[2]  l == LunarDays(y, i - 1)  d == year.days[i]  c == year.start
  <2>6. x = c + l + b - 1 /\ b \in 1..31 /\ b <= d /\ l \in Nat /\ l + d <= length /\ d \in 29..30 /\ c \in Nat \ {0}
    BY <2>1, <2>3, <2>4, <2>5
  <2> HIDE DEF x, b, l, d, c
  <2>7. x \in Nat \ {0} /\ c <= x /\ x < c + length
    BY <2>6
  <2>8. InLunarYear(x, y)
    BY <2>5, <2>7 DEF InLunarYear, c
  <2>9. S = {md}
    BY <2>1
  <2> QED  BY <2>8, <2>9 DEF x
<1> HIDE DEF S, Lands
<1>4. ASSUME S # {} PROVE \E x : lunarDate(y, r) = {x} /\ InLunarYear(x, y)
  <2>1. PICK md : md \in S
    BY <1>4
  <2>2. S = {md} /\ InLunarYear(Lands(md), y)
    BY <1>3, <2>1
  <2>3. lunarDate(y, r) = {Lands(md)}
    BY <1>1, <2>2
  <2> QED  BY <2>2, <2>3
<1>5. S = {} => lunarDate(y, r) = {}
  BY <1>1
<1> QED  BY <1>4, <1>5

\* A day is in the lunar year that LunarYear finds.
LEMMA LunarYearIs ==
  ASSUME NEW x, NEW y, InLunarYear(x, y)
  PROVE  LunarYear(x) = y
<1> DEFINE P(z) == LunarYears[z].start <= x /\ (z + 1 \in DOMAIN LunarYears => x < LunarYears[z + 1].start)
<1>1. LunarYear(x) = CHOOSE z \in DOMAIN LunarYears : P(z)
  BY DEF LunarYear
<1>2. \A z \in 2023..2026 : P(z) <=> InLunarYear(x, z)
  <2>1. \A z \in 2023..2026 : z + 1 \in DOMAIN LunarYears <=> z < 2026
    BY LunarTable
  <2>2. x \in Nat \ {0}
    BY DEF InLunarYear
  <2> QED  BY <2>1, <2>2 DEF InLunarYear
<1>3. \A z \in 2023..2026 : InLunarYear(x, z) => z = y
  <2> DEFINE A == LunarYears[2023].start  B == LunarYears[2024].start  C == LunarYears[2025].start  D == LunarYears[2026].start
  <2>1. A = 738542 /\ B = 738926 /\ C = 739280 /\ D = 739664
    BY LunarStarts
  <2>2. ASSUME NEW z, InLunarYear(x, z)
        PROVE  /\ x \in Nat /\ z \in 2023..2026
               /\ z = 2023 => A <= x /\ x < B
               /\ z = 2024 => B <= x /\ x < C
               /\ z = 2025 => C <= x /\ x < D
               /\ z = 2026 => D <= x
    <3>1. x \in Nat /\ z \in 2023..2026 /\ LunarYears[z].start <= x /\ (z < 2026 => x < LunarYears[z + 1].start)
      BY <2>2 DEF InLunarYear
    <3>2. 2023 + 1 = 2024 /\ 2024 + 1 = 2025 /\ 2025 + 1 = 2026 /\ 2023 < 2026 /\ 2024 < 2026 /\ 2025 < 2026
      OBVIOUS
    <3> QED  BY <3>1, <3>2
  <2>3. InLunarYear(x, y)
    OBVIOUS
  <2> HIDE DEF A, B, C, D
  <2> QED  BY <2>1, <2>2, <2>3
<1> HIDE DEF P
<1>4. y \in DOMAIN LunarYears /\ P(y)
  BY <1>2, LunarTable DEF InLunarYear
<1>5. LunarYear(x) \in 2023..2026 /\ P(LunarYear(x))
  BY <1>1, <1>4, LunarTable
<1> QED  BY <1>2, <1>3, <1>5


\* The days of which the lunar years before, of and after them are known.
LEMMA LunarKnown ==
  ASSUME NEW t \in LunarDaysKnown
  PROVE  \E y \in 2024..2025 :
           /\ InLunarYear(t, y) /\ LunarYear(t) = y
           /\ \A n \in Nat : n >= t /\ (n \in LunarDaysKnown \/ n <= t + 366) => InLunarYear(n, y) \/ InLunarYear(n, y + 1)
<1> DEFINE A == LunarYears[2023].start  B == LunarYears[2024].start  C == LunarYears[2025].start  D == LunarYears[2026].start
<1>1. A = 738542 /\ B = 738926 /\ C = 739280 /\ D = 739664
  BY LunarStarts
<1>2. LunarDaysKnown = B..(D - 1)
  BY DEF LunarDaysKnown
<1>3. 2023 + 1 = 2024 /\ 2024 + 1 = 2025 /\ 2025 + 1 = 2026 /\ ~(2026 < 2026)
  OBVIOUS
<1>4. \A n : /\ InLunarYear(n, 2024) <=> n \in Nat \ {0} /\ B <= n /\ n < C
             /\ InLunarYear(n, 2025) <=> n \in Nat \ {0} /\ C <= n /\ n < D
             /\ InLunarYear(n, 2026) <=> n \in Nat \ {0} /\ D <= n
  BY <1>3 DEF InLunarYear
<1> HIDE DEF A, B, C, D
<1>5. t \in Nat \ {0} /\ B <= t /\ t < D
  BY <1>1, <1>2
<1>6. CASE t < C
  <2>1. InLunarYear(t, 2024) /\ LunarYear(t) = 2024
    BY <1>4, <1>5, <1>6, LunarYearIs
  <2>2. ASSUME NEW n \in Nat, n >= t, n \in LunarDaysKnown \/ n <= t + 366 PROVE InLunarYear(n, 2024) \/ InLunarYear(n, 2025)
    <3>1. n < D /\ n # 0 /\ B <= n
      BY <1>1, <1>2, <1>5, <1>6, <2>2
    <3> QED  BY <1>1, <1>4, <3>1
  <2> QED  BY <1>3, <2>1, <2>2
<1>7. CASE ~(t < C)
  <2>1. InLunarYear(t, 2025) /\ LunarYear(t) = 2025
    BY <1>1, <1>4, <1>5, <1>7, LunarYearIs
  <2>2. ASSUME NEW n \in Nat, n >= t PROVE InLunarYear(n, 2025) \/ InLunarYear(n, 2026)
    <3>1. n # 0 /\ C <= n
      BY <1>1, <1>5, <1>7, <2>2
    <3> QED  BY <1>1, <1>4, <3>1
  <2> QED  BY <1>3, <2>1, <2>2
<1> QED  BY <1>6, <1>7

\* No day is left of the lunar date this year, and the next one does not have it.
LunarDayOver(r, t) == (\A d \in lunarDate(LunarYear(t), r) : d < t) /\ lunarDate(LunarYear(t) + 1, r) = {}

\* What the plan does then: a year from the day, and no renewal up to that day.
LEMMA LunarOver ==
  ASSUME NEW s, s.cycle = "lunar_yearly", s.day \in Nat, NEW t \in LunarDaysKnown, LunarDayOver(s.day, t)
  PROVE  /\ onOrAfter(s, t) \in Nat /\ onOrAfter(s, t) - t >= 365
         /\ \A n \in Nat : n >= t /\ (n \in LunarDaysKnown \/ n <= onOrAfter(s, t)) => ~IsRenewal(s, n)
<1> DEFINE r == s.day
           this == {d \in lunarDate(LunarYear(t), r) : d >= t}
           away == safeReplaceYear(t, Year(t) + 1)
<1>1. PICK y \in 2024..2025 :
        /\ InLunarYear(t, y) /\ LunarYear(t) = y
        /\ \A n \in Nat : n >= t /\ (n \in LunarDaysKnown \/ n <= t + 366) => InLunarYear(n, y) \/ InLunarYear(n, y + 1)
  BY LunarKnown
<1>2. t \in Nat \ {0} /\ y \in 2023..2026 /\ y + 1 \in 2023..2026
  BY <1>1 DEF InLunarYear
<1>3. \A d \in lunarDate(y, r) : d \in Nat /\ d < t
  BY <1>1, <1>2, LunarPlace DEF LunarDayOver, InLunarYear
<1>4. lunarDate(y + 1, r) = {}
  BY <1>1 DEF LunarDayOver
<1>5. onOrAfter(s, t) = away
  <2>1. onOrAfter(s, t) = CHOOSE d \in (IF this # {} THEN this
                                        ELSE IF lunarDate(LunarYear(t) + 1, r) # {} THEN lunarDate(LunarYear(t) + 1, r)
                                        ELSE {away}) : TRUE
    BY DEF onOrAfter, nextLunarYearlyDate
  <2>2. this = {}
    BY <1>1, <1>2, <1>3
  <2> HIDE DEF this, away
  <2>3. onOrAfter(s, t) = CHOOSE d \in {away} : TRUE
    BY <1>1, <1>4, <2>1, <2>2
  <2> QED  BY <2>3
<1> HIDE DEF away
<1>6. away \in Nat \ {0} /\ away - t >= 365 /\ away - t <= 366
  BY <1>2, YearAway DEF away
<1>7. ASSUME NEW n \in Nat, n >= t, n \in LunarDaysKnown \/ n <= away PROVE ~IsRenewal(s, n)
  <2>1. n \in LunarDaysKnown \/ n <= t + 366
    BY <1>2, <1>6, <1>7
  <2>2. InLunarYear(n, y) \/ InLunarYear(n, y + 1)
    BY <1>1, <1>7, <2>1
  <2>3. LunarYear(n) = y \/ LunarYear(n) = y + 1
    BY <2>2, LunarYearIs
  <2>4. IsRenewal(s, n) => n \in lunarDate(LunarYear(n), r)
    BY DEF IsRenewal
  <2>5. n \notin lunarDate(y, r)
    BY <1>2, <1>3, <1>7
  <2> QED  BY <1>4, <2>3, <2>4, <2>5
<1> QED  BY <1>5, <1>6, <1>7


\* A date a year earlier, as AddDate(-1, 0, 0) reckons it.
LEMMA YearBack ==
  ASSUME NEW n \in Nat \ {0}, n > 732
  PROVE  /\ DayNumber(Year(n) - 1, Month(n), 1) + DayOf(n) - 1 \in Int
         /\ DayNumber(Year(n) - 1, Month(n), 1) + DayOf(n) - 1 <= n
<1> DEFINE y == Year(n)  m == Month(n)  d == DayOf(n)  q == y - 1
<1>1. Civil(n, y, m, d)
  BY CivilOf
<1>2. DayNumber(Year(n) - 1, Month(n), 1) + DayOf(n) - 1 = DayNumber(q, m, 1) + d - 1
  OBVIOUS
<1> HIDE DEF y, m, d
<1>3. /\ y \in Nat \ {0} /\ m \in 1..12 /\ d \in Nat \ {0}
      /\ n = DaysBeforeYear(y) + MonthOffset(y, m) + d /\ DaysBeforeYear(y) \in Nat /\ MonthOffset(y, m) \in Nat
      /\ n <= DaysBeforeYear(y + 1)
  BY <1>1, CivilPlace
<1>4. y > 1
  <2>1. DaysBeforeYear(y + 1) <= 366 * y /\ DaysBeforeYear(y + 1) \in Nat
    BY <1>3, YearBounds
  <2> QED  BY <1>3, <2>1
<1>5. q \in Nat \ {0} /\ q \in Nat /\ q + 1 = y
  BY <1>3, <1>4
<1> HIDE DEF q
<1>6. DaysBeforeYear(q) \in Nat /\ DaysBeforeYear(q + 1) = DaysBeforeYear(q) + 365 + LeapDay(q) /\ LeapDay(q) \in 0..1
  BY <1>5, YearLength
<1>7. MonthOffset(q, m) \in 0..335
  BY <1>3, <1>5, MonthTable
<1>8. DayNumber(q, m, 1) = DaysBeforeYear(q) + MonthOffset(q, m) + 1
  <2> DEFINE b == DaysBeforeMonth[m]  k == IF m > 2 /\ IsLeap(q) THEN 1 ELSE 0  a == DaysBeforeYear(q)
  <2>1. DayNumber(q, m, 1) = a + b + k + 1 /\ MonthOffset(q, m) = b + k
    BY DEF DayNumber, MonthOffset
  <2>2. \A i \in 1..12 : DaysBeforeMonth[i] \in Int
    BY DEF DaysBeforeMonth
  <2>3. a \in Int /\ b \in Int /\ k \in Int
    BY <1>3, <1>6, <2>2
  <2> HIDE DEF a, b, k
  <2>4. DayNumber(q, m, 1) = a + MonthOffset(q, m) + 1
    BY <2>1, <2>3
  <2> QED  BY <2>4 DEF a
<1> QED  BY <1>2, <1>3, <1>5, <1>6, <1>7, <1>8

\* The renewal before a lunar one is no later, whether the table has it or not.
LEMMA LunarBefore ==
  ASSUME NEW s, s.cycle = "lunar_yearly", s.day \in Nat, NEW z \in 2024..2026, NEW u, InLunarYear(u, z)
  PROVE  before(s, u) \in Int /\ before(s, u) <= u
<1> DEFINE p == z - 1  back == DayNumber(Year(u) - 1, Month(u), 1) + DayOf(u) - 1
           C == lunarDate(p, s.day)
<1>1. before(s, u) = IF C # {} THEN CHOOSE d \in C : TRUE ELSE back
  <2>1. LunarYear(u) = z
    BY LunarYearIs
  <2> QED  BY <2>1 DEF before, previousLunarYearlyDate
<1>2. u \in Nat \ {0} /\ LunarYears[z].start <= u
  BY DEF InLunarYear
<1>3. p \in 2023..2026 /\ p < 2026 /\ p + 1 = z
  OBVIOUS
<1> HIDE DEF p, back
<1>4. CASE C # {}
  <2>1. PICK x : C = {x} /\ InLunarYear(x, p)
    BY <1>3, <1>4, LunarPlace
  <2>2. before(s, u) = x
    BY <1>1, <1>4, <2>1
  <2>3. x \in Nat /\ x < LunarYears[z].start
    BY <1>3, <2>1 DEF InLunarYear
  <2>4. LunarYears[z].start \in Nat
    <3>1. z = 2024 \/ z = 2025 \/ z = 2026
      OBVIOUS
    <3> QED  BY <3>1, LunarStarts
  <2> QED  BY <1>2, <2>2, <2>3, <2>4
<1>5. CASE C = {}
  <2>1. u > 732
    <3>1. z = 2024 \/ z = 2025 \/ z = 2026
      OBVIOUS
    <3> QED  BY <1>2, <3>1, LunarStarts
  <2> QED  BY <1>1, <1>2, <1>5, <2>1, YearBack DEF back
<1> QED  BY <1>4, <1>5

\* A lunar plan renews on its lunar date, this lunar year or the next.
LEMMA LunarNext ==
  ASSUME NEW s, s.cycle = "lunar_yearly", s.day \in Nat, NEW t \in LunarDaysKnown, ~LunarDayOver(s.day, t)
  PROVE  IsEarliest(s, t, onOrAfter(s, t)) /\ Precedes(s, onOrAfter(s, t))
<1> DEFINE r == s.day
           u == onOrAfter(s, t)
<1>1. PICK y \in 2024..2025 :
        /\ InLunarYear(t, y) /\ LunarYear(t) = y
        /\ \A n \in Nat : n >= t /\ (n \in LunarDaysKnown \/ n <= t + 366) => InLunarYear(n, y) \/ InLunarYear(n, y + 1)
  BY LunarKnown
<1> DEFINE A == lunarDate(y, r)  B == lunarDate(y + 1, r)  this == {d \in A : d >= t}
<1>2. t \in Nat \ {0} /\ y \in 2023..2026 /\ y + 1 \in 2023..2026 /\ y < 2026
  BY <1>1 DEF InLunarYear
<1>3. (A = {} \/ \E x : A = {x} /\ InLunarYear(x, y)) /\ (B = {} \/ \E x : B = {x} /\ InLunarYear(x, y + 1))
  BY <1>2, LunarPlace
<1>4. this # {} \/ B # {}
  <2>1. ASSUME this = {}, B = {} PROVE FALSE
    <3>1. \A d \in A : d \in Nat /\ ~(d >= t)
      BY <1>3, <2>1 DEF InLunarYear
    <3>2. \A d \in A : d < t
      BY <1>2, <3>1
    <3> QED  BY <1>1, <2>1, <3>2 DEF LunarDayOver
  <2> QED  BY <2>1
<1>5. u = CHOOSE d \in (IF this # {} THEN this ELSE B) : TRUE
  <2>1. u = CHOOSE d \in (IF this # {} THEN this ELSE IF B # {} THEN B ELSE {safeReplaceYear(t, Year(t) + 1)}) : TRUE
    BY <1>1 DEF onOrAfter, nextLunarYearlyDate
  <2> HIDE DEF this, B
  <2> QED  BY <1>4, <2>1
<1>6. \A n : IsRenewal(s, n) <=> n \in lunarDate(LunarYear(n), r)
  BY DEF IsRenewal
<1>7. \A n : (InLunarYear(n, y) => (IsRenewal(s, n) <=> n \in A)) /\ (InLunarYear(n, y + 1) => (IsRenewal(s, n) <=> n \in B))
  BY <1>6, LunarYearIs
<1>8. /\ LunarYears[y + 1].start \in Nat
      /\ \A n : InLunarYear(n, y) => n \in Nat \ {0} /\ n < LunarYears[y + 1].start
      /\ \A n : InLunarYear(n, y + 1) => n \in Nat \ {0} /\ LunarYears[y + 1].start <= n
  <2>1. LunarYears[y + 1].start \in Nat
    <3>1. y + 1 = 2025 \/ y + 1 = 2026
      OBVIOUS
    <3> QED  BY <3>1, LunarStarts
  <2> QED  BY <1>2, <2>1 DEF InLunarYear
<1> HIDE DEF u
<1>9. CASE this # {}
  <2>1. u \in this
    BY <1>5, <1>9
  <2>2. A = {u} /\ InLunarYear(u, y) /\ u \in Nat \ {0} /\ u >= t
    <3>1. u \in A /\ u >= t
      BY <2>1
    <3>2. A = {u} /\ InLunarYear(u, y)
      BY <1>3, <3>1
    <3> QED  BY <1>8, <3>1, <3>2
  <2>3. ASSUME NEW n \in t..(u - 1) PROVE ~IsRenewal(s, n)
    <3>1. n \in Nat \ {0} /\ n >= t /\ n < u
      BY <1>2, <2>2
    <3>2. InLunarYear(n, y)
      <4>1. LunarYears[y].start <= n
        <5>1. LunarYears[y].start <= t /\ LunarYears[y].start \in Nat
          <6>1. y = 2024 \/ y = 2025
            OBVIOUS
          <6> QED  BY <1>1, <6>1, LunarStarts DEF InLunarYear
        <5> QED  BY <1>2, <3>1, <5>1
      <4>2. n < LunarYears[y + 1].start
        BY <1>8, <2>2, <3>1
      <4> QED  BY <1>2, <3>1, <4>1, <4>2 DEF InLunarYear
    <3> QED  BY <1>7, <2>2, <3>1, <3>2
  <2>4. IsEarliest(s, t, u)
    BY <1>7, <2>2, <2>3 DEF IsEarliest
  <2> QED  BY <2>2, <2>4, LunarBefore DEF u, Precedes
<1>10. CASE this = {}
  <2>1. u \in B
    BY <1>4, <1>5, <1>10
  <2>2. B = {u} /\ InLunarYear(u, y + 1) /\ u \in Nat \ {0} /\ u >= t
    <3>1. B = {u} /\ InLunarYear(u, y + 1)
      BY <1>3, <2>1
    <3> QED  BY <1>1, <1>2, <1>8, <3>1
  <2>3. ASSUME NEW n \in t..(u - 1) PROVE ~IsRenewal(s, n)
    <3>1. n \in Nat \ {0} /\ n >= t /\ n < u
      BY <1>2, <2>2
    <3>2. InLunarYear(n, y) \/ InLunarYear(n, y + 1)
      <4> DEFINE b == LunarYears[y].start  c == LunarYears[y + 1].start
      <4>1. b <= t /\ b \in Nat /\ c \in Nat
        <5>1. y = 2024 \/ y = 2025
          OBVIOUS
        <5> QED  BY <1>1, <1>8, <5>1, LunarStarts DEF InLunarYear
      <4>2. ASSUME n < c PROVE InLunarYear(n, y)
        BY <1>2, <3>1, <4>1, <4>2 DEF InLunarYear
      <4>3. ASSUME ~(n < c) PROVE InLunarYear(n, y + 1)
        <5>1. n >= c
          BY <3>1, <4>1, <4>3
        <5>2. y + 1 < 2026 => u < LunarYears[(y + 1) + 1].start /\ LunarYears[(y + 1) + 1].start \in Nat
          <6>1. y + 1 < 2026 => (y + 1) + 1 = 2026
            OBVIOUS
          <6> QED  BY <2>2, <6>1, LunarStarts DEF InLunarYear
        <5>3. y + 1 < 2026 => n < LunarYears[(y + 1) + 1].start
          BY <2>2, <3>1, <5>2
        <5> QED  BY <1>2, <3>1, <5>1, <5>3 DEF InLunarYear
      <4> QED  BY <4>2, <4>3
    <3>3. n \notin A
      <4>1. ~(n \in this)
        BY <1>10
      <4> QED  BY <3>1, <4>1
    <3>4. n \notin B
      BY <2>2, <3>1
    <3> QED  BY <1>7, <3>2, <3>3, <3>4
  <2>4. IsEarliest(s, t, u)
    BY <1>7, <2>2, <2>3 DEF IsEarliest
  <2> QED  BY <2>2, <2>4, LunarBefore DEF u, Precedes
<1> QED  BY <1>9, <1>10


\* A subscription as it is kept.
IsPlan(p) ==
  /\ p.cycle \in Cycles /\ p.day \in Nat /\ validRenewalDay(p.cycle, p.day) /\ p.before \in Nat
  /\ p.mark \in Nat \ {0} \/ p.mark = NoMark

\* Its next renewal after a day is not known.
NextUnknown(p, t) ==
  \/ p.cycle = "yearly" /\ p.day <= 31 /\ p.mark = NoMark
  \/ p.cycle = "lunar_yearly" /\ LunarDayOver(p.day, t)

\* What a schedule is made of.
LEMMA ScheduleParts ==
  ASSUME NEW p, IsPlan(p), NEW s, s = newSchedule(p.cycle, p.day, p.mark)
  PROVE  /\ s.cycle = p.cycle /\ s.day = p.day /\ s.day \in Nat
         /\ p.cycle = "yearly" /\ SplitMMDD(p.day) = {} => p.day \in 1..31 /\ s.anchor = p.mark
<1>1. s = [cycle |-> p.cycle, day |-> p.day,
           anchor |-> IF p.cycle = "yearly" /\ SplitMMDD(p.day) = {} THEN p.mark ELSE NoMark]
  BY DEF newSchedule
<1>2. p.cycle = "yearly" /\ SplitMMDD(p.day) = {} => p.day \in 1..31
  BY DEF IsPlan, validRenewalDay
<1>3. s.cycle = p.cycle /\ s.day = p.day /\ s.anchor = (IF p.cycle = "yearly" /\ SplitMMDD(p.day) = {} THEN p.mark ELSE NoMark)
  BY <1>1
<1> QED  BY <1>2, <1>3 DEF IsPlan

\* onOrAfter gives the first renewal from a day on, in every cycle.
LEMMA ScheduleNext ==
  ASSUME NEW p, IsPlan(p), NEW s, s = newSchedule(p.cycle, p.day, p.mark), NEW t \in Nat \ {0},
         p.cycle = "lunar_yearly" => t \in LunarDaysKnown, ~NextUnknown(p, t)
  PROVE  IsEarliest(s, t, onOrAfter(s, t)) /\ Precedes(s, onOrAfter(s, t))
<1>1. /\ s.cycle = p.cycle /\ s.day = p.day /\ s.day \in Nat
      /\ p.cycle = "yearly" /\ SplitMMDD(p.day) = {} => p.day \in 1..31 /\ s.anchor = p.mark
  BY ScheduleParts
<1>2. CASE p.cycle = "weekly"
  <2>1. s.day \in 1..7
    BY <1>1, <1>2 DEF IsPlan, validRenewalDay
  <2> QED  BY <1>1, <1>2, <2>1, WeeklyNext
<1>3. CASE p.cycle = "monthly"
  <2>1. s.day \in 1..31
    BY <1>1, <1>3 DEF IsPlan, validRenewalDay
  <2> QED  BY <1>1, <1>3, <2>1, MonthlyNext
<1>4. CASE p.cycle = "yearly"
  <2>1. SplitMMDD(s.day) = {} => s.day <= 31 /\ s.anchor \in Nat \ {0} /\ s.anchor # NoMark
    BY <1>1, <1>4 DEF IsPlan, NextUnknown, NoMark
  <2>2. PICK m, d : IsYearly(s, m, d)
    BY <1>1, <1>4, <2>1, YearlyRule
  <2> QED  BY <1>1, <1>4, <2>1, <2>2, YearlyNext
<1>5. CASE p.cycle = "lunar_yearly"
  BY <1>1, <1>5, LunarNext DEF NextUnknown
<1> QED  BY <1>2, <1>3, <1>4, <1>5 DEF IsPlan, Cycles

\* The next renewal of every subscription and day is the first, in every cycle, with
\* month ends, leap days and lunar months that a year lacks.
THEOREM RenewalComesFirst ==
  ASSUME NEW p, IsPlan(p), NEW t \in Nat \ {0}, p.cycle = "lunar_yearly" => t \in LunarDaysKnown
  PROVE  EarliestRenewal(p, t)
<1> DEFINE s == newSchedule(p.cycle, p.day, p.mark)
           u == onOrAfter(s, t)
<1>1. EarliestRenewal(p, t) <=>
        IF NextUnknown(p, t) THEN u - t >= 365 /\ (p.cycle = "lunar_yearly" => \A n \in t..u : ~IsRenewal(s, n))
        ELSE IsRenewal(s, u) /\ u >= t /\ \A n \in t..(u - 1) : ~IsRenewal(s, n)
  BY DEF EarliestRenewal, NextUnknown, LunarDayOver
<1>2. /\ s.cycle = p.cycle /\ s.day = p.day /\ s.day \in Nat
      /\ p.cycle = "yearly" /\ SplitMMDD(p.day) = {} => p.day \in 1..31 /\ s.anchor = p.mark
  BY ScheduleParts
<1>3. ASSUME ~NextUnknown(p, t) PROVE IsEarliest(s, t, u)
  BY <1>3, ScheduleNext
<1> HIDE DEF s
<1>4. ASSUME p.cycle = "yearly", p.day <= 31, p.mark = NoMark PROVE u - t >= 365
  <2>1. SplitMMDD(s.day) = {}
    BY <1>2, <1>4, SplitFacts
  <2>2. s.anchor = NoMark
    BY <1>2, <1>4, <2>1
  <2>3. u = YearlyIn(s, Year(t) + 1, t)
    BY <1>2, <1>4, <2>1, <2>2 DEF onOrAfter
  <2>4. u = safeReplaceYear(t, Year(t) + 1)
    BY <2>1, <2>2, <2>3 DEF YearlyIn
  <2> QED  BY <2>4, YearAway
<1>5. ASSUME p.cycle = "lunar_yearly", LunarDayOver(p.day, t) PROVE u - t >= 365 /\ \A n \in t..u : ~IsRenewal(s, n)
  <2>1. u \in Nat /\ u - t >= 365 /\ \A n \in Nat : n >= t /\ (n \in LunarDaysKnown \/ n <= u) => ~IsRenewal(s, n)
    BY <1>2, <1>5, LunarOver
  <2> HIDE DEF u
  <2>2. \A n \in t..u : n \in Nat /\ n >= t /\ n <= u
    BY <2>1
  <2> QED  BY <2>1, <2>2
<1>6. CASE NextUnknown(p, t)
  <2>1. p.cycle = "yearly" => u - t >= 365
    BY <1>4, <1>6 DEF NextUnknown
  <2>2. p.cycle = "lunar_yearly" => u - t >= 365 /\ \A n \in t..u : ~IsRenewal(s, n)
    BY <1>5, <1>6 DEF NextUnknown
  <2> HIDE DEF u
  <2> QED  BY <1>1, <1>6, <2>1, <2>2 DEF NextUnknown
<1>7. CASE ~NextUnknown(p, t)
  BY <1>1, <1>3, <1>7 DEF IsEarliest
<1> QED  BY <1>6, <1>7


-------------------------------------------------------------------------------
(* What a mark pays for                                                     *)

\* The days of a span before its last renewal know the next one.
Punctual(s, a, b) ==
  \A t \in a..b : (\E n \in t..b : IsRenewal(s, n)) => IsEarliest(s, t, onOrAfter(s, t)) /\ Precedes(s, onOrAfter(s, t))

\* A day is due in the window of a renewal that the mark does not reach.
LEMMA DueIs ==
  ASSUME NEW p, p.mark \in Nat \ {0}, p.before \in Nat, NEW s, s = newSchedule(p.cycle, p.day, p.mark),
         NEW t \in Nat \ {0}, NEW u \in Nat, u = onOrAfter(s, t), u >= t
  PROVE  Due(p, t) <=> ~(covering(s, p.mark, p.before) >= u) /\ u - t <= p.before
<1> DEFINE c == covering(s, p.mark, p.before)
           next == IF c >= u THEN after(s, c) ELSE u
           paid == c >= u \/ (c = before(s, u) /\ u - t > p.before)
<1>1. p.mark # NoMark
  BY DEF NoMark
<1>2. Evaluate(p.cycle, p.day, t, p.mark, p.before) = [Next |-> next, Days |-> next - t, AlreadyRenewed |-> paid]
  BY <1>1 DEF Evaluate
<1> HIDE DEF next, paid, c
<1>3. Due(p, t) <=> next - t \in 0..p.before /\ ~paid
  BY <1>2 DEF Due
<1>4. CASE c >= u
  BY <1>3, <1>4 DEF paid, c
<1>5. CASE ~(c >= u)
  <2>1. next = u /\ (paid <=> (c = before(s, u) /\ u - t > p.before))
    BY <1>5 DEF next, paid
  <2>2. u - t \in 0..p.before <=> u - t <= p.before
    OBVIOUS
  <2>3. u - t > p.before <=> ~(u - t <= p.before)
    OBVIOUS
  <2> QED  BY <1>3, <1>5, <2>1, <2>2, <2>3 DEF c
<1> QED  BY <1>4, <1>5

\* A mark reaches the next renewal, in whose window it is made, or the one before.
LEMMA CoveredIs ==
  ASSUME NEW s, NEW a \in Nat \ {0}, NEW b \in Nat, NEW v, v = onOrAfter(s, a), v \in Nat \ {0}, v >= a, Precedes(s, v)
  PROVE  covering(s, a, b) \in Int /\ covering(s, a, b) <= v /\ (v - a <= b => covering(s, a, b) = v)
<1>1. covering(s, a, b) = IF v - a <= b THEN v ELSE Nearer(before(s, v), a, v)
  BY DEF covering
<1>2. Nearer(before(s, v), a, v) = before(s, v) \/ Nearer(before(s, v), a, v) = v
  BY DEF Nearer
<1>3. before(s, v) \in Int /\ before(s, v) <= v
  BY DEF Precedes
<1> QED  BY <1>1, <1>2, <1>3

\* MarkPaysForOne holds of a schedule that knows its renewals.
LEMMA MarkPays ==
  ASSUME NEW p, p.mark \in Nat \ {0}, p.before \in Nat, NEW span \in Nat,
         Punctual(newSchedule(p.cycle, p.day, p.mark), p.mark, p.mark + span)
  PROVE  MarkPaysForOne(p, span)
<1> DEFINE s == newSchedule(p.cycle, p.day, p.mark)
           a == p.mark
           b == a + span
           R == {n \in a..b : IsRenewal(s, n)}
           Ahead(t) == {n \in R : n >= t /\ \A m \in R : m >= t => n <= m}
           silenced == {n \in R : ~Due(p, n)}
           c == covering(s, a, p.before)
<1>1. MarkPaysForOne(p, span) <=>
        /\ Cardinality(silenced) <= 1
        /\ silenced \subseteq Ahead(a)
        /\ (\E n \in Ahead(a) : n - a <= p.before) => silenced # {}
        /\ \A t \in a..b : \A n \in Ahead(t) : Due(p, t) <=> n - t <= p.before /\ n \notin silenced
  BY DEF MarkPaysForOne
<1>2. a \in Nat \ {0} /\ b \in Nat /\ p.before \in Nat
  OBVIOUS
<1>3. Punctual(s, a, b)
  OBVIOUS
<1>4. ASSUME NEW t \in Nat \ {0}, NEW u \in Nat, u = onOrAfter(s, t), u >= t
      PROVE  Due(p, t) <=> ~(c >= u) /\ u - t <= p.before
  BY <1>4, DueIs
<1>5. ASSUME NEW v, v = onOrAfter(s, a), v \in Nat \ {0}, v >= a, Precedes(s, v)
      PROVE  c \in Int /\ c <= v /\ (v - a <= p.before => c = v)
  BY <1>2, <1>5, CoveredIs
<1> HIDE DEF s, a, b, c
<1>6. ASSUME NEW t \in a..b, NEW n \in R, n >= t
      PROVE  LET u == onOrAfter(s, t) IN u \in R /\ u >= t /\ u <= n /\ u \in Nat \ {0} /\ Precedes(s, u)
  <2> DEFINE u == onOrAfter(s, t)
  <2>1. t \in Nat /\ n \in Nat /\ n \in t..b /\ IsRenewal(s, n) /\ n <= b /\ a <= t
    BY <1>2, <1>6
  <2>2. IsEarliest(s, t, u) /\ Precedes(s, u)
    BY <1>3, <2>1 DEF Punctual
  <2> HIDE DEF u
  <2>3. u \in Nat \ {0} /\ u >= t /\ IsRenewal(s, u) /\ \A k \in t..(u - 1) : ~IsRenewal(s, k)
    BY <2>2 DEF IsEarliest
  <2>4. u <= n
    <3>1. ~(n \in t..(u - 1))
      BY <2>1, <2>3
    <3> QED  BY <1>6, <2>1, <2>3, <3>1
  <2>5. u \in a..b
    BY <1>2, <2>1, <2>3, <2>4
  <2> QED  BY <2>2, <2>3, <2>4, <2>5 DEF u
<1>7. \A n \in R : n \in Nat \ {0} /\ n \in a..b /\ n >= a /\ n <= b
  BY <1>2
<1> HIDE DEF R
<1>8. ASSUME NEW n \in R PROVE Due(p, n) <=> ~(c >= n)
  <2> DEFINE u == onOrAfter(s, n)
  <2>1. n \in a..b /\ n \in Nat \ {0} /\ n >= n
    BY <1>7
  <2>2. u >= n /\ u <= n /\ u \in Nat
    BY <1>6, <2>1
  <2> HIDE DEF u
  <2>3. u = n
    BY <2>1, <2>2
  <2>4. Due(p, n) <=> ~(c >= n) /\ n - n <= p.before
    BY <1>4, <2>1, <2>3 DEF u
  <2>5. n - n <= p.before
    BY <1>2, <2>1
  <2> QED  BY <2>4, <2>5
<1>9. ASSUME NEW t \in a..b, NEW n \in Ahead(t) PROVE Due(p, t) <=> n - t <= p.before /\ n \notin silenced
  <2> DEFINE u == onOrAfter(s, t)
  <2>1. n \in R /\ n >= t /\ \A m \in R : m >= t => n <= m
    OBVIOUS
  <2>2. u \in R /\ u >= t /\ u <= n /\ u \in Nat \ {0}
    BY <1>6, <2>1
  <2> HIDE DEF u
  <2>3. u = n
    BY <1>7, <2>1, <2>2
  <2>4. t \in Nat \ {0}
    BY <1>2
  <2>5. Due(p, t) <=> ~(c >= n) /\ n - t <= p.before
    BY <1>4, <2>2, <2>3, <2>4 DEF u
  <2>6. n \notin silenced <=> ~(c >= n)
    BY <1>8, <2>1
  <2> QED  BY <2>5, <2>6
<1>10. CASE R = {}
  <2>1. silenced = {} /\ \A t : Ahead(t) = {}
    BY <1>10
  <2>2. Cardinality(silenced) <= 1
    BY <2>1, FS_EmptySet
  <2> QED  BY <1>1, <2>1, <2>2
<1>11. CASE R # {}
  <2> DEFINE v == onOrAfter(s, a)
  <2>1. PICK n0 \in R : n0 >= a
    BY <1>7, <1>11
  <2>2. a \in a..b
    BY <1>2, <1>7, <2>1
  <2>3. v \in R /\ v >= a /\ v \in Nat \ {0} /\ Precedes(s, v)
    BY <1>6, <2>1, <2>2
  <2>4. \A n \in R : v <= n
    BY <1>6, <1>7, <2>2
  <2>5. c \in Int /\ c <= v /\ (v - a <= p.before => c = v)
    BY <1>5, <2>3
  <2> HIDE DEF v
  <2>6. v \in Ahead(a)
    BY <2>3, <2>4
  <2>7. ASSUME NEW n \in silenced PROVE n = v
    <3>1. n \in R /\ c >= n
      BY <1>8
    <3> QED  BY <1>7, <2>3, <2>4, <2>5, <3>1
  <2>8. \A n \in Ahead(a) : n = v
    BY <1>7, <2>3, <2>4
  <2>9. silenced = {} \/ silenced = {v}
    BY <2>7
  <2>10. Cardinality(silenced) <= 1
    <3> HIDE DEF silenced
    <3>1. Cardinality({}) = 0 /\ Cardinality({v}) = 1
      BY FS_EmptySet, FS_Singleton
    <3> QED  BY <2>9, <3>1
  <2>11. v - a <= p.before => v \in silenced
    BY <1>8, <2>3, <2>5
  <2> QED  BY <1>1, <1>9, <2>6, <2>8, <2>9, <2>10, <2>11
<1> QED  BY <1>10, <1>11


\* The days between two known days are known.
LEMMA KnownBetween ==
  ASSUME NEW a \in LunarDaysKnown, NEW b \in LunarDaysKnown, NEW t \in a..b
  PROVE  t \in LunarDaysKnown
<1> DEFINE B == LunarYears[2024].start  D == LunarYears[2026].start
<1>1. B \in Nat /\ D \in Nat
  BY LunarStarts
<1>2. LunarDaysKnown = B..(D - 1)
  BY DEF LunarDaysKnown
<1> HIDE DEF B, D
<1> QED  BY <1>1, <1>2

\* A marked plan knows each of its renewals, before it comes.
LEMMA PlanIsPunctual ==
  ASSUME NEW p, IsPlan(p), p.mark \in Nat \ {0}, NEW span \in Nat,
         p.cycle = "lunar_yearly" => p.mark \in LunarDaysKnown /\ p.mark + span \in LunarDaysKnown
  PROVE  Punctual(newSchedule(p.cycle, p.day, p.mark), p.mark, p.mark + span)
<1> DEFINE s == newSchedule(p.cycle, p.day, p.mark)
           b == p.mark + span
<1>1. s.cycle = p.cycle /\ s.day = p.day /\ s.day \in Nat
  BY ScheduleParts
<1>2. b \in Nat
  OBVIOUS
<1> HIDE DEF b
<1>3. ASSUME NEW t \in p.mark..b, NEW n \in t..b, IsRenewal(s, n)
      PROVE  IsEarliest(s, t, onOrAfter(s, t)) /\ Precedes(s, onOrAfter(s, t))
  <2>1. t \in Nat \ {0} /\ n \in Nat /\ n >= t /\ n \in p.mark..b
    BY <1>2
  <2>2. p.cycle = "lunar_yearly" => t \in LunarDaysKnown /\ n \in LunarDaysKnown
    BY <2>1, KnownBetween DEF b
  <2>3. ~NextUnknown(p, t)
    <3>1. p.mark # NoMark
      BY DEF NoMark
    <3>2. ASSUME p.cycle = "lunar_yearly", LunarDayOver(p.day, t) PROVE FALSE
      BY <1>1, <1>3, <2>1, <2>2, <3>2, LunarOver
    <3> QED  BY <3>1, <3>2 DEF NextUnknown
  <2> QED  BY <2>1, <2>2, <2>3, ScheduleNext
<1>4. Punctual(s, p.mark, b)
  BY <1>3 DEF Punctual
<1> QED  BY <1>4 DEF b

\* Whatever the schedule and the mark, one renewal is silenced, the one that was paid, and
\* the windows of the others are announced.
THEOREM MarkPaysOnce ==
  ASSUME NEW p, IsPlan(p), p.mark \in Nat \ {0}, NEW span \in Nat,
         p.cycle = "lunar_yearly" => p.mark \in LunarDaysKnown /\ p.mark + span \in LunarDaysKnown
  PROVE  MarkPaysForOne(p, span)
<1>1. p.before \in Nat
  BY DEF IsPlan
<1>2. Punctual(newSchedule(p.cycle, p.day, p.mark), p.mark, p.mark + span)
  BY PlanIsPunctual
<1> QED  BY <1>1, <1>2, MarkPays

\* The renewal dates and the marks are right, for every subscription, day and mark.
THEOREM RenewalsInvariance == FiguresSpec => []RenewalsRight
<1>1. Chosen => RenewalsRight
  <2> SUFFICES ASSUME Chosen PROVE RenewalIsEarliest /\ MarkSilencesOne
    BY DEF RenewalsRight
  <2>1. ASSUME Given("renewal")
        PROVE  /\ IsPlan(input.p) /\ input.today \in Nat \ {0} /\ input.span \in Nat
               /\ input.marked => input.p.mark \in Nat \ {0}
               /\ input.p.cycle = "lunar_yearly" =>
                    /\ input.today \in LunarDaysKnown
                    /\ input.marked => input.p.mark \in LunarDaysKnown /\ input.p.mark + input.span \in LunarDaysKnown
    <3>1. Sane(input) /\ input.kind = "renewal"
      BY <2>1, GivenIsSane
    <3> QED  BY <3>1 DEF Sane, IsPlan
  <2>2. RenewalIsEarliest
    BY <2>1, RenewalComesFirst DEF RenewalIsEarliest
  <2>3. MarkSilencesOne
    <3> SUFFICES ASSUME Given("renewal"), input.marked PROVE MarkPaysForOne(input.p, input.span)
      BY DEF MarkSilencesOne
    <3> DEFINE p == input.p  span == input.span
    <3>1. IsPlan(p) /\ p.mark \in Nat \ {0} /\ span \in Nat
      BY <2>1
    <3>2. p.cycle = "lunar_yearly" => p.mark \in LunarDaysKnown /\ p.mark + span \in LunarDaysKnown
      BY <2>1
    <3> HIDE DEF p, span
    <3>3. MarkPaysForOne(p, span)
      BY <3>1, <3>2, MarkPaysOnce
    <3> QED  BY <3>3 DEF p, span
  <2> QED  BY <2>2, <2>3
<1> QED  BY <1>1, InputsAreSane, PTL

===============================================================================
