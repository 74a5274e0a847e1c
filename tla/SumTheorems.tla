---------------------------- MODULE SumTheorems ----------------------------
(***************************************************************************)
(* Facts about SumFunctionOnSet, the sum of a function's values over a     *)
(* finite set of indices, for every function with integer values.  The     *)
(* operator folds by a recursive function on the subsets of the set, so    *)
(* the facts start with the proof that this function exists; inductions    *)
(* are written as the absence of a smallest counterexample.                *)
(***************************************************************************)
EXTENDS Integers, FiniteSets, Functions, FiniteSetTheorems, WellFoundedInduction, TLAPS

\* A leaf is proved by Zenon unless it cites another prover.
USE Zenon

\* The element the fold takes out of a set first.
Pick(s) == CHOOSE x \in s : TRUE

\* One unfolding of the fold's recursion, over the subsets of S.
Step(f, S, g) ==
  [s \in SUBSET S |-> IF s = {} THEN 0 ELSE f[Pick(s)] + g[s \ {Pick(s)}]]

\* The recursive function the fold is defined by.
Fold(f, S) == CHOOSE g : g = Step(f, S, g)

-----------------------------------------------------------------------------

\* A set that is not empty contains the element the fold takes out.
LEMMA PickMember ==
  ASSUME NEW s, s # {}
  PROVE  Pick(s) \in s
  BY DEF Pick

\* A nonempty family of subsets of a finite set has a smallest member.
LEMMA SmallestSubset ==
  ASSUME NEW S, IsFiniteSet(S), NEW B, B \subseteq SUBSET S, B # {}
  PROVE  \E T \in B : \A U \in B : ~(U \subseteq T /\ U # T)
<1>1. IsWellFoundedOn(StrictSubsetOrdering(S), FiniteSubsetsOf(S))
  BY FS_StrictSubsetOrderingWellFounded
<1>2. B \subseteq FiniteSubsetsOf(S)
  BY FS_FiniteSubsetsOfFinite
<1>3. PICK T \in B : \A U \in B : ~(<<U, T>> \in StrictSubsetOrdering(S))
  BY <1>1, <1>2, WFMin
<1>4. \A U \in B : ~(U \subseteq T /\ U # T)
  BY <1>3 DEF StrictSubsetOrdering
<1> QED
  BY <1>4

\* SumFunctionOnSet is the recursive function's value at the whole set.
LEMMA SumIsFold ==
  ASSUME NEW f, NEW S
  PROVE  SumFunctionOnSet(f, S) = Fold(f, S)[S]
  BY DEF SumFunctionOnSet, FoldFunctionOnSet, MapThenFoldSet, Step, Pick, Fold

\* The recursion has at most one solution: two solutions agree on every
\* set that both are defined on.
LEMMA FoldUnique ==
  ASSUME NEW f, NEW S, IsFiniteSet(S), NEW T \in SUBSET S,
         NEW g, g = Step(f, S, g), NEW h, h = Step(f, T, h)
  PROVE  \A s \in SUBSET T : g[s] = h[s]
<1> DEFINE B == {s \in SUBSET T : g[s] # h[s]}
<1>1. SUFFICES ASSUME B # {} PROVE FALSE
  OBVIOUS
<1>2. B \subseteq SUBSET S
  OBVIOUS
<1> HIDE DEF B
<1>3. PICK s \in B : \A u \in B : ~(u \subseteq s /\ u # s)
  BY <1>1, <1>2, SmallestSubset, SMT
<1>4. s \in SUBSET T /\ s \in SUBSET S /\ g[s] # h[s]
  BY <1>3 DEF B
<1>5. /\ g[s] = IF s = {} THEN 0 ELSE f[Pick(s)] + g[s \ {Pick(s)}]
      /\ h[s] = IF s = {} THEN 0 ELSE f[Pick(s)] + h[s \ {Pick(s)}]
  BY <1>4 DEF Step
<1>6. s # {}
  BY <1>4, <1>5
<1> DEFINE u == s \ {Pick(s)}
<1>7. u \subseteq s /\ u # s /\ u \in SUBSET T
  BY <1>4, <1>6, PickMember
<1>8. u \notin B
  BY <1>3, <1>7
<1>9. g[u] = h[u]
  BY <1>7, <1>8 DEF B
<1> QED
  BY <1>4, <1>5, <1>6, <1>9

\* The recursion has a solution on every finite set.
LEMMA FoldExists ==
  ASSUME NEW f, NEW S, IsFiniteSet(S)
  PROVE  Fold(f, S) = Step(f, S, Fold(f, S))
<1> DEFINE B == {T \in SUBSET S : Fold(f, T) # Step(f, T, Fold(f, T))}
<1>1. SUFFICES ASSUME B # {} PROVE FALSE
  OBVIOUS
<1>0. B \subseteq SUBSET S
  OBVIOUS
<1> HIDE DEF B
<1>2. PICK T \in B : \A U \in B : ~(U \subseteq T /\ U # T)
  BY <1>0, <1>1, SmallestSubset, SMT
<1>3. T \in SUBSET S /\ Fold(f, T) # Step(f, T, Fold(f, T))
  BY <1>2 DEF B
<1>4. \A U \in SUBSET T : U # T => Fold(f, U) = Step(f, U, Fold(f, U))
  BY <1>2, <1>3 DEF B
<1>5. \A U \in SUBSET T : IsFiniteSet(U)
  BY <1>3, FS_Subset
<1> DEFINE V(s) == IF s = {} THEN 0 ELSE f[Pick(s)] + Fold(f, s \ {Pick(s)})[s \ {Pick(s)}]
           g == [s \in SUBSET T |-> V(s)]
<1>6. ASSUME NEW u \in SUBSET T, u # T
      PROVE  V(u) = Fold(f, u)[u]
  <2>1. Fold(f, u) = Step(f, u, Fold(f, u))
    BY <1>4, <1>6
  <2>2. Fold(f, u)[u] = IF u = {} THEN 0 ELSE f[Pick(u)] + Fold(f, u)[u \ {Pick(u)}]
    <3>1. u \in SUBSET u
      OBVIOUS
    <3> QED
      BY <2>1, <3>1 DEF Step
  <2>3. CASE u = {}
    BY <2>2, <2>3
  <2>4. CASE u # {}
    <3> DEFINE w == u \ {Pick(u)}
    <3>1. w \in SUBSET T /\ w # T /\ w \in SUBSET u
      BY <1>6, <2>4, PickMember
    <3>2. Fold(f, w) = Step(f, w, Fold(f, w))
      BY <1>4, <3>1
    <3>3. IsFiniteSet(u)
      BY <1>5, <1>6
    <3>4. Fold(f, u)[w] = Fold(f, w)[w]
      <4> HIDE DEF w
      <4>1. w \in SUBSET w
        OBVIOUS
      <4> QED
        BY <2>1, <3>1, <3>2, <3>3, <4>1, FoldUnique, SMT
    <3> QED
      BY <2>2, <2>4, <3>4
  <2> QED
    BY <2>3, <2>4
<1>7. g = Step(f, T, g)
  <2>1. ASSUME NEW s \in SUBSET T
        PROVE  V(s) = IF s = {} THEN 0 ELSE f[Pick(s)] + g[s \ {Pick(s)}]
    <3>1. CASE s = {}
      BY <3>1
    <3>2. CASE s # {}
      <4> DEFINE u == s \ {Pick(s)}
      <4>1. u \in SUBSET T /\ u # T
        BY <2>1, <3>2, PickMember
      <4>2. g[u] = V(u)
        BY <4>1
      <4>3. V(u) = Fold(f, u)[u]
        BY <4>1, <1>6
      <4> QED
        BY <3>2, <4>2, <4>3
    <3> QED
      BY <3>1, <3>2
  <2> HIDE DEF V
  <2> QED
    BY <2>1 DEF Step
<1> HIDE DEF g
<1>8. Fold(f, T) = Step(f, T, Fold(f, T))
  BY <1>7 DEF Fold
<1> QED
  BY <1>3, <1>8

-----------------------------------------------------------------------------

\* The sum over no index is zero.
LEMMA SumEmpty ==
  ASSUME NEW f
  PROVE  SumFunctionOnSet(f, {}) = 0
<1>1. Fold(f, {}) = Step(f, {}, Fold(f, {}))
  BY FoldExists, FS_EmptySet
<1>2. Fold(f, {})[{}] = 0
  BY <1>1 DEF Step
<1> QED
  BY <1>2, SumIsFold

\* The fold's own order of summation.
LEMMA SumPick ==
  ASSUME NEW f, NEW S, IsFiniteSet(S), S # {}
  PROVE  SumFunctionOnSet(f, S) = f[Pick(S)] + SumFunctionOnSet(f, S \ {Pick(S)})
<1> DEFINE w == S \ {Pick(S)}
<1>1. w \in SUBSET S /\ IsFiniteSet(w)
  BY FS_Subset
<1>2. Fold(f, S) = Step(f, S, Fold(f, S)) /\ Fold(f, w) = Step(f, w, Fold(f, w))
  BY <1>1, FoldExists
<1>3. Fold(f, S)[S] = f[Pick(S)] + Fold(f, S)[w]
  <2>1. S \in SUBSET S
    OBVIOUS
  <2> QED
    BY <1>2, <2>1 DEF Step
<1> HIDE DEF w
<1>4. Fold(f, S)[w] = Fold(f, w)[w]
  <2>1. w \in SUBSET w
    OBVIOUS
  <2> QED
    BY <1>1, <1>2, <2>1, FoldUnique, SMT
<1>5. SumFunctionOnSet(f, S) = f[Pick(S)] + SumFunctionOnSet(f, w)
  BY <1>3, <1>4, SumIsFold
<1> QED
  BY <1>5 DEF w

\* A sum of integers is an integer.
LEMMA SumInt ==
  ASSUME NEW f, NEW S, IsFiniteSet(S), \A x \in S : f[x] \in Int
  PROVE  \A T \in SUBSET S : SumFunctionOnSet(f, T) \in Int
<1> DEFINE B == {T \in SUBSET S : SumFunctionOnSet(f, T) \notin Int}
<1>1. SUFFICES ASSUME B # {} PROVE FALSE
  OBVIOUS
<1>2. B \subseteq SUBSET S
  OBVIOUS
<1> HIDE DEF B
<1>3. PICK T \in B : \A U \in B : ~(U \subseteq T /\ U # T)
  BY <1>1, <1>2, SmallestSubset, SMT
<1>4. T \in SUBSET S /\ SumFunctionOnSet(f, T) \notin Int
  BY <1>3 DEF B
<1>5. T # {}
  BY <1>4, SumEmpty, SMT
<1> DEFINE w == T \ {Pick(T)}
<1>6. Pick(T) \in S /\ w \in SUBSET S /\ w \subseteq T /\ w # T
  BY <1>4, <1>5, PickMember
<1>7. SumFunctionOnSet(f, w) \in Int
  BY <1>3, <1>6 DEF B
<1>8. IsFiniteSet(T)
  BY <1>4, FS_Subset
<1>9. SumFunctionOnSet(f, T) = f[Pick(T)] + SumFunctionOnSet(f, w)
  BY <1>5, <1>8, SumPick
<1> QED
  BY <1>4, <1>6, <1>7, <1>9, SMT

\* Any index can be summed first.
LEMMA SumRemove ==
  ASSUME NEW f, NEW S, IsFiniteSet(S), \A x \in S : f[x] \in Int, NEW x \in S
  PROVE  SumFunctionOnSet(f, S) = f[x] + SumFunctionOnSet(f, S \ {x})
<1> DEFINE Removes(T) == \A y \in T :
                           SumFunctionOnSet(f, T) = f[y] + SumFunctionOnSet(f, T \ {y})
           B == {T \in SUBSET S : ~Removes(T)}
<1>1. SUFFICES ASSUME B # {} PROVE FALSE
  OBVIOUS
<1>2. B \subseteq SUBSET S
  OBVIOUS
<1> HIDE DEF B
<1>3. PICK T \in B : \A U \in B : ~(U \subseteq T /\ U # T)
  BY <1>1, <1>2, SmallestSubset, SMT
<1>4. T \in SUBSET S /\ ~Removes(T)
  BY <1>3 DEF B
<1>5. PICK y \in T : SumFunctionOnSet(f, T) # f[y] + SumFunctionOnSet(f, T \ {y})
  BY <1>4
<1> DEFINE c == Pick(T)
<1>6. c \in T
  BY <1>5, PickMember
<1> HIDE DEF c
<1>7. IsFiniteSet(T)
  BY <1>4, FS_Subset
<1>8. SumFunctionOnSet(f, T) = f[c] + SumFunctionOnSet(f, T \ {c})
  BY <1>5, <1>7, SumPick DEF c
<1>9. c # y
  BY <1>5, <1>8
<1>10. /\ T \ {c} \in SUBSET S /\ T \ {c} \subseteq T /\ T \ {c} # T /\ y \in T \ {c}
       /\ T \ {y} \in SUBSET S /\ T \ {y} \subseteq T /\ T \ {y} # T /\ c \in T \ {y}
  BY <1>4, <1>5, <1>6, <1>9
<1>11. Removes(T \ {c}) /\ Removes(T \ {y})
  <2> HIDE DEF Removes
  <2>1. T \ {c} \notin B /\ T \ {y} \notin B
    BY <1>3, <1>10
  <2> QED
    BY <1>10, <2>1 DEF B
<1> DEFINE R == (T \ {c}) \ {y}
<1>12. /\ SumFunctionOnSet(f, T \ {c}) = f[y] + SumFunctionOnSet(f, R)
       /\ SumFunctionOnSet(f, T \ {y}) = f[c] + SumFunctionOnSet(f, R)
  <2>1. (T \ {y}) \ {c} = R
    OBVIOUS
  <2> QED
    BY <1>10, <1>11, <2>1
<1>13. f[c] \in Int /\ f[y] \in Int /\ SumFunctionOnSet(f, R) \in Int
  <2>1. R \in SUBSET S
    BY <1>4
  <2>2. SumFunctionOnSet(f, R) \in Int
    BY <2>1, SumInt
  <2> QED
    BY <1>4, <1>5, <1>6, <2>2
<1> HIDE DEF R
<1> QED
  BY <1>5, <1>8, <1>12, <1>13, SMT

\* A bound that holds term by term holds of the sums, with the slack of each
\* term added up.
LEMMA SumBound ==
  ASSUME NEW S, IsFiniteSet(S), NEW a \in Int, NEW b \in Int, NEW d \in Int,
         NEW f, \A x \in S : f[x] \in Int,
         NEW g, \A x \in S : g[x] \in Int,
         \A x \in S : a * f[x] <= b * g[x] + d
  PROVE  a * SumFunctionOnSet(f, S) <= b * SumFunctionOnSet(g, S) + d * Cardinality(S)
<1> DEFINE Bounded(T) == a * SumFunctionOnSet(f, T)
                           <= b * SumFunctionOnSet(g, T) + d * Cardinality(T)
           B == {T \in SUBSET S : ~Bounded(T)}
<1>1. SUFFICES ASSUME B # {} PROVE FALSE
  OBVIOUS
<1>2. B \subseteq SUBSET S
  OBVIOUS
<1> HIDE DEF B
<1>3. PICK T \in B : \A U \in B : ~(U \subseteq T /\ U # T)
  BY <1>1, <1>2, SmallestSubset, SMT
<1>4. T \in SUBSET S /\ ~Bounded(T)
  BY <1>3 DEF B
<1>5. T # {}
  <2>1. Bounded({})
    BY SumEmpty, FS_EmptySet, SMT
  <2> QED
    BY <1>4, <2>1
<1>6. PICK x \in T : TRUE
  BY <1>5
<1> DEFINE w == T \ {x}
<1>7. /\ w \in SUBSET S /\ w \subseteq T /\ w # T
      /\ IsFiniteSet(T) /\ IsFiniteSet(w)
  BY <1>4, <1>6, FS_Subset
<1>8. Bounded(w)
  <2> HIDE DEF w, Bounded
  <2>1. w \notin B
    BY <1>3, <1>7
  <2> QED
    BY <1>7, <2>1 DEF B
<1>9. Cardinality(T) = Cardinality(w) + 1 /\ Cardinality(w) \in Nat
  <2>1. Cardinality(w) = Cardinality(T) - 1 /\ Cardinality(T) \in Nat
    BY <1>6, <1>7, FS_RemoveElement, FS_CardinalityType
  <2>2. Cardinality(w) \in Nat
    BY <1>7, FS_CardinalityType
  <2> QED
    BY <2>1, <2>2, SMT
<1>10. /\ SumFunctionOnSet(f, T) = f[x] + SumFunctionOnSet(f, w)
       /\ SumFunctionOnSet(g, T) = g[x] + SumFunctionOnSet(g, w)
  BY <1>4, <1>6, <1>7, SumRemove, SMT
<1>11. SumFunctionOnSet(f, w) \in Int /\ SumFunctionOnSet(g, w) \in Int
  BY <1>7, SumInt
<1>12. f[x] \in Int /\ g[x] \in Int /\ a * f[x] <= b * g[x] + d
  BY <1>4, <1>6
<1>13. ASSUME NEW u \in Int, NEW v \in Int, NEW p \in Int, NEW q \in Int, NEW n \in Int,
              a * u <= b * v + d, a * p <= b * q + d * n
       PROVE  a * (u + p) <= b * (v + q) + d * (n + 1)
  <2>1. a * (u + p) = a * u + a * p /\ b * (v + q) = b * v + b * q /\ d * (n + 1) = d * n + d
    BY SMT
  <2>2. /\ a * u \in Int /\ a * p \in Int /\ b * v \in Int /\ b * q \in Int /\ d * n \in Int
    BY SMT
  <2> QED
    BY <1>13, <2>1, <2>2, SMT
<1>14. Bounded(T)
  <2> HIDE DEF w
  <2> QED
    BY <1>8, <1>9, <1>10, <1>11, <1>12, <1>13, SMT
<1> QED
  BY <1>4, <1>14

\* Functions that agree on the indices have the same sum.
LEMMA SumCongruent ==
  ASSUME NEW S, IsFiniteSet(S), NEW f, NEW g,
         \A x \in S : f[x] \in Int /\ f[x] = g[x]
  PROVE  SumFunctionOnSet(f, S) = SumFunctionOnSet(g, S)
<1>1. \A x \in S : 1 * f[x] <= 1 * g[x] + 0 /\ 1 * g[x] <= 1 * f[x] + 0
  BY SMT
<1>2. /\ 1 * SumFunctionOnSet(f, S) <= 1 * SumFunctionOnSet(g, S) + 0 * Cardinality(S)
      /\ 1 * SumFunctionOnSet(g, S) <= 1 * SumFunctionOnSet(f, S) + 0 * Cardinality(S)
  BY <1>1, SumBound, SMT
<1>3. /\ SumFunctionOnSet(f, S) \in Int /\ SumFunctionOnSet(g, S) \in Int
      /\ Cardinality(S) \in Nat
  BY SumInt, FS_CardinalityType
<1> QED
  BY <1>2, <1>3, SMT

\* Indices whose value is zero can be left out.
LEMMA SumSupport ==
  ASSUME NEW f, NEW S, IsFiniteSet(S), \A x \in S : f[x] \in Int,
         NEW T \in SUBSET S, \A x \in S \ T : f[x] = 0
  PROVE  SumFunctionOnSet(f, S) = SumFunctionOnSet(f, T)
<1> DEFINE Same(U) == SumFunctionOnSet(f, U) = SumFunctionOnSet(f, T)
           B == {U \in SUBSET S : T \subseteq U /\ ~Same(U)}
<1>1. SUFFICES ASSUME B # {} PROVE FALSE
  OBVIOUS
<1>2. B \subseteq SUBSET S
  OBVIOUS
<1> HIDE DEF B
<1>3. PICK U \in B : \A V \in B : ~(V \subseteq U /\ V # U)
  BY <1>1, <1>2, SmallestSubset, SMT
<1>4. U \in SUBSET S /\ T \subseteq U /\ ~Same(U)
  BY <1>3 DEF B
<1>5. PICK x \in U : x \notin T
  BY <1>4, SMT
<1> DEFINE w == U \ {x}
<1>6. w \in SUBSET S /\ T \subseteq w /\ w \subseteq U /\ w # U /\ IsFiniteSet(U)
  BY <1>4, <1>5, FS_Subset
<1>7. Same(w)
  <2> HIDE DEF w, Same
  <2>1. w \notin B
    BY <1>3, <1>6
  <2> QED
    BY <1>6, <2>1 DEF B
<1>8. SumFunctionOnSet(f, U) = f[x] + SumFunctionOnSet(f, w)
  BY <1>4, <1>5, <1>6, SumRemove, SMT
<1>9. f[x] = 0 /\ SumFunctionOnSet(f, w) \in Int
  BY <1>4, <1>5, <1>6, SumInt
<1> QED
  BY <1>4, <1>7, <1>8, <1>9, SMT

\* A sum of natural numbers is at least each of its terms.
LEMMA SumNat ==
  ASSUME NEW f, NEW S, IsFiniteSet(S), \A x \in S : f[x] \in Nat
  PROVE  /\ SumFunctionOnSet(f, S) \in Nat
         /\ \A x \in S : f[x] <= SumFunctionOnSet(f, S)
<1>1. ASSUME NEW T \in SUBSET S PROVE SumFunctionOnSet(f, T) \in Nat
  <2> DEFINE z == [x \in T |-> 0]
  <2>1. IsFiniteSet(T) /\ \A x \in T : f[x] \in Int /\ f[x] \in Nat
    BY FS_Subset, SMT
  <2>2. \A x \in T : z[x] \in Int /\ 0 * z[x] <= 1 * f[x] + 0
    BY <2>1, SMT
  <2> HIDE DEF z
  <2>3. 0 * SumFunctionOnSet(z, T) <= 1 * SumFunctionOnSet(f, T) + 0 * Cardinality(T)
    BY <2>1, <2>2, SumBound, SMT
  <2>4. /\ SumFunctionOnSet(z, T) \in Int /\ SumFunctionOnSet(f, T) \in Int
        /\ Cardinality(T) \in Nat
    BY <2>1, <2>2, SumInt, FS_CardinalityType
  <2> QED
    BY <2>3, <2>4, SMT
<1>2. ASSUME NEW x \in S PROVE f[x] <= SumFunctionOnSet(f, S)
  <2>1. SumFunctionOnSet(f, S) = f[x] + SumFunctionOnSet(f, S \ {x})
    BY SumRemove, SMT
  <2>2. SumFunctionOnSet(f, S \ {x}) \in Nat
    BY <1>1
  <2> QED
    BY <2>1, <2>2, SMT
<1> QED
  BY <1>1, <1>2

\* A nonempty set of natural numbers has a least member.
LEMMA LeastNatural ==
  ASSUME NEW B, B \subseteq Nat, B # {}
  PROVE  \E n \in B : \A m \in B : n <= m
<1>1. PICK n \in B : \A m \in B : ~(<<m, n>> \in OpToRel(<, Nat))
  BY NatLessThanWellFounded, WFMin
<1>2. \A m \in B : ~(m < n)
  BY <1>1 DEF OpToRel
<1> QED
  BY <1>2, SMT

\* A sum of differences of consecutive values is the difference of the ends.
LEMMA SumTelescopes ==
  ASSUME NEW n \in Nat, NEW v, \A j \in 0..n : v[j] \in Int,
         NEW f, \A j \in 1..n : f[j] = v[j - 1] - v[j]
  PROVE  SumFunctionOnSet(f, 1..n) = v[0] - v[n]
<1> DEFINE B == {m \in 0..n : SumFunctionOnSet(f, 1..m) # v[0] - v[m]}
<1>1. SUFFICES ASSUME B # {} PROVE FALSE
  BY SMT
<1>2. B \subseteq Nat
  BY SMT
<1> HIDE DEF B
<1>3. PICK m \in B : \A k \in B : m <= k
  BY <1>1, <1>2, LeastNatural
<1>4. m \in 0..n /\ SumFunctionOnSet(f, 1..m) # v[0] - v[m]
  BY <1>3 DEF B
<1>5. m # 0
  <2>1. SumFunctionOnSet(f, 1..0) = 0
    <3>1. 1..0 = {}
      BY SMT
    <3> QED
      BY <3>1, SumEmpty
  <2>2. v[0] \in Int
    BY SMT
  <2> QED
    BY <1>4, <2>1, <2>2, SMT
<1>6. m - 1 \in 0..n /\ m - 1 < m /\ m \in 1..n /\ m \in 1..m
  BY <1>4, <1>5, SMT
<1>7. SumFunctionOnSet(f, 1..(m - 1)) = v[0] - v[m - 1]
  BY <1>3, <1>6, SMT DEF B
<1>8. IsFiniteSet(1..m)
  BY <1>6, FS_Interval, SMT
<1>9. \A j \in 1..m : f[j] \in Int
  <2>1. ASSUME NEW j \in 1..m PROVE f[j] \in Int
    <3>1. j \in 1..n /\ j \in 0..n /\ j - 1 \in 0..n
      BY <1>4, SMT
    <3>2. f[j] = v[j - 1] - v[j] /\ v[j - 1] \in Int /\ v[j] \in Int
      BY <3>1
    <3> QED
      BY <3>2, SMT
  <2> QED
    BY <2>1
<1>10. (1..m) \ {m} = 1..(m - 1)
  BY <1>6, SMT
<1>11. SumFunctionOnSet(f, 1..m) = f[m] + SumFunctionOnSet(f, 1..(m - 1))
  <2> DEFINE I == 1..m
  <2>1. m \in I /\ IsFiniteSet(I) /\ \A j \in I : f[j] \in Int
    BY <1>6, <1>8, <1>9
  <2> HIDE DEF I
  <2>2. SumFunctionOnSet(f, I) = f[m] + SumFunctionOnSet(f, I \ {m})
    BY <2>1, SumRemove, SMT
  <2> QED
    BY <1>10, <2>2 DEF I
<1>12. f[m] = v[m - 1] - v[m] /\ v[m - 1] \in Int /\ v[m] \in Int /\ v[0] \in Int
  BY <1>4, <1>6, SMT
<1>13. SumFunctionOnSet(f, 1..m) = (v[m - 1] - v[m]) + (v[0] - v[m - 1])
  BY <1>7, <1>11, <1>12
<1>14. (v[m - 1] - v[m]) + (v[0] - v[m - 1]) = v[0] - v[m]
  BY <1>12, SMT
<1> QED
  BY <1>4, <1>13, <1>14

\* Larger values have a larger sum.
LEMMA SumMonotone ==
  ASSUME NEW S, IsFiniteSet(S), NEW f, NEW g,
         \A x \in S : f[x] \in Int /\ g[x] \in Int /\ f[x] <= g[x]
  PROVE  /\ SumFunctionOnSet(f, S) \in Int /\ SumFunctionOnSet(g, S) \in Int
         /\ SumFunctionOnSet(f, S) <= SumFunctionOnSet(g, S)
<1>1. SumFunctionOnSet(f, S) \in Int /\ SumFunctionOnSet(g, S) \in Int /\ Cardinality(S) \in Nat
  <2>1. S \in SUBSET S
    OBVIOUS
  <2> QED
    BY <2>1, SumInt, FS_CardinalityType
<1>2. 1 * SumFunctionOnSet(f, S) <= 1 * SumFunctionOnSet(g, S) + 0 * Cardinality(S)
  <2>1. \A x \in S : 1 * f[x] <= 1 * g[x] + 0
    BY SMT
  <2> QED
    BY <2>1, SumBound, SMT
<1> QED
  BY <1>1, <1>2, SMT

\* A sum over a longer interval is the sum over the shorter one and the last value.
LEMMA SumExtends ==
  ASSUME NEW n \in Nat, NEW g, \A k \in 1..(n + 1) : g[k] \in Int,
         NEW f, \A k \in 1..n : f[k] = g[k]
  PROVE  /\ SumFunctionOnSet(g, 1..(n + 1)) = g[n + 1] + SumFunctionOnSet(f, 1..n)
         /\ SumFunctionOnSet(f, 1..n) \in Int /\ g[n + 1] \in Int
<1> DEFINE S == 1..n
           T == 1..(n + 1)
<1>1. IsFiniteSet(S) /\ IsFiniteSet(T)
  BY FS_Interval, SMT
<1>2. n + 1 \in T /\ T \ {n + 1} = S /\ S \subseteq T
  BY SMT
<1>3. \A k \in S : f[k] \in Int /\ g[k] \in Int /\ f[k] = g[k]
  BY <1>2
<1> HIDE DEF S, T
<1>4. SumFunctionOnSet(g, T) = g[n + 1] + SumFunctionOnSet(g, S)
  <2>1. \A k \in T : g[k] \in Int
    BY DEF T
  <2>2. \A x \in T : SumFunctionOnSet(g, T) = g[x] + SumFunctionOnSet(g, T \ {x})
    BY <1>1, <2>1, SumRemove, SMT
  <2>3. SumFunctionOnSet(g, T) = g[n + 1] + SumFunctionOnSet(g, T \ {n + 1})
    BY <1>2, <2>2
  <2> QED
    BY <1>2, <2>3
<1>5. /\ SumFunctionOnSet(f, S) \in Int /\ SumFunctionOnSet(g, S) \in Int
      /\ SumFunctionOnSet(f, S) <= SumFunctionOnSet(g, S)
      /\ SumFunctionOnSet(g, S) <= SumFunctionOnSet(f, S)
  <2>1. \A k \in S : f[k] <= g[k] /\ g[k] <= f[k]
    BY <1>3, SMT
  <2> QED
    BY <1>1, <1>3, <2>1, SumMonotone
<1>6. SumFunctionOnSet(f, S) = SumFunctionOnSet(g, S)
  BY <1>5, SMT
<1> QED
  BY <1>2, <1>4, <1>5, <1>6 DEF S, T

=============================================================================
