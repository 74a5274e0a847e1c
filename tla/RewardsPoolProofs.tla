------------------------- MODULE RewardsPoolProofs -------------------------
(***************************************************************************)
(* The rewards pool for every schedule, cycle length and set of stakers:   *)
(* the schedule's and the distribution's assertions of superblock.cpp      *)
(* never fail; the pool's coin and the payouts on the chain account for    *)
(* the whole allocation; the demanded payouts keep to the schedule through *)
(* every reorganisation, and only payouts that one returned to the mempool *)
(* put the pool ahead of it; and while those took no more than the first   *)
(* cycle's release, every payout that is demanded can be built in full.    *)
(***************************************************************************)
EXTENDS RewardsPool, SumTheorems, TLAPS

\* A leaf is proved by Zenon unless it cites another prover.
USE Zenon

\* Integer division, as MulDivShare uses it: the quotient is the largest
\* natural number whose product with the divisor does not exceed the dividend.
LEMMA DivBounds ==
  ASSUME NEW x \in Nat, NEW c \in Nat \ {0}
  PROVE  /\ x \div c \in Nat
         /\ c * (x \div c) <= x
         /\ x < c * (x \div c) + c
  BY SMT

\* A product of two amounts is a natural number.
LEMMA MulNat ==
  ASSUME NEW a \in Nat, NEW b \in Nat
  PROVE  a * b \in Nat
  BY SMT

\* Multiplication by an amount keeps the order.
LEMMA MulMonotone ==
  ASSUME NEW a \in Nat, NEW d \in Nat, NEW b \in Nat, a <= d
  PROVE  a * b <= d * b
<1>1. PICK k \in Nat : d = a + k
  BY SMT
<1>2. d * b = a * b + k * b
  BY <1>1, SMT
<1> QED
  BY <1>2, MulNat, SMT

\* A larger number of cycles never earns a smaller share (MulDivShare).
LEMMA ShareMonotone ==
  ASSUME NEW a \in Nat, NEW d \in Nat, NEW b \in Nat, NEW c \in Nat \ {0}, a <= d
  PROVE  /\ MulDivShare(a, b, c) \in Nat
         /\ MulDivShare(d, b, c) \in Nat
         /\ MulDivShare(a, b, c) <= MulDivShare(d, b, c)
<1> DEFINE x == a * b
           y == d * b
<1>1. x \in Nat /\ y \in Nat /\ x <= y
  BY MulNat, MulMonotone
<1>2. ASSUME NEW u \in Nat, NEW v \in Nat, u <= v
      PROVE  u \div c <= v \div c
  <2>1. c * (u \div c) <= u /\ v < c * (v \div c) + c /\ u \div c \in Nat /\ v \div c \in Nat
    BY <1>2, DivBounds
  <2>2. SUFFICES ASSUME u \div c >= (v \div c) + 1 PROVE FALSE
    BY <2>1, SMT
  <2>3. ASSUME NEW p \in Nat, NEW q \in Nat, p >= q + 1
        PROVE  c * p >= c * q + c
    <3>1. (q + 1) * c <= p * c
      BY <2>3, MulMonotone, SMT
    <3>2. (q + 1) * c = c * q + c /\ p * c = c * p
      BY SMT
    <3> QED
      BY <3>1, <3>2
  <2>4. c * (u \div c) >= c * (v \div c) + c
    BY <2>1, <2>2, <2>3
  <2> QED
    BY <1>2, <2>1, <2>4, MulNat, SMT
<1> QED
  BY <1>1, <1>2, DivBounds DEF MulDivShare

\* A phase's last cycle completes the phase's total: whole years leave no remainder.
LEMMA WholeYears ==
  ASSUME NEW y \in Nat, NEW b \in Nat, NEW c \in Nat \ {0}
  PROVE  MulDivShare(y * c, b, c) = y * b
<1> DEFINE z == y * b
<1>1. z \in Nat
  BY MulNat
<1>2. (y * c) * b = c * z
  BY SMT
<1>3. ASSUME NEW w \in Nat PROVE (c * w) \div c = w
  BY <1>3, SMT
<1> QED
  BY <1>1, <1>2, <1>3 DEF MulDivShare

\* The lengths and the totals of the phases are natural numbers.
LEMMA PhasesNat ==
  /\ PhaseACycles \in Nat /\ PhaseBCycles \in Nat /\ PhaseCCycles \in Nat
  /\ PhaseATotal \in Nat /\ PhaseBTotal \in Nat /\ PhaseCTotal \in Nat
  BY ScheduleAssumption, MulNat
     DEF PhaseACycles, PhaseBCycles, PhaseCCycles, PhaseATotal, PhaseBTotal, PhaseCTotal

\* Within a phase the shares grow with the cycles, up to the phase's total.
LEMMA PhaseShares ==
  ASSUME NEW n \in Nat, NEW m \in Nat, n <= m
  PROVE  /\ m <= PhaseACycles =>
              /\ MulDivShare(n, AnnualA, CyclesPerYear) \in Nat
              /\ MulDivShare(m, AnnualA, CyclesPerYear) \in Nat
              /\ MulDivShare(n, AnnualA, CyclesPerYear) <= MulDivShare(m, AnnualA, CyclesPerYear)
              /\ MulDivShare(m, AnnualA, CyclesPerYear) <= PhaseATotal
         /\ m <= PhaseBCycles =>
              /\ MulDivShare(n, AnnualB, CyclesPerYear) \in Nat
              /\ MulDivShare(m, AnnualB, CyclesPerYear) \in Nat
              /\ MulDivShare(n, AnnualB, CyclesPerYear) <= MulDivShare(m, AnnualB, CyclesPerYear)
              /\ MulDivShare(m, AnnualB, CyclesPerYear) <= PhaseBTotal
         /\ m <= PhaseCCycles =>
              /\ MulDivShare(n, AnnualC, CyclesPerYear) \in Nat
              /\ MulDivShare(m, AnnualC, CyclesPerYear) \in Nat
              /\ MulDivShare(n, AnnualC, CyclesPerYear) <= MulDivShare(m, AnnualC, CyclesPerYear)
              /\ MulDivShare(m, AnnualC, CyclesPerYear) <= PhaseCTotal
<1>1. ASSUME NEW y \in Nat, NEW b \in Nat, NEW c \in Nat \ {0}, m <= y * c
      PROVE  /\ MulDivShare(n, b, c) \in Nat
             /\ MulDivShare(m, b, c) \in Nat
             /\ MulDivShare(n, b, c) <= MulDivShare(m, b, c)
             /\ MulDivShare(m, b, c) <= y * b
  <2>1. y * c \in Nat
    BY MulNat
  <2>2. MulDivShare(m, b, c) <= MulDivShare(y * c, b, c)
    BY <1>1, <2>1, ShareMonotone
  <2>3. MulDivShare(y * c, b, c) = y * b
    BY WholeYears
  <2> QED
    BY <2>2, <2>3, ShareMonotone
<1> QED
  BY <1>1, ScheduleAssumption
     DEF PhaseACycles, PhaseBCycles, PhaseCCycles, PhaseATotal, PhaseBTotal, PhaseCTotal

\* The branches of GetSuperblockCumulativeTarget, each with its range.
LEMMA TargetByPhase ==
  ASSUME NEW i \in Int
  PROVE  /\ i + 1 <= 0 => GetSuperblockCumulativeTarget(i) = 0
         /\ i + 1 > 0 /\ i + 1 <= PhaseACycles =>
              /\ GetSuperblockCumulativeTarget(i) = MulDivShare(i + 1, AnnualA, CyclesPerYear)
              /\ GetSuperblockCumulativeTarget(i) \in 0..PhaseATotal
         /\ i + 1 > PhaseACycles /\ i + 1 <= PhaseACycles + PhaseBCycles =>
              /\ GetSuperblockCumulativeTarget(i)
                   = PhaseATotal + MulDivShare(i + 1 - PhaseACycles, AnnualB, CyclesPerYear)
              /\ GetSuperblockCumulativeTarget(i) \in PhaseATotal..(PhaseATotal + PhaseBTotal)
         /\ /\ i + 1 > PhaseACycles + PhaseBCycles
            /\ i + 1 <= PhaseACycles + PhaseBCycles + PhaseCCycles
            => /\ GetSuperblockCumulativeTarget(i)
                    = PhaseATotal + PhaseBTotal
                        + MulDivShare(i + 1 - PhaseACycles - PhaseBCycles, AnnualC, CyclesPerYear)
               /\ GetSuperblockCumulativeTarget(i) \in (PhaseATotal + PhaseBTotal)..PoolTotal
         /\ i + 1 > PhaseACycles + PhaseBCycles + PhaseCCycles =>
              GetSuperblockCumulativeTarget(i) = PoolTotal
<1> DEFINE n == i + 1
<1>0. PhaseACycles \in Nat /\ PhaseBCycles \in Nat /\ PhaseCCycles \in Nat
      /\ PhaseATotal \in Nat /\ PhaseBTotal \in Nat /\ PhaseCTotal \in Nat
  BY PhasesNat
<1>1. CASE n <= 0
  BY <1>0, <1>1, SMT DEF GetSuperblockCumulativeTarget
<1>2. CASE n > 0 /\ n <= PhaseACycles
  <2>1. n \in Nat
    BY <1>2, SMT
  <2>2. GetSuperblockCumulativeTarget(i) = MulDivShare(n, AnnualA, CyclesPerYear)
    BY <1>2, SMT DEF GetSuperblockCumulativeTarget
  <2> QED
    BY <1>0, <1>2, <2>1, <2>2, PhaseShares, SMT
<1>3. CASE n > PhaseACycles /\ n <= PhaseACycles + PhaseBCycles
  <2>1. n - PhaseACycles \in Nat /\ n - PhaseACycles <= PhaseBCycles
    BY <1>0, <1>3, SMT
  <2>2. ~(n <= 0) /\ ~(n <= PhaseACycles)
    BY <1>0, <1>3, SMT
  <2>3. GetSuperblockCumulativeTarget(i)
          = PhaseATotal + MulDivShare(n - PhaseACycles, AnnualB, CyclesPerYear)
    BY <1>3, <2>2 DEF GetSuperblockCumulativeTarget
  <2>4. MulDivShare(n - PhaseACycles, AnnualB, CyclesPerYear) \in 0..PhaseBTotal
    BY <1>0, <2>1, PhaseShares, SMT
  <2> QED
    BY <1>0, <1>3, <2>3, <2>4, SMT
<1>4. CASE /\ n > PhaseACycles + PhaseBCycles
           /\ n <= PhaseACycles + PhaseBCycles + PhaseCCycles
  <2>1. /\ n - PhaseACycles - PhaseBCycles \in Nat
        /\ n - PhaseACycles - PhaseBCycles <= PhaseCCycles
    BY <1>0, <1>4, SMT
  <2>2. ~(n <= 0) /\ ~(n <= PhaseACycles) /\ ~(n <= PhaseACycles + PhaseBCycles)
    BY <1>0, <1>4, SMT
  <2>3. GetSuperblockCumulativeTarget(i)
          = PhaseATotal + PhaseBTotal
              + MulDivShare(n - PhaseACycles - PhaseBCycles, AnnualC, CyclesPerYear)
    BY <1>4, <2>2 DEF GetSuperblockCumulativeTarget
  <2>4. MulDivShare(n - PhaseACycles - PhaseBCycles, AnnualC, CyclesPerYear) \in 0..PhaseCTotal
    BY <1>0, <2>1, PhaseShares, SMT
  <2> QED
    BY <1>0, <1>4, <2>3, <2>4, SMT DEF PoolTotal
<1>5. CASE n > PhaseACycles + PhaseBCycles + PhaseCCycles
  <2>1. /\ ~(n <= 0) /\ ~(n <= PhaseACycles) /\ ~(n <= PhaseACycles + PhaseBCycles)
        /\ ~(n <= PhaseACycles + PhaseBCycles + PhaseCCycles)
    BY <1>0, <1>5, SMT
  <2>2. GetSuperblockCumulativeTarget(i) = PoolTotal
    BY <2>1 DEF GetSuperblockCumulativeTarget
  <2> QED
    BY <2>1, <2>2
<1> QED
  BY <1>0, <1>1, <1>2, <1>3, <1>4, <1>5

\* GetSuperblockCumulativeTarget never releases more than the pool's
\* allocation, so the assertion of MulDivShare that its result fits an amount
\* holds whenever the allocation itself fits one.
THEOREM ScheduleBounded ==
  \A i \in Int : GetSuperblockCumulativeTarget(i) \in 0..PoolTotal
  BY TargetByPhase, PhasesNat, SMT DEF PoolTotal

\* The cumulative target never decreases: the assertion "cur >= prev" of
\* GetSuperblockPayout holds at every height and across the phase boundaries.
THEOREM ScheduleMonotone ==
  \A i \in Int : GetSuperblockCumulativeTarget(i - 1) <= GetSuperblockCumulativeTarget(i)
<1> SUFFICES ASSUME NEW i \in Int
             PROVE  GetSuperblockCumulativeTarget(i - 1) <= GetSuperblockCumulativeTarget(i)
  OBVIOUS
<1> DEFINE n == i + 1
           P == GetSuperblockCumulativeTarget(i - 1)
           T == GetSuperblockCumulativeTarget(i)
<1>0. PhaseACycles \in Nat /\ PhaseBCycles \in Nat /\ PhaseCCycles \in Nat
      /\ PhaseATotal \in Nat /\ PhaseBTotal \in Nat /\ PhaseCTotal \in Nat
  BY PhasesNat, SMT
<1>1. P \in 0..PoolTotal /\ T \in 0..PoolTotal
  BY ScheduleBounded, SMT
<1>2. CASE n <= 1
  <2>1. P = 0
    BY <1>2, TargetByPhase, SMT
  <2> QED
    BY <1>1, <2>1, SMT
<1>3. CASE n > 1 /\ n <= PhaseACycles
  <2>1. /\ T = MulDivShare(n, AnnualA, CyclesPerYear)
        /\ P = MulDivShare(n - 1, AnnualA, CyclesPerYear)
    BY <1>0, <1>3, TargetByPhase, SMT
  <2> QED
    BY <1>0, <1>3, <2>1, PhaseShares, SMT
<1>4. CASE n > 1 /\ n > PhaseACycles /\ n <= PhaseACycles + PhaseBCycles
  <2>1. T = PhaseATotal + MulDivShare(n - PhaseACycles, AnnualB, CyclesPerYear) /\ T >= PhaseATotal
    BY <1>0, <1>4, TargetByPhase, SMT
  <2>2. CASE n - 1 <= PhaseACycles
    <3>1. P <= PhaseATotal
      BY <1>0, <1>4, <2>2, TargetByPhase, SMT
    <3> QED
      BY <1>0, <1>1, <2>1, <3>1, SMT
  <2>3. CASE n - 1 > PhaseACycles
    <3>1. P = PhaseATotal + MulDivShare(n - 1 - PhaseACycles, AnnualB, CyclesPerYear)
      BY <1>0, <1>4, <2>3, TargetByPhase, SMT
    <3>2. n - 1 - PhaseACycles \in Nat /\ n - PhaseACycles \in Nat
          /\ n - 1 - PhaseACycles <= n - PhaseACycles /\ n - PhaseACycles <= PhaseBCycles
      BY <1>0, <1>4, <2>3, SMT
    <3> QED
      BY <1>0, <2>1, <3>1, <3>2, PhaseShares, SMT
  <2> QED
    BY <1>0, <2>2, <2>3, SMT
<1>5. CASE /\ n > 1
           /\ n > PhaseACycles + PhaseBCycles
           /\ n <= PhaseACycles + PhaseBCycles + PhaseCCycles
  <2>1. /\ T = PhaseATotal + PhaseBTotal
                 + MulDivShare(n - PhaseACycles - PhaseBCycles, AnnualC, CyclesPerYear)
        /\ T >= PhaseATotal + PhaseBTotal
    BY <1>0, <1>5, TargetByPhase, SMT
  <2>2. CASE n - 1 <= PhaseACycles + PhaseBCycles
    <3>1. P <= PhaseATotal + PhaseBTotal
      BY <1>0, <1>5, <2>2, TargetByPhase, SMT
    <3> QED
      BY <1>0, <1>1, <2>1, <3>1, SMT
  <2>3. CASE n - 1 > PhaseACycles + PhaseBCycles
    <3>1. P = PhaseATotal + PhaseBTotal
                + MulDivShare(n - 1 - PhaseACycles - PhaseBCycles, AnnualC, CyclesPerYear)
      BY <1>0, <1>5, <2>3, TargetByPhase, SMT
    <3>2. /\ n - 1 - PhaseACycles - PhaseBCycles \in Nat
          /\ n - PhaseACycles - PhaseBCycles \in Nat
          /\ n - 1 - PhaseACycles - PhaseBCycles <= n - PhaseACycles - PhaseBCycles
          /\ n - PhaseACycles - PhaseBCycles <= PhaseCCycles
      BY <1>0, <1>5, <2>3, SMT
    <3> QED
      BY <1>0, <2>1, <3>1, <3>2, PhaseShares, SMT
  <2> QED
    BY <1>0, <2>2, <2>3, SMT
<1>6. CASE n > 1 /\ n > PhaseACycles + PhaseBCycles + PhaseCCycles
  <2>1. T = PoolTotal
    BY <1>0, <1>6, TargetByPhase
  <2> QED
    BY <1>1, <2>1, SMT
<1> QED
  BY <1>0, <1>2, <1>3, <1>4, <1>5, <1>6, SMT

\* A year's cycles of a phase release exactly the year's amount: the rounding
\* of single cycles never carries over the end of a year.
THEOREM ScheduleExactAtYearEnds ==
  \A y \in Nat \ {0} :
    /\ y <= YearsA =>
         GetSuperblockCumulativeTarget(y * CyclesPerYear - 1) = y * AnnualA
    /\ y <= YearsB =>
         GetSuperblockCumulativeTarget(PhaseACycles + y * CyclesPerYear - 1)
           = PhaseATotal + y * AnnualB
    /\ y <= YearsC =>
         GetSuperblockCumulativeTarget(PhaseACycles + PhaseBCycles + y * CyclesPerYear - 1)
           = PhaseATotal + PhaseBTotal + y * AnnualC
<1> SUFFICES ASSUME NEW y \in Nat \ {0}
             PROVE  /\ y <= YearsA =>
                         GetSuperblockCumulativeTarget(y * CyclesPerYear - 1) = y * AnnualA
                    /\ y <= YearsB =>
                         GetSuperblockCumulativeTarget(PhaseACycles + y * CyclesPerYear - 1)
                           = PhaseATotal + y * AnnualB
                    /\ y <= YearsC =>
                         GetSuperblockCumulativeTarget(
                             PhaseACycles + PhaseBCycles + y * CyclesPerYear - 1)
                           = PhaseATotal + PhaseBTotal + y * AnnualC
  OBVIOUS
<1> DEFINE m == y * CyclesPerYear
<1>0. PhaseACycles \in Nat /\ PhaseBCycles \in Nat /\ PhaseCCycles \in Nat
      /\ PhaseATotal \in Nat /\ PhaseBTotal \in Nat /\ PhaseCTotal \in Nat
  BY PhasesNat
<1>1. m \in Nat /\ m > 0
  <2>1. 1 * CyclesPerYear <= y * CyclesPerYear
    BY ScheduleAssumption, MulMonotone, SMT
  <2> QED
    BY <2>1, ScheduleAssumption, MulNat, SMT
<1>2. /\ MulDivShare(m, AnnualA, CyclesPerYear) = y * AnnualA
      /\ MulDivShare(m, AnnualB, CyclesPerYear) = y * AnnualB
      /\ MulDivShare(m, AnnualC, CyclesPerYear) = y * AnnualC
  BY ScheduleAssumption, WholeYears
<1>3. /\ y <= YearsA => m <= PhaseACycles
      /\ y <= YearsB => m <= PhaseBCycles
      /\ y <= YearsC => m <= PhaseCCycles
  BY ScheduleAssumption, MulMonotone DEF PhaseACycles, PhaseBCycles, PhaseCCycles
<1> HIDE DEF m
<1>4. y <= YearsA => GetSuperblockCumulativeTarget(m - 1) = y * AnnualA
  <2> SUFFICES ASSUME y <= YearsA
               PROVE  GetSuperblockCumulativeTarget(m - 1) = y * AnnualA
    OBVIOUS
  <2> DEFINE i == m - 1
  <2>1. i \in Int /\ i + 1 = m /\ i + 1 > 0 /\ i + 1 <= PhaseACycles
    BY <1>0, <1>1, <1>3, SMT
  <2> HIDE DEF i
  <2>2. GetSuperblockCumulativeTarget(i) = MulDivShare(i + 1, AnnualA, CyclesPerYear)
    BY <2>1, TargetByPhase
  <2> QED
    BY <1>2, <2>1, <2>2 DEF i
<1>5. y <= YearsB => GetSuperblockCumulativeTarget(PhaseACycles + m - 1)
                       = PhaseATotal + y * AnnualB
  <2> SUFFICES ASSUME y <= YearsB
               PROVE  GetSuperblockCumulativeTarget(PhaseACycles + m - 1)
                        = PhaseATotal + y * AnnualB
    OBVIOUS
  <2> DEFINE i == PhaseACycles + m - 1
  <2>1. /\ i \in Int /\ i + 1 - PhaseACycles = m
        /\ i + 1 > PhaseACycles /\ i + 1 <= PhaseACycles + PhaseBCycles
    BY <1>0, <1>1, <1>3, SMT
  <2> HIDE DEF i
  <2>2. GetSuperblockCumulativeTarget(i)
          = PhaseATotal + MulDivShare(i + 1 - PhaseACycles, AnnualB, CyclesPerYear)
    BY <2>1, TargetByPhase
  <2> QED
    BY <1>2, <2>1, <2>2 DEF i
<1>6. y <= YearsC => GetSuperblockCumulativeTarget(PhaseACycles + PhaseBCycles + m - 1)
                       = PhaseATotal + PhaseBTotal + y * AnnualC
  <2> SUFFICES ASSUME y <= YearsC
               PROVE  GetSuperblockCumulativeTarget(PhaseACycles + PhaseBCycles + m - 1)
                        = PhaseATotal + PhaseBTotal + y * AnnualC
    OBVIOUS
  <2> DEFINE i == PhaseACycles + PhaseBCycles + m - 1
  <2>1. /\ i \in Int /\ i + 1 - PhaseACycles - PhaseBCycles = m
        /\ i + 1 > PhaseACycles + PhaseBCycles
        /\ i + 1 <= PhaseACycles + PhaseBCycles + PhaseCCycles
    BY <1>0, <1>1, <1>3, SMT
  <2> HIDE DEF i
  <2>2. GetSuperblockCumulativeTarget(i)
          = PhaseATotal + PhaseBTotal
              + MulDivShare(i + 1 - PhaseACycles - PhaseBCycles, AnnualC, CyclesPerYear)
    BY <2>1, TargetByPhase
  <2> QED
    BY <1>2, <2>1, <2>2 DEF i
<1> QED
  BY <1>4, <1>5, <1>6 DEF m

\* GetSuperblockPayout is never negative and never more than the allocation.
THEOREM PayoutInRange ==
  \A h \in Nat : GetSuperblockPayout(h) \in 0..PoolTotal
<1> SUFFICES ASSUME NEW h \in Nat
             PROVE  GetSuperblockPayout(h) \in 0..PoolTotal
  OBVIOUS
<1>0. PoolTotal \in Nat
  BY PhasesNat, SMT DEF PoolTotal
<1>1. CASE ~IsSuperblockHeight(h)
  BY <1>0, <1>1, SMT DEF GetSuperblockPayout
<1>2. CASE IsSuperblockHeight(h)
  <2>1. h - nFirst \in Nat
    BY <1>2, ChainAssumption, SMT DEF IsSuperblockHeight
  <2>2. GetSuperblockCycleIndex(h) \in Nat
    BY <2>1, ChainAssumption, DivBounds DEF GetSuperblockCycleIndex
  <2> DEFINE i == GetSuperblockCycleIndex(h)
  <2>3. /\ GetSuperblockCumulativeTarget(i - 1) \in 0..PoolTotal
        /\ GetSuperblockCumulativeTarget(i) \in 0..PoolTotal
        /\ GetSuperblockCumulativeTarget(i - 1) <= GetSuperblockCumulativeTarget(i)
    BY <2>2, ScheduleBounded, ScheduleMonotone, SMT
  <2> QED
    BY <1>0, <1>2, <2>3, SMT DEF GetSuperblockPayout
<1> QED
  BY <1>1, <1>2

-----------------------------------------------------------------------------
(* The distribution. *)

\* The shares of a cycle's stakers stay within what is payable, and rounding
\* keeps back less than one unit per staker: the assertions at the end of
\* ComputeSuperblockDistribution never fail, whatever the tally, the target
\* and the value of the pool's coin.
THEOREM DistributionBounds ==
  ASSUME NEW D, IsFiniteSet(D), D # {}, NEW tally \in [D -> Nat \ {0}],
         NEW target \in Nat, NEW pool \in Nat
  PROVE  LET payable == IF target > pool THEN pool ELSE target
             shares == Shares(tally, target, pool)
         IN  /\ shares \in [DOMAIN shares -> Nat] /\ DOMAIN shares \subseteq D
             /\ SumFunction(shares) \in 0..payable
             /\ payable - SumFunction(shares) < Cardinality(D)
<1> DEFINE payable == IF target > pool THEN pool ELSE target
           total == SumFunctionOnSet(tally, D)
           share == [s \in D |-> MulDivShare(tally[s], payable, total)]
           P == {s \in D : share[s] > 0}
           shares == Shares(tally, target, pool)
<1>1. payable \in Nat
  OBVIOUS
<1> HIDE DEF payable
<1>2. total \in Nat \ {0}
  <2>1. PICK s \in D : TRUE
    OBVIOUS
  <2>2. total \in Nat /\ tally[s] <= total
    BY SumNat
  <2> QED
    BY <2>1, <2>2, SMT
<1> HIDE DEF total
<1>3. ASSUME NEW s \in D
      PROVE  /\ share[s] \in Nat
             /\ total * share[s] <= payable * tally[s] + 0
             /\ payable * tally[s] <= total * share[s] + (total - 1)
  <2> DEFINE x == tally[s] * payable
  <2>1. x \in Nat /\ x = payable * tally[s]
    <3>1. tally[s] \in Nat
      OBVIOUS
    <3>2. x \in Nat
      BY <1>1, <3>1, MulNat
    <3> QED
      BY <1>1, <3>1, <3>2, SMT
  <2>2. share[s] = x \div total
    BY DEF MulDivShare
  <2> HIDE DEF x, share
  <2>3. x \div total \in Nat /\ total * (x \div total) <= x /\ x < total * (x \div total) + total
    BY <1>2, <2>1, DivBounds
  <2>4. total * (x \div total) \in Nat
    BY <1>2, <2>3, MulNat
  <2> DEFINE q == x \div total
             y == total * q
  <2>5. y \in Nat /\ y <= x /\ x < y + total /\ total * share[s] = y /\ share[s] \in Nat
    BY <2>2, <2>3, <2>4
  <2> HIDE DEF y
  <2> QED
    BY <1>2, <2>1, <2>5, SMT
<1>4. /\ shares = [s \in P |-> share[s]] /\ DOMAIN shares = P
      /\ shares \in [P -> Nat] /\ P \subseteq D
  <2>1. DOMAIN tally = D
    OBVIOUS
  <2>2. shares = [s \in P |-> share[s]]
    BY <2>1 DEF Shares, SumFunction, total, payable
  <2> QED
    BY <1>3, <2>2
<1> HIDE DEF share, shares
<1>5. SumFunction(shares) = SumFunctionOnSet(share, D)
  <2>1. SumFunction(shares) = SumFunctionOnSet(shares, P)
    BY <1>4 DEF SumFunction
  <2>2. IsFiniteSet(P) /\ P \in SUBSET D
    BY FS_Subset
  <2>3. \A s \in P : shares[s] \in Int /\ shares[s] = share[s]
    BY <1>4, SMT
  <2>4. \A s \in D : share[s] \in Int
    BY <1>3, SMT
  <2>5. \A s \in D \ P : share[s] = 0
    BY <1>3, SMT
  <2> HIDE DEF P
  <2>6. SumFunctionOnSet(shares, P) = SumFunctionOnSet(share, P)
    BY <2>2, <2>3, SumCongruent
  <2>7. SumFunctionOnSet(share, D) = SumFunctionOnSet(share, P)
    BY <2>2, <2>4, <2>5, SumSupport
  <2> QED
    BY <2>1, <2>6, <2>7
<1> DEFINE sum == SumFunctionOnSet(share, D)
           c == Cardinality(D)
<1>6. c \in Nat /\ c # 0
  BY FS_CardinalityType, FS_EmptySet
<1>7. sum \in Nat
  BY <1>3, SumNat
<1>8. total * sum <= payable * total + 0 * c
  <2>1. \A s \in D : tally[s] \in Int /\ share[s] \in Int
    BY <1>3, SMT
  <2>2. \A s \in D : total * share[s] <= payable * tally[s] + 0
    BY <1>3
  <2>3. total \in Int /\ payable \in Int /\ 0 \in Int
    BY <1>1, <1>2, SMT
  <2>4. total * SumFunctionOnSet(share, D)
          <= payable * SumFunctionOnSet(tally, D) + 0 * Cardinality(D)
    BY <2>1, <2>2, <2>3, SumBound, Zenon
  <2> QED
    BY <2>4 DEF total
<1>9. payable * total <= total * sum + (total - 1) * c
  <2>1. \A s \in D : tally[s] \in Int /\ share[s] \in Int
    BY <1>3, SMT
  <2>2. \A s \in D : payable * tally[s] <= total * share[s] + (total - 1)
    BY <1>3
  <2> DEFINE d == total - 1
  <2>3. d \in Int
    BY <1>2, SMT
  <2> HIDE DEF d
  <2>4. \A s \in D : payable * tally[s] <= total * share[s] + d
    BY <2>2 DEF d
  <2>5. total \in Int /\ payable \in Int
    BY <1>1, <1>2, SMT
  <2>6. payable * SumFunctionOnSet(tally, D)
          <= total * SumFunctionOnSet(share, D) + d * Cardinality(D)
    BY <2>1, <2>3, <2>4, <2>5, SumBound, Zenon
  <2> QED
    BY <2>6 DEF d, total
<1> HIDE DEF sum, c
<1>10. sum <= payable
  <2> SUFFICES ASSUME sum >= payable + 1 PROVE FALSE
    BY <1>1, <1>7, SMT
  <2>1. (payable + 1) * total <= sum * total
    BY <1>1, <1>2, <1>7, MulMonotone, SMT
  <2>2. (payable + 1) * total = payable * total + total /\ sum * total = total * sum
    BY <1>1, <1>2, <1>7, SMT
  <2>3. payable * total \in Nat /\ total * sum \in Nat
    BY <1>1, <1>2, <1>7, MulNat
  <2> QED
    BY <1>2, <1>6, <1>8, <2>1, <2>2, <2>3, SMT
<1>11. payable - sum < c
  <2> SUFFICES ASSUME sum + c <= payable PROVE FALSE
    BY <1>1, <1>6, <1>7, SMT
  <2>1. (sum + c) * total <= payable * total
    BY <1>1, <1>2, <1>6, <1>7, MulMonotone, SMT
  <2>2. (sum + c) * total = total * sum + c * total /\ (total - 1) * c = c * total - c
    BY <1>2, <1>6, <1>7, SMT
  <2>3. payable * total \in Nat /\ total * sum \in Nat /\ c * total \in Nat
    BY <1>1, <1>2, <1>6, <1>7, MulNat
  <2> QED
    BY <1>6, <1>9, <2>1, <2>2, <2>3, SMT
<1>12. /\ shares \in [DOMAIN shares -> Nat] /\ DOMAIN shares \subseteq D
       /\ SumFunction(shares) \in 0..payable
       /\ payable - SumFunction(shares) < Cardinality(D)
  BY <1>1, <1>4, <1>5, <1>7, <1>10, <1>11, SMT DEF sum, c
<1> QED
  BY <1>12 DEF shares, payable

-----------------------------------------------------------------------------
(* The ledger: the coins the payouts spend and return. *)

\* A payout: what it gives the stakers and returns to the pool is what it spends.
Payouts ==
  {t \in [spent : Nat, shares : UNION {[D -> Nat] : D \in SUBSET Stakers}, change : Nat] :
     Paid(t) \in Nat /\ t.spent = Paid(t) + t.change}

Blocks == [staker : Stakers \union {NoStaker}, payouts : Seq(Payouts), pool : Nat]

\* Each payout spends the change of the one before, the first one the pool's coin.
Chained(pool, ps) ==
  \A j \in 1..Len(ps) : ps[j].spent = IF j = 1 THEN pool ELSE ps[j - 1].change

\* The pool's coin after a block's payouts.
After(pool, ps) == IF ps = <<>> THEN pool ELSE ps[Len(ps)].change

\* The block at height k follows the one below it.
Follows(k) ==
  /\ Chained(chain[k - 1].pool, chain[k].payouts)
  /\ chain[k].pool = After(chain[k - 1].pool, chain[k].payouts)

\* The inductive invariant of the ledger, for every relay fee.
Ledger ==
  /\ chain \in Seq(Blocks) /\ Len(chain) >= 1
  /\ mempool \in Seq(Payouts)
  /\ chain[1].payouts = <<>> /\ chain[1].pool = PoolTotal
  /\ \A k \in 2..Len(chain) : Follows(k)
  /\ Chained(chain[Len(chain)].pool, mempool)

\* The parts of the chain.
LEMMA ChainTyped ==
  ASSUME chain \in Seq(Blocks)
  PROVE  /\ Len(chain) \in Nat /\ DOMAIN chain = 1..Len(chain)
         /\ \A k \in 1..Len(chain) :
              /\ chain[k].staker \in Stakers \union {NoStaker}
              /\ chain[k].payouts \in Seq(Payouts)
              /\ chain[k].pool \in Nat
<1>1. Len(chain) \in Nat /\ DOMAIN chain = 1..Len(chain)
  BY SMT
<1>2. \A k \in 1..Len(chain) : chain[k] \in Blocks
  BY SMT
<1>3. \A b \in Blocks : /\ b.staker \in Stakers \union {NoStaker}
                        /\ b.payouts \in Seq(Payouts) /\ b.pool \in Nat
  BY DEF Blocks
<1> QED
  BY <1>1, <1>2, <1>3

\* A cycle that was staked has a tally: its stakers, each with a block at least.
LEMMA TallyFacts ==
  ASSUME chain \in Seq(Blocks), NEW h \in Nat, StakedInCycle(h) # {}
  PROVE  LET D == DOMAIN TallyStakersInCycle(h)
         IN  /\ D \subseteq Stakers /\ D # {} /\ IsFiniteSet(D)
             /\ TallyStakersInCycle(h) \in [D -> Nat \ {0}]
             /\ Cardinality(D) <= Cardinality(Stakers)
             /\ Cardinality(Stakers) \in Nat
<1> DEFINE K == StakedInCycle(h)
           D == {chain[k].staker : k \in K}
           Of(s) == {k \in K : chain[k].staker = s}
<1>1. DOMAIN chain = 1..Len(chain) /\ Len(chain) \in Nat
      /\ \A k \in 1..Len(chain) : chain[k].staker \in Stakers \union {NoStaker}
  BY ChainTyped
<1>2. K \subseteq 1..Len(chain) /\ \A k \in K : chain[k].staker \in Stakers
  BY <1>1 DEF StakedInCycle
<1>3. D \subseteq Stakers /\ D # {}
  BY <1>2
<1>4. IsFiniteSet(D) /\ Cardinality(D) <= Cardinality(Stakers) /\ Cardinality(Stakers) \in Nat
  <2> HIDE DEF D
  <2> QED
    BY <1>3, ChainAssumption, FS_Subset, FS_CardinalityType
<1>5. IsFiniteSet(K)
  <2>1. IsFiniteSet(1..Len(chain))
    BY <1>1, FS_Interval, SMT
  <2> HIDE DEF K
  <2> QED
    BY <1>2, <2>1, FS_Subset
<1>6. ASSUME NEW s \in D PROVE Cardinality(Of(s)) \in Nat \ {0}
  <2>1. Of(s) # {}
    BY <1>6
  <2>2. Of(s) \subseteq K
    OBVIOUS
  <2> HIDE DEF K, Of
  <2>3. IsFiniteSet(Of(s))
    BY <1>5, <2>2, FS_Subset
  <2> QED
    BY <2>1, <2>3, FS_CardinalityType, FS_EmptySet
<1>7. TallyStakersInCycle(h) = [s \in D |-> Cardinality(Of(s))]
  BY DEF TallyStakersInCycle
<1> HIDE DEF D, Of, K
<1>8. TallyStakersInCycle(h) \in [D -> Nat \ {0}] /\ DOMAIN TallyStakersInCycle(h) = D
  BY <1>6, <1>7
<1> QED
  BY <1>3, <1>4, <1>8

\* The payout of a superblock spends the pool's coin, loses nothing, and pays
\* at most the scheduled amount; of that amount, or of the pool when it holds
\* less, it keeps back less than one unit per staker (BuildSuperblockPayoutOutputs).
LEMMA PayoutFacts ==
  ASSUME chain \in Seq(Blocks), NEW h \in Nat, NEW pool \in Nat,
         NEW t \in BuildSuperblockPayoutOutputs(h, pool)
  PROVE  /\ t \in Payouts /\ t.spent = pool
         /\ IsSuperblockHeight(h) /\ GetSuperblockPayout(h) \in Nat \ {0} /\ StakedInCycle(h) # {}
         /\ Paid(t) \in Nat /\ Paid(t) <= GetSuperblockPayout(h)
         /\ GetSuperblockPayout(h) <= pool =>
              GetSuperblockPayout(h) - Paid(t) <= Cardinality(Stakers) - 1
         /\ pool < GetSuperblockPayout(h) => pool - Paid(t) <= Cardinality(Stakers) - 1
<1> DEFINE target == GetSuperblockPayout(h)
           tally == TallyStakersInCycle(h)
           D == DOMAIN tally
           shares == Shares(tally, target, pool)
           payable == IF target > pool THEN pool ELSE target
<1>1. /\ StakedInCycle(h) # {} /\ target > 0
      /\ t = ComputeSuperblockDistribution(tally, target, pool)
  BY DEF BuildSuperblockPayoutOutputs
<1>2. target \in Nat
  BY PayoutInRange, SMT
<1>3. IsSuperblockHeight(h)
  BY <1>1, SMT DEF GetSuperblockPayout
<1>4. t = [spent |-> pool, shares |-> shares, change |-> pool - SumFunction(shares)]
  BY <1>1 DEF ComputeSuperblockDistribution
<1> HIDE DEF target
<1>5. /\ D \subseteq Stakers /\ D # {} /\ IsFiniteSet(D) /\ tally \in [D -> Nat \ {0}]
      /\ Cardinality(D) <= Cardinality(Stakers) /\ Cardinality(Stakers) \in Nat
  BY <1>1, TallyFacts
<1> HIDE DEF tally, D
<1>6. /\ shares \in [DOMAIN shares -> Nat] /\ DOMAIN shares \subseteq D
      /\ SumFunction(shares) \in 0..payable
      /\ payable - SumFunction(shares) < Cardinality(D)
  BY <1>2, <1>5, DistributionBounds
<1> HIDE DEF shares
<1>7. Paid(t) = SumFunction(shares)
  BY <1>4 DEF Paid
<1>8. /\ Paid(t) \in Nat /\ Paid(t) <= target /\ Paid(t) <= pool
      /\ target <= pool => target - Paid(t) < Cardinality(D)
      /\ pool < target => pool - Paid(t) < Cardinality(D)
  BY <1>2, <1>6, <1>7, SMT
<1>9. Cardinality(D) \in Nat
  BY <1>5, FS_CardinalityType
<1>10. t \in Payouts /\ t.spent = pool
  <2>1. shares \in UNION {[E -> Nat] : E \in SUBSET Stakers}
    BY <1>5, <1>6
  <2>2. pool - SumFunction(shares) \in Nat
    BY <1>7, <1>8, SMT
  <2>3. t \in [spent : Nat, shares : UNION {[E -> Nat] : E \in SUBSET Stakers}, change : Nat]
    BY <1>4, <2>1, <2>2
  <2>4. t.spent = pool /\ t.change = pool - Paid(t)
    BY <1>4, <1>7
  <2>5. t.spent = Paid(t) + t.change
    BY <1>8, <2>4, SMT
  <2> QED
    BY <1>8, <2>3, <2>4, <2>5 DEF Payouts
<1> QED
  BY <1>1, <1>2, <1>3, <1>5, <1>8, <1>9, <1>10, SMT DEF target

\* The parts of a payout; the fee of every payout is zero.
LEMMA PayoutTyped ==
  ASSUME NEW t \in Payouts
  PROVE  /\ t.spent \in Nat /\ t.change \in Nat /\ Paid(t) \in Nat
         /\ t.spent = Paid(t) + t.change /\ Fee(t) = 0
<1>1. t.spent \in Nat /\ t.change \in Nat /\ Paid(t) \in Nat /\ t.spent = Paid(t) + t.change
  BY DEF Payouts
<1> QED
  BY <1>1, SMT DEF Fee

\* Payouts that spend each other's change take from the pool what they pay.
LEMMA ChainedTotal ==
  ASSUME NEW pool \in Nat, NEW ps \in Seq(Payouts), Chained(pool, ps)
  PROVE  /\ After(pool, ps) \in Nat
         /\ TotalPaid(ps) = pool - After(pool, ps)
<1> DEFINE n == Len(ps)
           v == [j \in 0..n |-> IF j = 0 THEN pool ELSE ps[j].change]
           f == [j \in DOMAIN ps |-> Paid(ps[j])]
<1>1. n \in Nat /\ DOMAIN ps = 1..n /\ \A j \in 1..n : ps[j] \in Payouts
  BY SMT
<1>2. \A j \in 1..n : /\ ps[j].spent \in Nat /\ ps[j].change \in Nat /\ Paid(ps[j]) \in Nat
                      /\ ps[j].spent = Paid(ps[j]) + ps[j].change
  BY <1>1, PayoutTyped
<1>3. \A j \in 0..n : v[j] \in Int /\ v[j] \in Nat
  <2>1. ASSUME NEW j \in 0..n, j # 0 PROVE ps[j].change \in Nat
    <3>1. j \in 1..n
      BY <1>1, <2>1, SMT
    <3> QED
      BY <1>2, <3>1
  <2> QED
    BY <2>1, SMT
<1>4. ASSUME NEW j \in 1..n PROVE f[j] = v[j - 1] - v[j]
  <2>1. j \in Nat /\ j # 0 /\ j \in 0..n /\ j - 1 \in 0..n /\ (j - 1 = 0 <=> j = 1)
    BY <1>1, SMT
  <2>2. v[j] = ps[j].change /\ v[j - 1] = IF j = 1 THEN pool ELSE ps[j - 1].change
    BY <2>1
  <2>3. ps[j].spent = v[j - 1]
    BY <2>2 DEF Chained
  <2>4. f[j] = Paid(ps[j])
    BY <1>1
  <2> HIDE DEF v, f
  <2> QED
    BY <1>2, <2>2, <2>3, <2>4, SMT
<1>5. v[0] = pool /\ v[n] = After(pool, ps)
  <2>1. 0 \in 0..n /\ n \in 0..n /\ (n = 0 <=> ps = <<>>)
    BY <1>1, SMT
  <2> QED
    BY <2>1 DEF After
<1>6. TotalPaid(ps) = SumFunctionOnSet(f, 1..n)
  BY <1>1 DEF TotalPaid, SumFunction
<1>7. v[n] \in Nat
  <2>1. n \in 0..n
    BY <1>1, SMT
  <2> QED
    BY <1>3, <2>1
<1> HIDE DEF v, f, n
<1>8. SumFunctionOnSet(f, 1..n) = v[0] - v[n]
  BY <1>1, <1>3, <1>4, SumTelescopes
<1> QED
  BY <1>5, <1>6, <1>7, <1>8

\* The ledger accounts for every unit of the allocation.
LEMMA LedgerConserves ==
  ASSUME Ledger
  PROVE  PoolConserved
<1> DEFINE n == Len(chain)
           v == [k \in 0..n |-> IF k = 0 THEN PoolTotal ELSE chain[k].pool]
           f == [k \in DOMAIN chain |-> TotalPaid(chain[k].payouts)]
<1>1. /\ n \in Nat /\ n >= 1 /\ DOMAIN chain = 1..n
      /\ \A k \in 1..n : chain[k].payouts \in Seq(Payouts) /\ chain[k].pool \in Nat
  <2>1. chain \in Seq(Blocks) /\ n >= 1
    BY DEF Ledger
  <2> QED
    BY <2>1, ChainTyped
<1>2. PoolTotal \in Nat
  BY PhasesNat, SMT DEF PoolTotal
<1>3. \A k \in 0..n : v[k] \in Int
  <2>1. ASSUME NEW k \in 0..n, k # 0 PROVE chain[k].pool \in Nat
    <3>1. k \in 1..n
      BY <1>1, <2>1, SMT
    <3> QED
      BY <1>1, <3>1
  <2> QED
    BY <1>2, <2>1, SMT
<1>4. ASSUME NEW k \in 1..n PROVE f[k] = v[k - 1] - v[k]
  <2>1. f[k] = TotalPaid(chain[k].payouts) /\ k \in 0..n /\ k # 0 /\ v[k] = chain[k].pool
    BY <1>1, SMT
  <2>2. CASE k = 1
    <3>1. Chained(PoolTotal, <<>>) /\ After(PoolTotal, <<>>) = PoolTotal
      BY SMT DEF Chained, After
    <3>2. TotalPaid(<<>>) = PoolTotal - PoolTotal
      <4>1. <<>> \in Seq(Payouts)
        BY SMT
      <4> QED
        BY <1>2, <3>1, <4>1, ChainedTotal
    <3>3. 0 \in 0..n /\ v[0] = PoolTotal /\ k - 1 = 0
      BY <1>1, <2>2, SMT
    <3> QED
      BY <2>1, <2>2, <3>2, <3>3 DEF Ledger
  <2>3. CASE k # 1
    <3>1. k \in 2..n /\ k - 1 \in 1..n /\ k - 1 \in 0..n /\ k - 1 # 0
      BY <1>1, <2>3, SMT
    <3>2. Follows(k) /\ chain[k - 1].pool \in Nat /\ chain[k].payouts \in Seq(Payouts)
      BY <1>1, <3>1 DEF Ledger
    <3>3. TotalPaid(chain[k].payouts) = chain[k - 1].pool - chain[k].pool
      BY <3>2, ChainedTotal DEF Follows
    <3>4. v[k - 1] = chain[k - 1].pool
      BY <3>1
    <3> QED
      BY <2>1, <3>3, <3>4
  <2> QED
    BY <2>2, <2>3
<1>5. v[0] = PoolTotal /\ v[n] = Pool
  <2>1. 0 \in 0..n /\ n \in 0..n /\ n # 0
    BY <1>1, SMT
  <2> QED
    BY <2>1 DEF Pool
<1>6. SumFunction(f) = SumFunctionOnSet(f, 1..n)
  BY <1>1 DEF SumFunction
<1>7. v[n] \in Int
  <2>1. n \in 0..n
    BY <1>1, SMT
  <2> QED
    BY <1>3, <2>1
<1>8. SumFunctionOnSet(f, 1..n) = v[0] - v[n]
  <2> HIDE DEF v, f, n
  <2> QED
    BY <1>1, <1>3, <1>4, SumTelescopes
<1>9. Pool + SumFunction(f) = PoolTotal
  <2> HIDE DEF v, f, n
  <2> QED
    BY <1>2, <1>5, <1>6, <1>7, <1>8, SMT
<1> QED
  BY <1>9 DEF PoolConserved

\* What the assembler takes is a part of the mempool that starts at the pool's
\* coin, as the mempool does (addPackageTxs).
LEMMA AddPackageTxsFacts ==
  ASSUME Ledger, NEW ps \in AddPackageTxs
  PROVE  /\ ps \in Seq(Payouts) /\ Chained(chain[Len(chain)].pool, ps)
         /\ Len(ps) <= Len(mempool) /\ ps = SubSeq(mempool, 1, Len(ps))
<1> DEFINE m == Len(mempool)
           pool == chain[Len(chain)].pool
<1>1. mempool \in Seq(Payouts) /\ m \in Nat /\ Chained(pool, mempool)
  <2>1. mempool \in Seq(Payouts) /\ Chained(pool, mempool)
    BY DEF Ledger
  <2> QED
    BY <2>1, SMT
<1>2. PICK n \in 0..m : ps = SubSeq(mempool, 1, n)
  BY DEF AddPackageTxs
<1> HIDE DEF pool
<1>3. /\ ps \in Seq(Payouts) /\ Len(ps) = n /\ n <= m
      /\ \A j \in 1..n : ps[j] = mempool[j]
  BY <1>1, <1>2, SMT
<1>4. ASSUME NEW j \in 1..n PROVE ps[j].spent = IF j = 1 THEN pool ELSE ps[j - 1].change
  <2>1. j \in 1..m /\ (j # 1 => j - 1 \in 1..n)
    BY <1>1, SMT
  <2>2. mempool[j].spent = IF j = 1 THEN pool ELSE mempool[j - 1].change
    BY <1>1, <2>1 DEF Chained
  <2>3. ps[j] = mempool[j] /\ (j # 1 => ps[j - 1] = mempool[j - 1])
    BY <1>3, <2>1
  <2> QED
    BY <2>2, <2>3
<1>5. Chained(pool, ps)
  BY <1>3, <1>4 DEF Chained
<1> QED
  BY <1>2, <1>3, <1>5 DEF pool

\* Connecting a block whose payouts start at the pool's coin keeps the ledger
\* (ConnectBlock, with removeForBlock).
LEMMA ConnectLedger ==
  ASSUME Ledger, NEW s, NEW ps \in Seq(Payouts), Chained(chain[Len(chain)].pool, ps),
         ConnectBlock(s, ps)
  PROVE  /\ Ledger'
         /\ Len(chain') = Len(chain) + 1 /\ \A k \in 1..Len(chain) : chain'[k] = chain[k]
         /\ chain'[Len(chain) + 1].staker = s /\ chain'[Len(chain) + 1].payouts = ps
         /\ chain'[Len(chain) + 1].pool = After(chain[Len(chain)].pool, ps)
<1> DEFINE n == Len(chain)
           m == Len(mempool)
           l == Len(ps)
           b == [staker |-> s, payouts |-> ps,
                 pool |-> IF ps = <<>> THEN Pool ELSE ps[l].change]
<1>1. /\ chain \in Seq(Blocks) /\ n \in Nat /\ n >= 1 /\ chain[n].pool \in Nat
      /\ mempool \in Seq(Payouts) /\ m \in Nat /\ l \in Nat
      /\ \A j \in 1..l : ps[j] \in Payouts
      /\ \A j \in 1..m : mempool[j] \in Payouts
  <2>1. n \in 1..Len(chain)
    BY SMT DEF Ledger
  <2>2. \A j \in 1..l : ps[j] \in Payouts
    BY SMT
  <2>3. \A j \in 1..m : mempool[j] \in Payouts
    BY SMT DEF Ledger
  <2>4. chain \in Seq(Blocks) /\ n >= 1 /\ mempool \in Seq(Payouts)
    BY DEF Ledger
  <2>5. n \in Nat /\ chain[n].pool \in Nat
    BY <2>1, <2>4, ChainTyped
  <2>6. m \in Nat /\ l \in Nat
    BY <2>4, SMT
  <2> QED
    BY <2>2, <2>3, <2>4, <2>5, <2>6
<1>2. chain' = Append(chain, b) /\ mempool' = MempoolAfter(ps) /\ s \in Producers(n + 1)
  BY DEF ConnectBlock
<1>3. b.pool = After(chain[n].pool, ps) /\ b.pool \in Nat
  <2>1. b.pool = After(chain[n].pool, ps)
    BY DEF Pool, After
  <2>2. After(chain[n].pool, ps) \in Nat
    BY <1>1, ChainedTotal
  <2> QED
    BY <2>1, <2>2
<1>4. b \in Blocks
  <2>1. s \in Stakers \union {NoStaker}
    BY <1>2 DEF Producers
  <2> QED
    BY <1>3, <2>1 DEF Blocks
<1>5. b.staker = s /\ b.payouts = ps
  OBVIOUS
<1> HIDE DEF b
<1>6. /\ chain' \in Seq(Blocks) /\ Len(chain') = n + 1
      /\ \A k \in 1..n : chain'[k] = chain[k]
      /\ chain'[n + 1] = b
  BY <1>1, <1>2, <1>4, SMT
<1>7. \A k \in 2..Len(chain') : Follows(k)'
  <2>1. ASSUME NEW k \in 2..(n + 1) PROVE Follows(k)'
    <3>1. CASE k \in 2..n
      <4>1. k \in 1..n /\ k - 1 \in 1..n
        BY <1>1, <3>1, SMT
      <4>2. chain'[k] = chain[k] /\ chain'[k - 1] = chain[k - 1]
        BY <1>6, <4>1
      <4>3. Follows(k)
        BY <3>1 DEF Ledger
      <4> QED
        BY <4>2, <4>3 DEF Follows
    <3>2. CASE k = n + 1
      <4>0. k - 1 = n /\ n \in 1..n
        BY <1>1, <3>2, SMT
      <4>1. chain'[k] = b /\ chain'[k - 1] = chain[n]
        BY <1>6, <3>2, <4>0
      <4> QED
        BY <1>3, <1>5, <4>1 DEF Follows
    <3> QED
      BY <1>1, <3>1, <3>2, SMT
  <2> QED
    BY <1>6, <2>1
<1>8. mempool' \in Seq(Payouts) /\ Chained(b.pool, mempool')
  <2>1. CASE ~(l <= m /\ ps = SubSeq(mempool, 1, l))
    <3>1. mempool' = <<>>
      BY <1>2, <2>1 DEF MempoolAfter
    <3> QED
      BY <3>1, SMT DEF Chained
  <2>2. CASE l <= m /\ ps = SubSeq(mempool, 1, l)
    <3>1. mempool' = SubSeq(mempool, l + 1, m) /\ l <= m
      BY <1>2, <2>2 DEF MempoolAfter
    <3>2. \A j \in 1..l : ps[j] = mempool[j]
      <4>1. \A j \in 1..l : SubSeq(mempool, 1, l)[j] = mempool[j]
        BY <1>1, <3>1, SMT
      <4> QED
        BY <2>2, <4>1
    <3>3. /\ mempool' \in Seq(Payouts) /\ Len(mempool') = m - l
          /\ \A j \in 1..(m - l) : mempool'[j] = mempool[l + j]
      BY <1>1, <3>1, SMT
    <3>4. ASSUME NEW j \in 1..(m - l)
          PROVE  mempool'[j].spent = IF j = 1 THEN b.pool ELSE mempool'[j - 1].change
      <4>1. l + j \in 1..m /\ mempool'[j] = mempool[l + j]
        BY <1>1, <3>1, <3>3, SMT
      <4>2. mempool[l + j].spent
              = IF l + j = 1 THEN chain[n].pool ELSE mempool[l + j - 1].change
        BY <4>1, SMT DEF Ledger, Chained
      <4>3. CASE j # 1
        <5>1. j - 1 \in 1..(m - l) /\ l + j # 1 /\ l + j - 1 = l + (j - 1)
          BY <1>1, <3>1, <4>3, SMT
        <5>2. mempool'[j - 1] = mempool[l + (j - 1)]
          BY <3>3, <5>1
        <5> QED
          BY <4>1, <4>2, <4>3, <5>1, <5>2
      <4>4. CASE j = 1 /\ l = 0
        <5>1. b.pool = chain[n].pool
          BY <1>3, <4>4, SMT DEF After
        <5> QED
          BY <4>1, <4>2, <4>4, <5>1, SMT
      <4>5. CASE j = 1 /\ l # 0
        <5>1. l + j # 1 /\ l + j - 1 = l /\ l \in 1..l
          BY <1>1, <4>5, SMT
        <5>2. b.pool = ps[l].change
          BY <1>3, <4>5, SMT DEF After
        <5>3. ps[l] = mempool[l]
          BY <3>2, <5>1
        <5> QED
          BY <4>1, <4>2, <4>5, <5>1, <5>2, <5>3
      <4> QED
        BY <4>3, <4>4, <4>5
    <3> QED
      BY <3>3, <3>4 DEF Chained
  <2> QED
    BY <2>1, <2>2
<1>9. chain'[1].payouts = <<>> /\ chain'[1].pool = PoolTotal
  <2>1. 1 \in 1..n
    BY <1>1, SMT
  <2>2. chain'[1] = chain[1]
    BY <1>6, <2>1
  <2> QED
    BY <2>2 DEF Ledger
<1>10. chain'[Len(chain')].pool = b.pool
  BY <1>6
<1>11. Ledger'
  <2>1. Len(chain') >= 1
    BY <1>1, <1>6, SMT
  <2>2. Chained(chain'[Len(chain')].pool, mempool')
    BY <1>8, <1>10
  <2> HIDE DEF n
  <2> QED
    BY <1>6, <1>7, <1>8, <1>9, <2>1, <2>2 DEF Ledger
<1> QED
  BY <1>3, <1>5, <1>6, <1>11

\* Disconnecting the tip returns its payouts to the mempool, where they again
\* start at the pool's coin (DisconnectTip).
LEMMA DisconnectLedger ==
  ASSUME Ledger, DisconnectTip
  PROVE  /\ Ledger'
         /\ Len(chain') = Len(chain) - 1 /\ \A k \in 1..Len(chain') : chain'[k] = chain[k]
<1> DEFINE n == Len(chain)
           ps == chain[n].payouts
           m == Len(mempool)
           l == Len(ps)
<1>1. /\ chain \in Seq(Blocks) /\ n \in Nat /\ n > 1 /\ n \in 2..n
      /\ ps \in Seq(Payouts) /\ l \in Nat /\ mempool \in Seq(Payouts) /\ m \in Nat
  <2>1. chain \in Seq(Blocks) /\ n > 1 /\ mempool \in Seq(Payouts)
    BY DEF Ledger, DisconnectTip
  <2>2. n \in Nat /\ m \in Nat
    BY <2>1, SMT
  <2>3. n \in 1..n /\ n \in 2..n
    BY <2>1, <2>2, SMT
  <2>4. ps \in Seq(Payouts)
    BY <2>1, <2>3, ChainTyped
  <2>5. l \in Nat
    BY <2>4, SMT
  <2> QED
    BY <2>1, <2>2, <2>3, <2>4, <2>5
<1>2. /\ chain' = SubSeq(chain, 1, n - 1) /\ mempool' = ps \o mempool
  BY DEF DisconnectTip
<1>3. /\ chain' \in Seq(Blocks) /\ Len(chain') = n - 1
      /\ \A k \in 1..(n - 1) : chain'[k] = chain[k]
  BY <1>1, <1>2, SMT
<1>4. /\ mempool' \in Seq(Payouts) /\ Len(mempool') = l + m
      /\ \A j \in 1..(l + m) : mempool'[j] = IF j <= l THEN ps[j] ELSE mempool[j - l]
  <2> HIDE DEF ps
  <2> QED
    BY <1>1, <1>2, SMT
<1>5. /\ Chained(chain[n - 1].pool, ps) /\ chain[n].pool = After(chain[n - 1].pool, ps)
      /\ Chained(chain[n].pool, mempool)
  BY <1>1 DEF Ledger, Follows
<1> HIDE DEF ps
<1>6. ASSUME NEW j \in 1..(l + m)
      PROVE  mempool'[j].spent = IF j = 1 THEN chain[n - 1].pool ELSE mempool'[j - 1].change
  <2>1. CASE j <= l
    <3>0. j \in 1..l
      BY <1>1, <2>1, SMT
    <3>1. mempool'[j] = ps[j] /\ j \in 1..l
      BY <1>4, <2>1, <3>0
    <3>2. ps[j].spent = IF j = 1 THEN chain[n - 1].pool ELSE ps[j - 1].change
      BY <1>5, <3>1 DEF Chained
    <3>3. j # 1 => mempool'[j - 1] = ps[j - 1]
      <4>1. j # 1 => j - 1 \in 1..(l + m) /\ j - 1 <= l
        BY <1>1, <2>1, SMT
      <4> QED
        BY <1>4, <4>1
    <3> QED
      BY <3>1, <3>2, <3>3
  <2>2. CASE j > l
    <3>1. j - l \in 1..m /\ mempool'[j] = mempool[j - l]
      BY <1>1, <1>4, <2>2, SMT
    <3>2. mempool[j - l].spent
            = IF j - l = 1 THEN chain[n].pool ELSE mempool[j - l - 1].change
      BY <1>5, <3>1 DEF Chained
    <3>3. CASE j - l # 1
      <4>1. j # 1 /\ j - 1 \in 1..(l + m) /\ ~(j - 1 <= l) /\ (j - 1) - l = j - l - 1
        BY <1>1, <2>2, <3>3, SMT
      <4>2. mempool'[j - 1] = mempool[(j - 1) - l]
        BY <1>4, <4>1
      <4> QED
        BY <3>1, <3>2, <3>3, <4>1, <4>2
    <3>4. CASE j - l = 1 /\ l = 0
      <4>1. chain[n].pool = chain[n - 1].pool /\ j = 1
        BY <1>1, <1>5, <3>4, SMT DEF After
      <4> QED
        BY <3>1, <3>2, <3>4, <4>1
    <3>5. CASE j - l = 1 /\ l # 0
      <4>1. j # 1 /\ j - 1 = l /\ l \in 1..(l + m) /\ l <= l
        BY <1>1, <3>5, SMT
      <4>2. mempool'[j - 1] = ps[l]
        BY <1>4, <4>1
      <4>3. chain[n].pool = ps[l].change
        BY <1>1, <1>5, <3>5, SMT DEF After
      <4> QED
        BY <3>1, <3>2, <3>5, <4>1, <4>2, <4>3
    <3> QED
      BY <3>3, <3>4, <3>5
  <2> QED
    BY <1>1, <2>1, <2>2, SMT
<1>7. chain'[Len(chain')].pool = chain[n - 1].pool
  BY <1>1, <1>3, SMT
<1>8. Chained(chain'[Len(chain')].pool, mempool')
  BY <1>4, <1>6, <1>7 DEF Chained
<1>9. \A k \in 2..Len(chain') : Follows(k)'
  <2>1. ASSUME NEW k \in 2..(n - 1) PROVE Follows(k)'
    <3>1. k \in 2..n /\ chain'[k] = chain[k] /\ chain'[k - 1] = chain[k - 1]
      BY <1>1, <1>3, SMT
    <3>2. Follows(k)
      BY <3>1 DEF Ledger
    <3> QED
      BY <3>1, <3>2 DEF Follows
  <2> QED
    BY <1>3, <2>1
<1>10. chain'[1].payouts = <<>> /\ chain'[1].pool = PoolTotal
  <2>1. 1 \in 1..(n - 1)
    BY <1>1, SMT
  <2>2. chain'[1] = chain[1]
    BY <1>3, <2>1
  <2> QED
    BY <2>2 DEF Ledger
<1>11. Ledger'
  <2>1. Len(chain') >= 1
    BY <1>1, <1>3, SMT
  <2> HIDE DEF n
  <2> QED
    BY <1>3, <1>4, <1>8, <1>9, <1>10, <2>1 DEF Ledger
<1> QED
  BY <1>3, <1>11

\* The operator's payout starts at the pool's coin (AcceptToMemoryPoolWorker).
LEMMA BroadcastLedger ==
  ASSUME Ledger, BroadcastPayout
  PROVE  Ledger' /\ chain' = chain
<1> DEFINE n == Len(chain)
           pool == chain[n].pool
<1>1. /\ chain' = chain /\ n \in Nat /\ n + 1 \in Nat /\ n \in 1..n /\ chain \in Seq(Blocks)
      /\ pool \in Nat
  <2>1. n \in Nat /\ n \in 1..n /\ chain \in Seq(Blocks)
    BY ChainTyped, SMT DEF Ledger
  <2> QED
    BY <2>1, ChainTyped, SMT DEF BroadcastPayout
<1>2. Pool = pool
  BY DEF Pool
<1>3. mempool' = mempool \/ \E t \in BuildSuperblockPayoutOutputs(n + 1, pool) : mempool' = <<t>>
  BY <1>2 DEF BroadcastPayout
<1>4. CASE mempool' = mempool
  BY <1>1, <1>4 DEF Ledger, Follows
<1>5. ASSUME NEW t \in BuildSuperblockPayoutOutputs(n + 1, pool), mempool' = <<t>>
      PROVE  Ledger'
  <2>1. t \in Payouts /\ t.spent = pool
    BY <1>1, PayoutFacts, SMT
  <2>2. <<t>> \in Seq(Payouts) /\ Chained(pool, <<t>>)
    BY <2>1, SMT DEF Chained
  <2> QED
    BY <1>1, <1>5, <2>2 DEF Ledger, Follows
<1> QED
  BY <1>1, <1>3, <1>4, <1>5

\* The payouts of a block that the network connects start at the pool's coin;
\* they are the first ones of the mempool, or the superblock's.
LEMMA ConnectedPayouts ==
  ASSUME Ledger, NEW s,
         CreateNewBlock(s) \/ ReceiveSuperblock(s)
  PROVE  \E ps \in Seq(Payouts) :
           /\ Chained(chain[Len(chain)].pool, ps)
           /\ ConnectBlock(s, ps)
           /\ \/ Len(ps) <= Len(mempool) /\ ps = SubSeq(mempool, 1, Len(ps))
              \/ \E t \in BuildSuperblockPayoutOutputs(Len(chain) + 1, chain[Len(chain)].pool) :
                   ps = <<t>>
<1> DEFINE n == Len(chain)
           pool == chain[n].pool
<1>1. CASE CreateNewBlock(s)
  <2>1. PICK ps \in AddPackageTxs : ConnectBlock(s, ps)
    BY <1>1 DEF CreateNewBlock
  <2>2. /\ ps \in Seq(Payouts) /\ Chained(pool, ps)
        /\ Len(ps) <= Len(mempool) /\ ps = SubSeq(mempool, 1, Len(ps))
    BY AddPackageTxsFacts
  <2> HIDE DEF pool, n
  <2> QED
    BY <2>1, <2>2 DEF pool, n
<1>2. CASE ReceiveSuperblock(s)
  <2>1. PICK t \in BuildSuperblockPayoutOutputs(n + 1, pool) : ConnectBlock(s, <<t>>)
    BY <1>2 DEF ReceiveSuperblock, Pool
  <2>2. n \in Nat /\ n + 1 \in Nat /\ n \in 1..n /\ chain \in Seq(Blocks)
    BY ChainTyped, SMT DEF Ledger
  <2>3. pool \in Nat
    <3>1. \A k \in 1..n : chain[k].pool \in Nat
      BY <2>2, ChainTyped
    <3> HIDE DEF n
    <3> QED
      BY <2>2, <3>1
  <2>4. t \in Payouts /\ t.spent = pool
    <3> HIDE DEF n, pool
    <3> QED
      BY <2>2, <2>3, PayoutFacts
  <2>5. <<t>> \in Seq(Payouts) /\ Chained(pool, <<t>>)
    BY <2>4, SMT DEF Chained
  <2> QED
    BY <2>1, <2>5
<1> QED
  BY <1>1, <1>2

\* The ledger invariant holds in every reachable state.
LEMMA LedgerInvariant == Spec => []Ledger
<1>1. Init => Ledger
  <2> SUFFICES ASSUME Init PROVE Ledger
    OBVIOUS
  <2> DEFINE b == [staker |-> NoStaker, payouts |-> <<>>, pool |-> PoolTotal]
  <2>1. chain = <<b>> /\ mempool = <<>>
    BY DEF Init
  <2>2. PoolTotal \in Nat
    BY PhasesNat, SMT DEF PoolTotal
  <2>3. b \in Blocks /\ b.payouts = <<>> /\ b.pool = PoolTotal
    BY <2>2, SMT DEF Blocks
  <2> HIDE DEF b
  <2>4. chain \in Seq(Blocks) /\ Len(chain) = 1 /\ chain[1] = b
    BY <2>1, <2>3, SMT
  <2>5. mempool \in Seq(Payouts) /\ Chained(chain[Len(chain)].pool, mempool)
    BY <2>1, SMT DEF Chained
  <2> QED
    BY <2>3, <2>4, <2>5, SMT DEF Ledger
<1>2. Ledger /\ [Next]_vars => Ledger'
  <2> SUFFICES ASSUME Ledger, [Next]_vars PROVE Ledger'
    OBVIOUS
  <2>1. ASSUME NEW s, CreateNewBlock(s) \/ ReceiveSuperblock(s) PROVE Ledger'
    BY <2>1, ConnectedPayouts, ConnectLedger
  <2>2. CASE BroadcastPayout
    BY <2>2, BroadcastLedger
  <2>3. CASE DisconnectTip
    BY <2>3, DisconnectLedger
  <2>4. CASE UNCHANGED vars
    BY <2>4 DEF vars, Ledger, Follows
  <2> QED
    BY <2>1, <2>2, <2>3, <2>4 DEF Next
<1> QED
  BY <1>1, <1>2, PTL DEF Spec

\* Nothing is lost or minted, whatever the relay fee and however the chain is
\* reorganised: what the payouts on the chain gave the stakers and what the
\* pool's coin still holds add up to the premined allocation.
THEOREM PoolIsConserved == Spec => []PoolConserved
  BY LedgerInvariant, LedgerConserves, PTL

-----------------------------------------------------------------------------
(* The schedule and the chain. *)

\* The quotient is the only number whose multiple is that close.
LEMMA DivUnique ==
  ASSUME NEW x \in Nat, NEW c \in Nat \ {0}, NEW q \in Nat, c * q <= x, x < c * q + c
  PROVE  x \div c = q
<1> DEFINE p == x \div c
<1>1. p \in Nat /\ c * p <= x /\ x < c * p + c
  BY DivBounds
<1> HIDE DEF p
<1>2. ASSUME NEW u \in Nat, NEW w \in Nat, u < w PROVE c * u + c <= c * w
  <2>1. (u + 1) * c <= w * c
    BY <1>2, MulMonotone, SMT
  <2>2. (u + 1) * c = c * u + c /\ w * c = c * w
    BY SMT
  <2> QED
    BY <2>1, <2>2
<1>3. c * p \in Nat /\ c * q \in Nat
  BY <1>1, MulNat
<1>4. ~(p < q)
  <2> SUFFICES ASSUME p < q PROVE FALSE
    OBVIOUS
  <2>1. c * p + c <= c * q
    BY <1>1, <1>2
  <2> QED
    BY <1>1, <1>3, <2>1, SMT
<1>5. ~(q < p)
  <2> SUFFICES ASSUME q < p PROVE FALSE
    OBVIOUS
  <2>1. c * q + c <= c * p
    BY <1>1, <1>2
  <2> QED
    BY <1>1, <1>3, <2>1, SMT
<1>6. p = q
  BY <1>1, <1>4, <1>5, SMT
<1> QED
  BY <1>6 DEF p

\* The quotient of the next number is one more exactly at a multiple.
LEMMA DivStep ==
  ASSUME NEW x \in Nat, NEW c \in Nat \ {0}
  PROVE  /\ (x + 1) % c = 0 => (x + 1) \div c = (x \div c) + 1
         /\ (x + 1) % c # 0 => (x + 1) \div c = x \div c
<1> DEFINE p == (x + 1) \div c
           y == c * p
<1>1. p \in Nat /\ y <= x + 1 /\ x + 1 < y + c /\ y \in Nat
  <2>1. x + 1 \in Nat
    BY SMT
  <2>2. p \in Nat /\ y <= x + 1 /\ x + 1 < y + c
    BY <2>1, DivBounds
  <2> QED
    BY <2>2, MulNat
<1>2. (x + 1) % c = (x + 1) - y
  BY SMT
<1>3. CASE (x + 1) % c = 0
  <2>1. x + 1 = y
    BY <1>1, <1>2, <1>3, SMT
  <2>2. p # 0
    <3>1. p = 0 => y = 0
      BY SMT
    <3> QED
      BY <2>1, <3>1, SMT
  <2>3. p - 1 \in Nat
    BY <1>1, <2>2, SMT
  <2>4. c * (p - 1) = y - c
    BY <1>1, SMT
  <2>5. c * (p - 1) <= x /\ x < c * (p - 1) + c
    <3> HIDE DEF p, y
    <3> QED
      BY <1>1, <2>1, <2>4, SMT
  <2>6. x \div c = p - 1
    <3> DEFINE q == p - 1
    <3>1. q \in Nat /\ c * q <= x /\ x < c * q + c
      BY <2>3, <2>5
    <3> HIDE DEF q, p
    <3>2. x \div c = q
      BY <3>1, DivUnique
    <3> QED
      BY <3>2 DEF q
  <2> QED
    BY <1>1, <1>3, <2>6, SMT
<1>4. CASE (x + 1) % c # 0
  <2>1. y <= x /\ x < y + c
    <3> HIDE DEF p, y
    <3> QED
      BY <1>1, <1>2, <1>4, SMT
  <2>2. x \div c = p
    <3> HIDE DEF p
    <3> QED
      BY <1>1, <2>1, DivUnique DEF y
  <2> QED
    BY <1>4, <2>2
<1> QED
  BY <1>3, <1>4

\* The cycle of the last superblock at or below height k; -1 before the first.
CycleAt(k) == IF k < nFirst THEN -1 ELSE GetSuperblockCycleIndex(k)

\* The superblocks are where the cycle advances, and a whole cycle apart.
LEMMA CycleStep ==
  ASSUME NEW k \in Nat
  PROVE  /\ CycleAt(k) \in Int /\ CycleAt(k) >= -1
         /\ k >= nFirst => CycleAt(k) \in Nat
         /\ CycleAt(nFirst) = 0
         /\ ~IsSuperblockHeight(k + 1) => CycleAt(k + 1) = CycleAt(k)
         /\ IsSuperblockHeight(k + 1) =>
              /\ CycleAt(k + 1) = CycleAt(k) + 1
              /\ CycleAt(k + 1) = GetSuperblockCycleIndex(k + 1)
              /\ k + 1 = nFirst \/ k + 1 >= nFirst + nCycle
<1> DEFINE x == k - nFirst
<1>0. nFirst \in Nat /\ nCycle \in Nat \ {0}
  BY ChainAssumption
<1>1. k >= nFirst => CycleAt(k) \in Nat
  <2> SUFFICES ASSUME k >= nFirst PROVE CycleAt(k) \in Nat
    OBVIOUS
  <2>1. x \in Nat
    BY <1>0, SMT
  <2>2. x \div nCycle \in Nat
    BY <1>0, <2>1, DivBounds
  <2> QED
    BY <1>0, <2>2, SMT DEF CycleAt, GetSuperblockCycleIndex
<1>2. CycleAt(k) \in Int /\ CycleAt(k) >= -1
  <2>1. k < nFirst => CycleAt(k) = -1
    BY DEF CycleAt
  <2> QED
    BY <1>0, <1>1, <2>1, SMT
<1>3. CycleAt(nFirst) = 0 /\ 0 \div nCycle = 0 /\ 0 % nCycle = 0
  <2>1. 0 \div nCycle = 0
    <3>1. nCycle * 0 = 0
      BY <1>0, SMT
    <3> QED
      BY <1>0, <3>1, DivUnique, SMT
  <2>2. 0 % nCycle = 0
    BY <1>0, SMT
  <2>3. nFirst - nFirst = 0 /\ ~(nFirst < nFirst)
    BY <1>0, SMT
  <2> QED
    BY <2>1, <2>2, <2>3 DEF CycleAt, GetSuperblockCycleIndex
<1>4. CASE k >= nFirst
  <2>1. x \in Nat /\ (k + 1) - nFirst = x + 1 /\ ~(k < nFirst) /\ ~(k + 1 < nFirst)
        /\ k + 1 >= nFirst
    BY <1>0, <1>4, SMT
  <2>2. /\ CycleAt(k) = x \div nCycle
        /\ CycleAt(k + 1) = (x + 1) \div nCycle
        /\ GetSuperblockCycleIndex(k + 1) = (x + 1) \div nCycle
        /\ IsSuperblockHeight(k + 1) <=> (x + 1) % nCycle = 0
    <3> HIDE DEF x
    <3>1. x = k - nFirst
      BY DEF x
    <3> QED
      BY <2>1, <3>1 DEF CycleAt, GetSuperblockCycleIndex, IsSuperblockHeight
  <2> HIDE DEF x
  <2>3. /\ (x + 1) % nCycle = 0 => (x + 1) \div nCycle = (x \div nCycle) + 1
        /\ (x + 1) % nCycle # 0 => (x + 1) \div nCycle = x \div nCycle
    BY <1>0, <2>1, DivStep
  <2>4. (x + 1) % nCycle = 0 => k + 1 >= nFirst + nCycle
    <3> SUFFICES ASSUME (x + 1) % nCycle = 0, x + 1 < nCycle PROVE FALSE
      BY <1>0, <2>1, SMT
    <3>1. nCycle * 0 = 0 /\ x + 1 \in Nat
      BY <1>0, <2>1, SMT
    <3>2. (x + 1) \div nCycle = 0
      BY <1>0, <3>1, DivUnique, SMT
    <3>3. x \div nCycle \in Nat
      BY <1>0, <2>1, DivBounds
    <3> QED
      BY <2>3, <3>2, <3>3, SMT
  <2> QED
    BY <1>1, <1>2, <1>3, <2>2, <2>3, <2>4
<1>5. CASE k + 1 = nFirst
  <2>1. k < nFirst /\ (k + 1) - nFirst = 0 /\ k + 1 >= nFirst /\ ~(k + 1 < nFirst)
    BY <1>0, <1>5, SMT
  <2>2. CycleAt(k) = -1 /\ CycleAt(k + 1) = 0 /\ GetSuperblockCycleIndex(k + 1) = 0
    BY <1>3, <2>1 DEF CycleAt, GetSuperblockCycleIndex
  <2>3. IsSuperblockHeight(k + 1)
    BY <1>3, <2>1 DEF IsSuperblockHeight
  <2> QED
    BY <1>0, <1>1, <1>2, <1>3, <1>5, <2>2, <2>3, SMT
<1>6. CASE k + 1 < nFirst
  <2>1. k < nFirst /\ ~(k + 1 >= nFirst)
    BY <1>0, <1>6, SMT
  <2>2. CycleAt(k) = -1 /\ CycleAt(k + 1) = -1 /\ ~IsSuperblockHeight(k + 1)
    BY <1>6, <2>1 DEF CycleAt, IsSuperblockHeight
  <2> QED
    BY <1>1, <1>2, <1>3, <2>2
<1>7. k >= nFirst \/ k + 1 = nFirst \/ k + 1 < nFirst
  BY <1>0, SMT
<1> QED
  BY <1>4, <1>5, <1>6, <1>7

\* What the schedule has released at height k and the pool still holds there.
UnpaidAt(k, pool) == GetSuperblockCumulativeTarget(CycleAt(k)) - (PoolTotal - pool)

\* The most that rounding and the first cycle, which has no stakers, keep back.
LagAt(k) ==
  IF k < nFirst THEN 0
  ELSE GetSuperblockCumulativeTarget(0) + CycleAt(k) * (Cardinality(Stakers) - 1)

\* The inductive invariant of the schedule: it holds at every height of the
\* chain, so that it survives the disconnection of the tip.
OnSchedule ==
  \A k \in 1..Len(chain) :
    /\ chain[k].staker = NoStaker <=> k < nFirst
    /\ PayoutDemanded(k) => DemandedPaid(k) \in 0..GetSuperblockPayout(k)
    /\ UnpaidAt(k, chain[k].pool) <= LagAt(k)

\* The properties of the run are about the invariant at the tip.
LEMMA AtTheTip ==
  ASSUME Ledger
  PROVE  /\ TipCycle = CycleAt(Len(chain))
         /\ Unpaid = UnpaidAt(Len(chain), chain[Len(chain)].pool)
         /\ Pool = chain[Len(chain)].pool /\ Pool \in Nat
         /\ Len(chain) \in 1..Len(chain) /\ Len(chain) \in Nat
<1>1. Len(chain) \in 1..Len(chain) /\ Len(chain) \in Nat
  BY ChainTyped, SMT DEF Ledger
<1>2. Pool = chain[Len(chain)].pool
  BY DEF Pool
<1>3. TipCycle = CycleAt(Len(chain))
  BY DEF TipCycle, CycleAt
<1>4. chain[Len(chain)].pool \in Nat
  BY <1>1, ChainTyped DEF Ledger
<1> QED
  BY <1>1, <1>2, <1>3, <1>4 DEF Unpaid, UnpaidAt

\* From proof of stake on every block has a staker, so the first superblock's
\* cycle has none and every later one's has.
LEMMA CyclesAreStaked ==
  ASSUME Ledger, OnSchedule, NEW h \in 1..(Len(chain) + 1), IsSuperblockHeight(h)
  PROVE  /\ StakedInCycle(h) = {} <=> h = nFirst
         /\ StakedInCycle(h) # {} =>
              /\ h - 1 >= nFirst /\ h >= nFirst + nCycle
              /\ Cardinality(Stakers) \in Nat \ {0}
<1> DEFINE n == Len(chain)
           k == h - 1
<1>1. /\ n \in Nat /\ n >= 1 /\ DOMAIN chain = 1..n /\ chain \in Seq(Blocks)
      /\ nFirst \in Nat /\ nFirst > 1 /\ nCycle \in Nat \ {0}
  BY ChainTyped, ChainAssumption DEF Ledger
<1>2. h = nFirst \/ h >= nFirst + nCycle
  <2>1. k \in Nat /\ k + 1 = h
    BY <1>1, SMT
  <2> HIDE DEF k
  <2> QED
    BY <2>1, CycleStep
<1>3. ASSUME h = nFirst PROVE StakedInCycle(h) = {}
  <2>1. \A j \in 1..n : j \in (h - nCycle)..(h - 1) => j < nFirst
    BY <1>1, <1>3, SMT
  <2>2. \A j \in 1..n : j < nFirst => chain[j].staker = NoStaker
    BY DEF OnSchedule
  <2> QED
    BY <1>1, <2>1, <2>2 DEF StakedInCycle
<1>4. ASSUME h >= nFirst + nCycle
      PROVE  k >= nFirst /\ k \in StakedInCycle(h) /\ Cardinality(Stakers) \in Nat \ {0}
  <2>1. k >= nFirst /\ k \in 1..n /\ k \in (h - nCycle)..(h - 1) /\ ~(k < nFirst)
    BY <1>1, <1>4, SMT
  <2>2. chain[k].staker # NoStaker
    BY <2>1 DEF OnSchedule
  <2>3. chain[k].staker \in Stakers
    BY <1>1, <2>1, <2>2, ChainTyped, SMT
  <2>4. Cardinality(Stakers) \in Nat \ {0}
    BY <2>3, ChainAssumption, FS_CardinalityType, FS_EmptySet
  <2> QED
    BY <1>1, <2>1, <2>2, <2>4 DEF StakedInCycle
<1>5. h >= nFirst + nCycle => h # nFirst
  BY <1>1, SMT
<1> QED
  BY <1>2, <1>3, <1>4, <1>5

\* Whether a payout is demanded at height h depends on the blocks below it.
LEMMA DemandIsOfTheChainBelow ==
  ASSUME chain \in Seq(Blocks), chain' \in Seq(Blocks), NEW h \in Nat,
         h - 1 <= Len(chain), h - 1 <= Len(chain'),
         \A j \in 1..(h - 1) : chain'[j] = chain[j]
  PROVE  PayoutDemanded(h)' <=> PayoutDemanded(h)
<1> DEFINE below == {k \in 1..(h - 1) : k \in (h - nCycle)..(h - 1) /\ chain[k].staker # NoStaker}
<1>1. /\ Len(chain) \in Nat /\ DOMAIN chain = 1..Len(chain)
      /\ Len(chain') \in Nat /\ DOMAIN chain' = 1..Len(chain')
  BY SMT
<1>2. nCycle \in Nat
  BY ChainAssumption, SMT
<1>3. \A k \in 1..Len(chain) : k \in (h - nCycle)..(h - 1) => k \in 1..(h - 1)
  BY <1>1, <1>2, SMT
<1>4. \A k \in 1..Len(chain') : k \in (h - nCycle)..(h - 1) => k \in 1..(h - 1)
  BY <1>1, <1>2, SMT
<1>5. \A k \in 1..(h - 1) : k \in 1..Len(chain) /\ k \in 1..Len(chain')
  BY <1>1, SMT
<1>6. StakedInCycle(h) = below
  BY <1>1, <1>3, <1>5 DEF StakedInCycle
<1>7. StakedInCycle(h)' = below
  BY <1>1, <1>4, <1>5 DEF StakedInCycle
<1> HIDE DEF below
<1> QED
  BY <1>6, <1>7 DEF PayoutDemanded, CycleHasStakers

\* A block's payouts leave at most what its first payout leaves.
LEMMA AfterTheFirst ==
  ASSUME NEW pool \in Nat, NEW ps \in Seq(Payouts), Chained(pool, ps)
  PROVE  /\ After(pool, ps) \in Nat /\ After(pool, ps) <= pool
         /\ ps # <<>> => After(pool, ps) <= pool - Paid(ps[1])
<1> DEFINE n == Len(ps)
           f == [j \in DOMAIN ps |-> Paid(ps[j])]
<1>1. n \in Nat /\ DOMAIN ps = 1..n /\ (\A j \in 1..n : ps[j] \in Payouts) /\ (ps # <<>> => 1 \in 1..n)
  BY SMT
<1>2. \A j \in 1..n : f[j] = Paid(ps[j]) /\ f[j] \in Nat
  BY <1>1, PayoutTyped
<1>3. TotalPaid(ps) = SumFunctionOnSet(f, 1..n)
  BY <1>1 DEF TotalPaid, SumFunction
<1>4. IsFiniteSet(1..n)
  BY <1>1, FS_Interval, SMT
<1>5. After(pool, ps) \in Nat /\ TotalPaid(ps) = pool - After(pool, ps)
  BY ChainedTotal
<1> HIDE DEF f, n
<1>6. SumFunctionOnSet(f, 1..n) \in Nat /\ \A j \in 1..n : f[j] <= SumFunctionOnSet(f, 1..n)
  BY <1>2, <1>4, SumNat
<1>7. ps # <<>> => Paid(ps[1]) \in Nat /\ Paid(ps[1]) <= TotalPaid(ps)
  BY <1>1, <1>2, <1>3, <1>6
<1> QED
  BY <1>3, <1>5, <1>6, <1>7, SMT

\* A connected block: it stands on the old chain, takes from the pool at least
\* what a demanded payout pays, and pays that payout as scheduled (ConnectBlock).
Connected(ps, h, pool, new) ==
  /\ h = Len(chain) + 1 /\ pool = chain[Len(chain)].pool /\ new = After(pool, ps)
  /\ h \in Nat /\ h - 1 = Len(chain) /\ h \in 1..h /\ Len(chain') = h
  /\ \A k \in 1..(h - 1) : chain'[k] = chain[k]
  /\ chain'[h].payouts = ps /\ chain'[h].pool = new
  /\ chain'[h].staker = NoStaker <=> h < nFirst
  /\ PayoutDemanded(h)' <=> PayoutDemanded(h)
  /\ pool \in Nat /\ new \in Nat /\ new <= pool
  /\ ps = <<>> => ~PayoutDemanded(h)
  /\ PayoutDemanded(h) => /\ ps # <<>> /\ Paid(ps[1]) \in 0..GetSuperblockPayout(h)
                          /\ new <= pool - Paid(ps[1])
                          /\ Len(ps) = 1 => new = pool - Paid(ps[1])
                          /\ \/ GetSuperblockPayout(h) - Paid(ps[1]) <= Cardinality(Stakers) - 1
                             \/ pool - Paid(ps[1]) <= Cardinality(Stakers) - 1

\* ConnectBlock connects such a block, whatever payouts it carries.
LEMMA ConnectFacts ==
  ASSUME Ledger, OnSchedule, NEW s, NEW ps \in Seq(Payouts),
         Chained(chain[Len(chain)].pool, ps), ConnectBlock(s, ps)
  PROVE  \E h, pool, new : Connected(ps, h, pool, new)
<1>0. PICK h, pool, new : h = Len(chain) + 1 /\ pool = chain[Len(chain)].pool /\ new = After(pool, ps)
  OBVIOUS
<1> USE <1>0
<1> DEFINE n == Len(chain)
<1>1. n \in Nat /\ n \in 1..n /\ Pool = pool /\ pool \in Nat /\ chain \in Seq(Blocks)
  BY AtTheTip DEF Ledger
<1>2. h \in Nat /\ h - 1 = n /\ h \in 1..h /\ h = n + 1 /\ h \in 1..(n + 1)
  BY <1>1, SMT
<1>3. /\ Ledger' /\ Len(chain') = n + 1 /\ \A k \in 1..n : chain'[k] = chain[k]
      /\ chain'[n + 1].staker = s /\ chain'[n + 1].payouts = ps
      /\ chain'[n + 1].pool = After(pool, ps)
  BY ConnectLedger
<1> HIDE DEF n
<1>4. chain' \in Seq(Blocks)
  BY <1>3 DEF Ledger
<1>5. PayoutDemanded(h)' <=> PayoutDemanded(h)
  <2>1. h - 1 <= Len(chain) /\ h - 1 <= Len(chain')
    BY <1>1, <1>2, <1>3, SMT DEF n
  <2>2. \A j \in 1..(h - 1) : chain'[j] = chain[j]
    BY <1>2, <1>3
  <2> QED
    BY <1>1, <1>2, <1>4, <2>1, <2>2, DemandIsOfTheChainBelow
<1>6. s = NoStaker <=> h < nFirst
  <2>1. s \in Producers(h)
    BY DEF ConnectBlock
  <2>2. nFirst \in Nat /\ NoStaker \notin Stakers
    BY ChainAssumption
  <2>3. h < nFirst <=> ~(h >= nFirst)
    BY <1>2, <2>2, SMT
  <2> QED
    BY <2>1, <2>2, <2>3 DEF Producers
<1>7. /\ new \in Nat /\ new <= pool
      /\ ps # <<>> => new <= pool - Paid(ps[1])
  BY <1>1, AfterTheFirst
<1>8. PayoutDemanded(h) => ps # <<>> /\ ps[1] \in BuildSuperblockPayoutOutputs(h, pool)
  <2>1. PayoutDemanded(h) => FoundValidPayout(ps, h)
    BY DEF ConnectBlock
  <2>2. FoundValidPayout(ps, h) => ps # <<>> /\ Head(ps) \in BuildSuperblockPayoutOutputs(h, pool)
    BY <1>1 DEF FoundValidPayout
  <2>3. ps # <<>> => Head(ps) = ps[1]
    BY SMT
  <2> QED
    BY <2>1, <2>2, <2>3
<1>9. ASSUME PayoutDemanded(h)
      PROVE  /\ Paid(ps[1]) \in 0..GetSuperblockPayout(h)
             /\ Len(ps) = 1 => new = pool - Paid(ps[1])
             /\ \/ GetSuperblockPayout(h) - Paid(ps[1]) <= Cardinality(Stakers) - 1
                \/ pool - Paid(ps[1]) <= Cardinality(Stakers) - 1
  <2>1. ps # <<>> /\ ps[1] \in BuildSuperblockPayoutOutputs(h, pool)
    BY <1>8, <1>9
  <2>2. ASSUME NEW t \in BuildSuperblockPayoutOutputs(h, pool)
        PROVE  /\ t \in Payouts /\ t.spent = pool /\ GetSuperblockPayout(h) \in Nat \ {0}
               /\ Paid(t) \in Nat /\ Paid(t) <= GetSuperblockPayout(h)
               /\ GetSuperblockPayout(h) <= pool =>
                    GetSuperblockPayout(h) - Paid(t) <= Cardinality(Stakers) - 1
               /\ pool < GetSuperblockPayout(h) => pool - Paid(t) <= Cardinality(Stakers) - 1
    BY <1>1, <1>2, PayoutFacts, SMT
  <2>3. /\ ps[1] \in Payouts /\ ps[1].spent = pool /\ GetSuperblockPayout(h) \in Nat \ {0}
        /\ Paid(ps[1]) \in Nat /\ Paid(ps[1]) <= GetSuperblockPayout(h)
        /\ GetSuperblockPayout(h) <= pool =>
             GetSuperblockPayout(h) - Paid(ps[1]) <= Cardinality(Stakers) - 1
        /\ pool < GetSuperblockPayout(h) => pool - Paid(ps[1]) <= Cardinality(Stakers) - 1
    BY <2>2, <2>1
  <2>4. Len(ps) = 1 => new = ps[1].change
    BY <2>1 DEF After
  <2>5. ps[1].change \in Nat /\ pool = Paid(ps[1]) + ps[1].change
    BY <2>3, PayoutTyped
  <2>6. ps[1].change = pool - Paid(ps[1])
    BY <1>1, <2>3, <2>5, SMT
  <2>7. Paid(ps[1]) \in 0..GetSuperblockPayout(h)
    BY <2>3, SMT
  <2>8. GetSuperblockPayout(h) <= pool \/ pool < GetSuperblockPayout(h)
    BY <1>1, <2>3, SMT
  <2> QED
    BY <2>3, <2>4, <2>6, <2>7, <2>8
<1>10. \A k \in 1..(h - 1) : chain'[k] = chain[k]
  BY <1>2, <1>3
<1>11. ps # <<>> => new <= pool - Paid(ps[1])
  BY <1>7
<1>12. /\ Len(chain') = h /\ chain'[h].payouts = ps /\ chain'[h].pool = new
       /\ chain'[h].staker = NoStaker <=> h < nFirst
  BY <1>2, <1>3, <1>6
<1>13. Connected(ps, h, pool, new)
  BY <1>1, <1>2, <1>5, <1>7, <1>8, <1>9, <1>10, <1>11, <1>12 DEF n, Connected
<1> QED
  BY <1>13

\* The schedule between two heights: what a superblock has to pay is what the
\* schedule releases there, and elsewhere it releases nothing.
LEMMA ReleasedAt ==
  ASSUME NEW h \in Nat \ {0}
  PROVE  /\ CycleAt(h) \in Int /\ CycleAt(h - 1) \in Int
         /\ GetSuperblockCumulativeTarget(CycleAt(h)) \in 0..PoolTotal
         /\ GetSuperblockCumulativeTarget(CycleAt(h - 1)) \in 0..PoolTotal
         /\ GetSuperblockPayout(h) \in Nat
         /\ GetSuperblockPayout(h) = GetSuperblockCumulativeTarget(CycleAt(h))
                                       - GetSuperblockCumulativeTarget(CycleAt(h - 1))
<1> DEFINE k == h - 1
           c == CycleAt(k)
           d == CycleAt(h)
<1>1. k \in Nat /\ k + 1 = h
  BY SMT
<1> HIDE DEF k
<1>2. /\ c \in Int /\ CycleAt(k + 1) \in Int
      /\ ~IsSuperblockHeight(h) => d = c
      /\ IsSuperblockHeight(h) => d = c + 1 /\ d = GetSuperblockCycleIndex(h)
  BY <1>1, CycleStep
<1>3. d \in Int
  BY <1>1, <1>2
<1>4. GetSuperblockPayout(h) \in Nat
  <2>1. GetSuperblockPayout(h) \in 0..PoolTotal
    BY PayoutInRange
  <2> QED
    BY <2>1, SMT
<1> HIDE DEF c, d
<1>5. GetSuperblockCumulativeTarget(c) \in 0..PoolTotal /\ GetSuperblockCumulativeTarget(d) \in 0..PoolTotal
  BY <1>2, <1>3, ScheduleBounded
<1>6. GetSuperblockPayout(h) = GetSuperblockCumulativeTarget(d) - GetSuperblockCumulativeTarget(c)
  <2>1. CASE IsSuperblockHeight(h)
    <3>1. d = GetSuperblockCycleIndex(h) /\ d - 1 = c
      BY <1>2, <1>3, <2>1, SMT
    <3> QED
      BY <2>1, <3>1 DEF GetSuperblockPayout
  <2>2. CASE ~IsSuperblockHeight(h)
    <3>1. GetSuperblockCumulativeTarget(d) - GetSuperblockCumulativeTarget(c) = 0
      BY <1>2, <1>5, <2>2, SMT
    <3> QED
      BY <2>2, <3>1 DEF GetSuperblockPayout
  <2> QED
    BY <2>1, <2>2
<1> QED
  BY <1>2, <1>3, <1>4, <1>5, <1>6 DEF c, d, k

\* What a block paid on demand and what it carried besides do not change as the
\* chain above it does.
LEMMA SameBelow ==
  ASSUME chain \in Seq(Blocks), chain' \in Seq(Blocks), NEW n \in Nat,
         n <= Len(chain), n <= Len(chain'), \A j \in 1..n : chain'[j] = chain[j],
         NEW k \in 1..n
  PROVE  /\ PayoutDemanded(k)' <=> PayoutDemanded(k)
         /\ DemandedPaid(k)' = DemandedPaid(k)
         /\ StrayPayouts(k)' = StrayPayouts(k)
<1>1. /\ k \in Nat /\ k - 1 <= Len(chain) /\ k - 1 <= Len(chain')
      /\ \A j \in 1..(k - 1) : j \in 1..n
  BY SMT
<1>2. \A j \in 1..(k - 1) : chain'[j] = chain[j]
  BY <1>1
<1>3. PayoutDemanded(k)' <=> PayoutDemanded(k)
  BY <1>1, <1>2, DemandIsOfTheChainBelow
<1>4. chain'[k] = chain[k]
  OBVIOUS
<1> QED
  BY <1>3, <1>4 DEF DemandedPaid, StrayPayouts, Paid

\* How a block moves the lag.  Between superblocks the schedule stands still;
\* the first superblock adds its release; a later one adds what rounding keeps
\* back of its payout, or leaves the pool with no more than that.
LEMMA LagStep ==
  ASSUME NEW h \in Nat, h > 1, NEW pool \in Nat, NEW new \in Nat, new <= pool,
         UnpaidAt(h - 1, pool) <= LagAt(h - 1),
         IsSuperblockHeight(h) /\ h # nFirst =>
           /\ h - 1 >= nFirst /\ Cardinality(Stakers) \in Nat \ {0}
           /\ \/ GetSuperblockPayout(h) = 0
              \/ GetSuperblockPayout(h) - (pool - new) <= Cardinality(Stakers) - 1
              \/ new <= Cardinality(Stakers) - 1
  PROVE  UnpaidAt(h, new) <= LagAt(h)
<1> DEFINE n == h - 1
           released == GetSuperblockCumulativeTarget(CycleAt(n))
           due == GetSuperblockCumulativeTarget(CycleAt(h))
           first == GetSuperblockCumulativeTarget(0)
           m == Cardinality(Stakers)
           payout == GetSuperblockPayout(h)
           before == UnpaidAt(n, pool)
           after == UnpaidAt(h, new)
<1>4. n \in Nat /\ h = n + 1 /\ h \in Nat \ {0}
  BY SMT
<1>5. nFirst \in Nat /\ nFirst > 1 /\ nCycle \in Nat \ {0} /\ PoolTotal \in Nat /\ m \in Nat
  BY ChainAssumption, FS_CardinalityType, PhasesNat, SMT DEF PoolTotal
<1>6. /\ CycleAt(n) \in Int /\ CycleAt(h) \in Int
      /\ released \in 0..PoolTotal /\ due \in 0..PoolTotal
      /\ payout \in Nat /\ payout = due - released
  BY <1>4, ReleasedAt
<1>7. first \in 0..PoolTotal
  BY ScheduleBounded, SMT
<1>8. before = released - (PoolTotal - pool) /\ after = due - (PoolTotal - new)
  BY DEF UnpaidAt
<1>8a. before <= LagAt(n)
  OBVIOUS
<1>9. IsSuperblockHeight(h) /\ h # nFirst =>
        /\ n >= nFirst /\ m \in Nat \ {0}
        /\ payout = 0 \/ payout - (pool - new) <= m - 1 \/ new <= m - 1
  OBVIOUS
<1>10. /\ ~IsSuperblockHeight(h) => CycleAt(h) = CycleAt(n)
       /\ IsSuperblockHeight(h) => CycleAt(h) = CycleAt(n) + 1
       /\ n >= nFirst => CycleAt(n) \in Nat
  BY <1>4, CycleStep
<1>11. IsSuperblockHeight(nFirst) /\ CycleAt(nFirst) = 0
  <2>1. nFirst - nFirst = 0 /\ nFirst >= nFirst /\ 0 % nCycle = 0
    BY <1>5, SMT
  <2> QED
    BY <2>1, CycleStep DEF IsSuperblockHeight
<1> HIDE DEF n, released, due, first, m, payout, before, after
<1>12. before \in Int /\ after \in Int /\ payout \in Nat
  BY <1>5, <1>6, <1>8, SMT
<1>12a. after = before + (payout - (pool - new))
  BY <1>5, <1>6, <1>8, SMT
<1>12b. after <= new
  BY <1>5, <1>6, <1>8, SMT
<1>13. after <= LagAt(h)
  <2>1. CASE ~IsSuperblockHeight(h)
    <3>1. h < nFirst <=> n < nFirst
      <4>1. h # nFirst
        BY <1>11, <2>1
      <4> QED
        BY <1>4, <1>5, <4>1, SMT
    <3>2. LagAt(h) = LagAt(n) /\ due = released
      BY <1>10, <2>1, <3>1 DEF LagAt, due, released
    <3>3. LagAt(n) \in Int
      <4>1. CASE n < nFirst
        BY <4>1, SMT DEF LagAt
      <4>2. CASE ~(n < nFirst)
        <5> DEFINE z == CycleAt(n) * (m - 1)
        <5>1. z \in Int /\ first \in Int
          BY <1>5, <1>6, <1>7, SMT
        <5>2. LagAt(n) = first + z
          BY <4>2 DEF LagAt, first, m
        <5> HIDE DEF z
        <5> QED
          BY <5>1, <5>2, SMT
      <4> QED
        BY <4>1, <4>2
    <3>4. payout = 0
      BY <1>5, <1>6, <3>2, SMT
    <3>5. LagAt(h) = LagAt(n)
      BY <3>2
    <3> QED
      BY <1>8a, <1>12, <1>12a, <3>3, <3>4, <3>5, SMT
  <2>2. CASE h = nFirst
    <3>1. n < nFirst /\ ~(h < nFirst)
      BY <1>4, <1>5, <2>2, SMT
    <3>2. LagAt(n) = 0 /\ LagAt(h) = first
      <4>1. LagAt(h) = first + 0 * (m - 1)
        BY <1>11, <2>2, <3>1 DEF LagAt, first, m
      <4>2. 0 * (m - 1) = 0
        BY <1>5, SMT
      <4> QED
        BY <1>7, <3>1, <4>1, <4>2, SMT DEF LagAt
    <3>3. due = first
      BY <1>11, <2>2 DEF due, first
    <3>4. payout <= first /\ first \in Nat
      BY <1>5, <1>6, <1>7, <3>3, SMT
    <3> QED
      BY <1>8a, <1>12, <1>12a, <3>2, <3>4, SMT
  <2>3. CASE IsSuperblockHeight(h) /\ h # nFirst
    <3>1. n >= nFirst /\ m \in Nat \ {0} /\ CycleAt(n) \in Nat
      BY <1>9, <1>10, <2>3
    <3>2. ~(n < nFirst) /\ ~(h < nFirst)
      BY <1>4, <1>5, <3>1, SMT
    <3>3. LagAt(h) = LagAt(n) + (m - 1) /\ LagAt(n) \in Nat
      <4> DEFINE c == CycleAt(n)
                 z == c * (m - 1)
      <4>1. LagAt(h) = first + CycleAt(h) * (m - 1) /\ LagAt(n) = first + z
        BY <3>2 DEF LagAt, first, m
      <4>2. m - 1 \in Nat /\ first \in Nat
        BY <1>5, <1>7, <3>1, SMT
      <4>3. (c + 1) * (m - 1) = z + (m - 1) /\ z \in Nat
        <5>1. c \in Nat /\ m - 1 \in Nat
          BY <3>1, <4>2
        <5> HIDE DEF c
        <5>2. z \in Nat
          BY <5>1, MulNat
        <5> QED
          BY <5>1, <5>2, SMT
      <4>4. LagAt(h) = first + (c + 1) * (m - 1)
        BY <1>10, <2>3, <4>1
      <4> HIDE DEF c, z
      <4>5. LagAt(h) = first + (z + (m - 1))
        BY <4>3, <4>4
      <4> QED
        BY <4>1, <4>2, <4>3, <4>5, SMT
    <3>4. CASE payout = 0
      BY <1>8a, <1>12, <1>12a, <3>1, <3>3, <3>4, SMT
    <3>5. CASE payout - (pool - new) <= m - 1
      BY <1>8a, <1>12, <1>12a, <3>1, <3>3, <3>5, SMT
    <3>6. CASE new <= m - 1
      BY <1>12, <1>12b, <3>1, <3>3, <3>6, SMT
    <3> QED
      BY <1>9, <2>3, <3>4, <3>5, <3>6
  <2> QED
    BY <1>11, <2>1, <2>2, <2>3
<1> QED
  BY <1>13 DEF n, after

\* What a block takes from the pool when it pays at least paid.
LEMMA AtLeastPaid ==
  ASSUME NEW pool \in Nat, NEW new \in Nat, NEW payout \in Nat, NEW m \in Nat,
         NEW paid \in 0..payout, new <= pool - paid,
         payout - paid <= m - 1 \/ pool - paid <= m - 1
  PROVE  payout - (pool - new) <= m - 1 \/ new <= m - 1
  BY SMT

\* A connected block keeps the chain on schedule.
LEMMA ConnectOnSchedule ==
  ASSUME Ledger, OnSchedule, NEW s, NEW ps \in Seq(Payouts),
         Chained(chain[Len(chain)].pool, ps), ConnectBlock(s, ps)
  PROVE  OnSchedule'
<1>1. PICK h, pool, new : Connected(ps, h, pool, new)
  BY ConnectFacts
<1> DEFINE n == h - 1
           m == Cardinality(Stakers)
           payout == GetSuperblockPayout(h)
           paid == Paid(ps[1])
           before == UnpaidAt(n, pool)
           after == UnpaidAt(h, new)
<1>2. /\ h \in Nat /\ n = Len(chain) /\ h \in 1..h /\ Len(chain') = h
      /\ \A k \in 1..n : chain'[k] = chain[k]
      /\ chain'[h].payouts = ps /\ chain'[h].pool = new
      /\ chain'[h].staker = NoStaker <=> h < nFirst
      /\ PayoutDemanded(h)' <=> PayoutDemanded(h)
  BY <1>1 DEF Connected
<1>2a. pool \in Nat /\ new \in Nat /\ new <= pool
  BY <1>1 DEF Connected
<1>3. PayoutDemanded(h) =>
        /\ ps # <<>> /\ paid \in 0..payout /\ new <= pool - paid
        /\ payout - paid <= m - 1 \/ pool - paid <= m - 1
  BY <1>1 DEF Connected
<1>4. n \in Nat /\ n >= 1 /\ n \in 1..n /\ h = n + 1 /\ h \in Nat \ {0} /\ h \in 1..(n + 1)
  <2>1. n \in Nat /\ n \in 1..n
    BY <1>2, AtTheTip
  <2> QED
    BY <1>2, <2>1, SMT
<1>5. /\ IsSuperblockHeight(h) =>
           /\ StakedInCycle(h) = {} <=> h = nFirst
           /\ StakedInCycle(h) # {} => n >= nFirst /\ m \in Nat \ {0}
      /\ m \in Nat /\ payout \in Nat
  <2>1. m \in Nat
    BY ChainAssumption, FS_CardinalityType
  <2>2. payout \in Nat
    BY <1>4, ReleasedAt
  <2> QED
    BY <1>2, <1>4, <2>1, <2>2, CyclesAreStaked
<1>6. before <= LagAt(n)
  BY <1>1, <1>2, <1>4 DEF OnSchedule, Connected
<1> HIDE DEF m, payout, paid
<1>7. ASSUME IsSuperblockHeight(h), h # nFirst
      PROVE  /\ n >= nFirst /\ m \in Nat \ {0}
             /\ payout = 0 \/ payout - (pool - new) <= m - 1 \/ new <= m - 1
  <2>1. StakedInCycle(h) # {} /\ n >= nFirst /\ m \in Nat \ {0}
    BY <1>5, <1>7
  <2>2. CASE ~PayoutDemanded(h)
    <3>1. ~(payout > 0)
      BY <1>7, <2>1, <2>2 DEF PayoutDemanded, CycleHasStakers, payout
    <3>2. payout = 0
      BY <1>5, <3>1, SMT
    <3> QED
      BY <2>1, <3>2
  <2>3. CASE PayoutDemanded(h)
    <3>1. /\ paid \in 0..payout /\ new <= pool - paid
          /\ payout - paid <= m - 1 \/ pool - paid <= m - 1
      BY <1>3, <2>3
    <3>2. payout - (pool - new) <= m - 1 \/ new <= m - 1
      BY <1>2a, <1>5, <3>1, AtLeastPaid
    <3> QED
      BY <2>1, <3>2
  <2> QED
    BY <2>2, <2>3
<1>13. after <= LagAt(h)
  <2>1. h > 1
    BY <1>4, SMT
  <2> QED
    BY <1>2, <1>2a, <1>6, <1>7, <2>1, LagStep DEF m, payout
<1> HIDE DEF n, after
<1>14. PayoutDemanded(h)' => DemandedPaid(h)' \in 0..payout
  <2> SUFFICES ASSUME PayoutDemanded(h)' PROVE DemandedPaid(h)' \in 0..payout
    OBVIOUS
  <2>1. ps # <<>> /\ paid \in 0..payout
    BY <1>2, <1>3
  <2>2. DemandedPaid(h)' = Paid(Head(chain'[h].payouts))
    BY DEF DemandedPaid, Paid
  <2>3. Head(ps) = ps[1]
    BY <2>1, SMT
  <2> QED
    BY <1>2, <2>1, <2>2, <2>3 DEF paid
<1>15. ASSUME NEW k \in 1..n PROVE PayoutDemanded(k)' => DemandedPaid(k)' \in 0..GetSuperblockPayout(k)
  <2>1. PayoutDemanded(k) => DemandedPaid(k) \in 0..GetSuperblockPayout(k)
    BY <1>2 DEF OnSchedule
  <2>2. n <= Len(chain) /\ n <= Len(chain')
    BY <1>2, <1>4, SMT
  <2>3. chain \in Seq(Blocks) /\ chain' \in Seq(Blocks)
    BY ConnectLedger DEF Ledger
  <2> QED
    BY <1>2, <1>4, <2>1, <2>2, <2>3, SameBelow
<1>16. ASSUME NEW k \in 1..h
       PROVE  /\ chain'[k].staker = NoStaker <=> k < nFirst
              /\ PayoutDemanded(k)' => DemandedPaid(k)' \in 0..GetSuperblockPayout(k)
              /\ UnpaidAt(k, chain'[k].pool) <= LagAt(k)
  <2>1. CASE k = h
    BY <1>2, <1>13, <1>14, <2>1 DEF after, payout
  <2>2. CASE k # h
    <3>1. k \in 1..n
      BY <1>4, <2>2, SMT
    <3>2. chain'[k] = chain[k] /\ k \in 1..Len(chain)
      BY <1>2, <3>1
    <3>3. (chain[k].staker = NoStaker <=> k < nFirst) /\ UnpaidAt(k, chain[k].pool) <= LagAt(k)
      BY <3>2 DEF OnSchedule
    <3> QED
      BY <1>15, <3>1, <3>2, <3>3
  <2> QED
    BY <2>1, <2>2
<1> QED
  BY <1>2, <1>16 DEF OnSchedule

\* A disconnected block leaves the chain below it on schedule.
LEMMA DisconnectOnSchedule ==
  ASSUME Ledger, OnSchedule, DisconnectTip
  PROVE  OnSchedule'
<1>1. /\ Ledger' /\ Len(chain') = Len(chain) - 1
      /\ \A k \in 1..Len(chain') : chain'[k] = chain[k]
  BY DisconnectLedger
<1>2. chain \in Seq(Blocks) /\ chain' \in Seq(Blocks) /\ Len(chain) \in Nat
  BY <1>1, AtTheTip DEF Ledger
<1>3. /\ Len(chain') \in Nat /\ Len(chain') <= Len(chain) /\ Len(chain') <= Len(chain')
      /\ \A k \in 1..Len(chain') : k \in 1..Len(chain)
  BY <1>1, <1>2, SMT
<1>4. PICK n \in Nat : n = Len(chain')
  BY <1>3
<1>5. ASSUME NEW k \in 1..n
      PROVE  (PayoutDemanded(k)' <=> PayoutDemanded(k)) /\ DemandedPaid(k)' = DemandedPaid(k)
  <2>1. n <= Len(chain) /\ n <= Len(chain') /\ \A j \in 1..n : chain'[j] = chain[j]
    BY <1>1, <1>3, <1>4
  <2> QED
    BY <1>2, <2>1, SameBelow
<1>6. ASSUME NEW k \in 1..n
      PROVE  /\ chain'[k].staker = NoStaker <=> k < nFirst
             /\ PayoutDemanded(k)' => DemandedPaid(k)' \in 0..GetSuperblockPayout(k)
             /\ UnpaidAt(k, chain'[k].pool) <= LagAt(k)
  <2>1. k \in 1..Len(chain) /\ chain'[k] = chain[k]
    BY <1>1, <1>3, <1>4
  <2>2. /\ chain[k].staker = NoStaker <=> k < nFirst
        /\ PayoutDemanded(k) => DemandedPaid(k) \in 0..GetSuperblockPayout(k)
        /\ UnpaidAt(k, chain[k].pool) <= LagAt(k)
    BY <2>1 DEF OnSchedule
  <2> QED
    BY <1>5, <2>1, <2>2
<1> QED
  BY <1>4, <1>6 DEF OnSchedule

\* The ledger and the schedule are invariant, whatever the relay fee.
LEMMA ScheduleInvariant == Spec => [](Ledger /\ OnSchedule)
<1>1. Init => OnSchedule
  <2> SUFFICES ASSUME Init PROVE OnSchedule
    OBVIOUS
  <2> DEFINE b == [staker |-> NoStaker, payouts |-> <<>>, pool |-> PoolTotal]
  <2>1. chain = <<b>> /\ b.staker = NoStaker /\ b.pool = PoolTotal
    BY DEF Init
  <2>2. PoolTotal \in Nat /\ 1 < nFirst
    BY PhasesNat, ChainAssumption, SMT DEF PoolTotal
  <2>3. CycleAt(1) = -1 /\ LagAt(1) = 0
    BY <2>2 DEF CycleAt, LagAt
  <2>4. GetSuperblockCumulativeTarget(-1) = 0
    <3>1. -1 \in Int /\ -1 + 1 <= 0
      BY SMT
    <3> QED
      BY <3>1 DEF GetSuperblockCumulativeTarget
  <2> HIDE DEF b
  <2>5. Len(chain) = 1 /\ chain[1] = b
    BY <2>1
  <2>6. UnpaidAt(1, PoolTotal) = 0
    BY <2>1, <2>2, <2>3, <2>4, <2>5, SMT DEF UnpaidAt
  <2>7. \A k \in 1..Len(chain) : k = 1
    BY <2>5, SMT
  <2>8. ~PayoutDemanded(1)
    <3>1. ~(1 >= nFirst)
      BY <2>2, ChainAssumption, SMT
    <3> QED
      BY <3>1 DEF PayoutDemanded, IsSuperblockHeight
  <2>9. UnpaidAt(1, PoolTotal) <= LagAt(1)
    BY <2>3, <2>6, SMT
  <2> QED
    BY <2>1, <2>2, <2>5, <2>7, <2>8, <2>9 DEF OnSchedule
<1>2. Ledger /\ OnSchedule /\ [Next]_vars => OnSchedule'
  <2> SUFFICES ASSUME Ledger, OnSchedule, [Next]_vars PROVE OnSchedule'
    OBVIOUS
  <2>1. ASSUME NEW s, CreateNewBlock(s) \/ ReceiveSuperblock(s) PROVE OnSchedule'
    BY <2>1, ConnectedPayouts, ConnectOnSchedule
  <2>2. CASE chain' = chain
    <3>1. \A k \in 1..Len(chain) : PayoutDemanded(k)' = PayoutDemanded(k)
                                   /\ DemandedPaid(k)' = DemandedPaid(k)
      BY <2>2 DEF PayoutDemanded, DemandedPaid, CycleHasStakers, StakedInCycle, Paid
    <3> QED
      BY <2>2, <3>1 DEF OnSchedule
  <2>3. CASE DisconnectTip
    BY <2>3, DisconnectOnSchedule
  <2> QED
    BY <2>1, <2>2, <2>3 DEF Next, vars, BroadcastPayout
<1> QED
  BY <1>1, <1>2, LedgerInvariant, PTL DEF Spec

\* The demanded payouts stay behind the schedule by the first cycle: each pays
\* at most what the schedule releases at its height, and the first none.
LEMMA DemandedBehind ==
  ASSUME Ledger, OnSchedule
  PROVE  /\ Demanded \in Int
         /\ Demanded <= IF TipCycle < 0 THEN 0
                        ELSE GetSuperblockCumulativeTarget(TipCycle)
                               - GetSuperblockCumulativeTarget(0)
<1> DEFINE n == Len(chain)
           first == GetSuperblockCumulativeTarget(0)
           w == [k \in 0..n |-> IF CycleAt(k) < 0 THEN 0
                                ELSE first - GetSuperblockCumulativeTarget(CycleAt(k))]
           f == [k \in DOMAIN chain |-> DemandedPaid(k)]
           g == [k \in 1..n |-> w[k - 1] - w[k]]
<1>1. n \in Nat /\ n \in 1..n /\ TipCycle = CycleAt(n) /\ DOMAIN chain = 1..n
  BY AtTheTip, ChainTyped DEF Ledger
<1>2. first \in 0..PoolTotal /\ PoolTotal \in Nat /\ nFirst \in Nat /\ nFirst > 1
  BY ScheduleBounded, ChainAssumption, PhasesNat, SMT DEF PoolTotal
<1>3. ASSUME NEW k \in 0..n
      PROVE  /\ k \in Nat /\ CycleAt(k) \in Int
             /\ GetSuperblockCumulativeTarget(CycleAt(k)) \in 0..PoolTotal
             /\ w[k] \in Int
  <2>1. k \in Nat
    BY <1>1, SMT
  <2>2. CycleAt(k) \in Int
    BY <2>1, CycleStep
  <2>3. GetSuperblockCumulativeTarget(CycleAt(k)) \in 0..PoolTotal
    BY <2>2, ScheduleBounded
  <2>4. first - GetSuperblockCumulativeTarget(CycleAt(k)) \in Int
    BY <1>2, <2>3, SMT
  <2> QED
    BY <2>1, <2>2, <2>3, <2>4, SMT
<1>4. ASSUME NEW k \in 1..n
      PROVE  f[k] \in Int /\ g[k] \in Int /\ f[k] <= g[k] /\ g[k] = w[k - 1] - w[k]
  <2> DEFINE j == k - 1
             c == CycleAt(j)
             d == CycleAt(k)
             released == GetSuperblockCumulativeTarget(c)
             due == GetSuperblockCumulativeTarget(d)
             payout == GetSuperblockPayout(k)
  <2>1. /\ k \in Nat \ {0} /\ j \in Nat /\ j \in 0..n /\ k \in 0..n /\ k = j + 1
        /\ k \in 1..(n + 1) /\ k >= 1
    BY <1>1, SMT
  <2>2. /\ c \in Int /\ d \in Int /\ released \in 0..PoolTotal /\ due \in 0..PoolTotal
        /\ payout \in Nat /\ payout = due - released
    BY <2>1, ReleasedAt
  <2>3. /\ w[j] = IF c < 0 THEN 0 ELSE first - released
        /\ w[k] = IF d < 0 THEN 0 ELSE first - due
        /\ f[k] = DemandedPaid(k) /\ g[k] = w[j] - w[k]
    BY <1>1, <2>1
  <2>4. /\ ~IsSuperblockHeight(k) => d = c
        /\ IsSuperblockHeight(k) => d = c + 1
        /\ CycleAt(nFirst) = 0 /\ (j >= nFirst => c \in Nat)
    BY <2>1, CycleStep
  <2>5. PayoutDemanded(k) => /\ IsSuperblockHeight(k) /\ j >= nFirst
                             /\ DemandedPaid(k) \in 0..payout
    <3>1. PayoutDemanded(k) => IsSuperblockHeight(k) /\ StakedInCycle(k) # {}
      BY DEF PayoutDemanded, CycleHasStakers
    <3>2. PayoutDemanded(k) => DemandedPaid(k) \in 0..payout
      BY DEF OnSchedule
    <3>3. PayoutDemanded(k) => j >= nFirst
      BY <2>1, <3>1, CyclesAreStaked
    <3> QED
      BY <3>1, <3>2, <3>3
  <2>6. ~PayoutDemanded(k) => DemandedPaid(k) = 0
    BY DEF DemandedPaid
  <2>7. c < 0 /\ ~(d < 0) => due = first
    <3>1. c < 0 /\ ~(d < 0) => d = 0
      <4>1. d = c \/ d = c + 1
        BY <2>4
      <4> HIDE DEF c, d
      <4> QED
        BY <2>2, <4>1, SMT
    <3> QED
      BY <3>1
  <2> HIDE DEF j, c, d, released, due, payout, w, f, g, first
  <2>8. CASE PayoutDemanded(k)
    <3>1. c \in Nat /\ d = c + 1 /\ DemandedPaid(k) \in 0..payout
      BY <2>4, <2>5, <2>8
    <3>2. w[j] = first - released /\ w[k] = first - due
      BY <2>3, <3>1, SMT
    <3> QED
      BY <1>2, <2>2, <2>3, <3>1, <3>2, SMT DEF j
  <2>9. CASE ~PayoutDemanded(k)
    <3>1. d = c \/ d = c + 1
      BY <2>4
    <3>2. w[j] - w[k] >= 0 /\ w[j] \in Int /\ w[k] \in Int
      BY <1>2, <2>2, <2>3, <2>7, <3>1, SMT
    <3> QED
      BY <2>3, <2>6, <2>9, <3>2, SMT DEF j
  <2> QED
    BY <2>8, <2>9
<1>5. SumFunctionOnSet(g, 1..n) = w[0] - w[n]
  <2>1. \A k \in 0..n : w[k] \in Int
    BY <1>3
  <2>2. \A k \in 1..n : g[k] = w[k - 1] - w[k]
    BY <1>4
  <2> HIDE DEF w, g, n
  <2> QED
    BY <1>1, <2>1, <2>2, SumTelescopes
<1>6. Demanded = SumFunctionOnSet(f, 1..n)
  BY <1>1 DEF Demanded, SumFunction
<1>7. w[0] = 0
  <2>1. 0 \in 0..n /\ 0 < nFirst
    BY <1>1, <1>2, SMT
  <2>2. CycleAt(0) = -1 /\ -1 < 0
    BY <2>1, SMT DEF CycleAt
  <2> QED
    BY <2>1, <2>2
<1>8. /\ n \in 0..n /\ w[n] \in Int
      /\ w[n] = IF TipCycle < 0 THEN 0 ELSE first - GetSuperblockCumulativeTarget(TipCycle)
      /\ GetSuperblockCumulativeTarget(TipCycle) \in 0..PoolTotal
  <2>1. n \in 0..n
    BY <1>1, SMT
  <2> QED
    BY <1>1, <1>3, <2>1
<1>9. IsFiniteSet(1..n)
  BY <1>1, FS_Interval, SMT
<1> HIDE DEF w, f, g, n, first
<1>10. /\ SumFunctionOnSet(f, 1..n) \in Int /\ SumFunctionOnSet(g, 1..n) \in Int
       /\ SumFunctionOnSet(f, 1..n) <= SumFunctionOnSet(g, 1..n)
  BY <1>4, <1>9, SumMonotone
<1>11. SumFunctionOnSet(f, 1..n) <= 0 - w[n]
  BY <1>5, <1>7, <1>8, <1>10, SMT
<1>12. 0 - w[n] = IF TipCycle < 0 THEN 0 ELSE GetSuperblockCumulativeTarget(TipCycle) - first
  BY <1>2, <1>8, SMT
<1> QED
  BY <1>6, <1>10, <1>11, <1>12 DEF first

\* The stray payouts on the chain.
Strays == SumFunction([k \in DOMAIN chain |-> StrayPayouts(k)])

\* The inductive invariant of the mempool: a stray payout, on the chain or still
\* to come, costs a disconnected block, when a payout cannot enter by itself.
StraysReturned ==
  /\ reorgs \in Nat
  /\ MinRelayFee > 0 => Strays + Len(mempool) <= reorgs

\* The number of a block's stray payouts.
LEMMA StrayTyped ==
  ASSUME chain \in Seq(Blocks), NEW k \in 1..Len(chain)
  PROVE  /\ Len(chain[k].payouts) \in Nat /\ StrayPayouts(k) \in Int
         /\ StrayPayouts(k) = IF PayoutDemanded(k) THEN Len(chain[k].payouts) - 1
                              ELSE Len(chain[k].payouts)
<1>1. chain[k].payouts \in Seq(Payouts)
  BY ChainTyped
<1>2. Len(chain[k].payouts) \in Nat
  BY <1>1, SMT
<1>3. StrayPayouts(k) = Len(chain[k].payouts) - (IF PayoutDemanded(k) THEN 1 ELSE 0)
  BY DEF StrayPayouts
<1> QED
  BY <1>2, <1>3, SMT

\* A new tip adds its stray payouts.
LEMMA StraysConnected ==
  ASSUME chain \in Seq(Blocks), chain' \in Seq(Blocks), NEW n \in Nat,
         Len(chain) = n, Len(chain') = n + 1, \A k \in 1..n : chain'[k] = chain[k],
         StrayPayouts(n + 1)' \in Int
  PROVE  Strays' = StrayPayouts(n + 1)' + Strays /\ Strays \in Int
<1> DEFINE f == [k \in DOMAIN chain |-> StrayPayouts(k)]
           g == [k \in DOMAIN chain' |-> StrayPayouts(k)']
<1>1. DOMAIN chain = 1..n /\ DOMAIN chain' = 1..(n + 1) /\ n <= Len(chain) /\ n <= Len(chain')
  BY SMT
<1>2. \A k \in 1..n : k \in 1..(n + 1)
  BY SMT
<1>3. ASSUME NEW k \in 1..n PROVE StrayPayouts(k)' = StrayPayouts(k) /\ StrayPayouts(k) \in Int
  BY <1>1, SameBelow, StrayTyped
<1>4. ASSUME NEW k \in 1..(n + 1) PROVE StrayPayouts(k)' \in Int
  <2>1. k \in 1..n \/ k = n + 1
    BY SMT
  <2> QED
    BY <1>3, <2>1
<1>5. /\ \A k \in 1..(n + 1) : g[k] \in Int
      /\ \A k \in 1..n : f[k] = g[k]
  BY <1>1, <1>2, <1>3, <1>4
<1>6. Strays = SumFunctionOnSet(f, 1..n)
  BY <1>1 DEF Strays, SumFunction
<1>7. Strays' = SumFunctionOnSet(g, 1..(n + 1))
  BY <1>1 DEF Strays, SumFunction
<1>8. g[n + 1] = StrayPayouts(n + 1)'
  <2>1. n + 1 \in 1..(n + 1)
    BY SMT
  <2> QED
    BY <1>1, <2>1
<1> HIDE DEF f, g
<1>9. /\ SumFunctionOnSet(g, 1..(n + 1)) = g[n + 1] + SumFunctionOnSet(f, 1..n)
      /\ SumFunctionOnSet(f, 1..n) \in Int
  BY <1>5, SumExtends
<1> QED
  BY <1>6, <1>7, <1>8, <1>9

\* A disconnected tip takes its stray payouts along.
LEMMA StraysDisconnected ==
  ASSUME chain \in Seq(Blocks), chain' \in Seq(Blocks), NEW n \in Nat,
         Len(chain) = n + 1, Len(chain') = n, \A k \in 1..n : chain'[k] = chain[k]
  PROVE  Strays = StrayPayouts(n + 1) + Strays' /\ Strays' \in Int /\ StrayPayouts(n + 1) \in Int
<1> DEFINE f == [k \in DOMAIN chain' |-> StrayPayouts(k)']
           g == [k \in DOMAIN chain |-> StrayPayouts(k)]
<1>1. DOMAIN chain' = 1..n /\ DOMAIN chain = 1..(n + 1) /\ n <= Len(chain) /\ n <= Len(chain')
  BY SMT
<1>2. \A k \in 1..n : k \in 1..(n + 1)
  BY SMT
<1>3. \A k \in 1..n : StrayPayouts(k)' = StrayPayouts(k)
  BY <1>1, SameBelow
<1>4. \A k \in 1..(n + 1) : StrayPayouts(k) \in Int
  BY StrayTyped
<1>5. /\ \A k \in 1..(n + 1) : g[k] \in Int
      /\ \A k \in 1..n : f[k] = g[k]
  BY <1>1, <1>2, <1>3, <1>4
<1>6. Strays' = SumFunctionOnSet(f, 1..n)
  BY <1>1 DEF Strays, SumFunction
<1>7. Strays = SumFunctionOnSet(g, 1..(n + 1))
  BY <1>1 DEF Strays, SumFunction
<1>8. g[n + 1] = StrayPayouts(n + 1)
  <2>1. n + 1 \in 1..(n + 1)
    BY SMT
  <2> QED
    BY <1>1, <2>1
<1> HIDE DEF f, g
<1>9. /\ SumFunctionOnSet(g, 1..(n + 1)) = g[n + 1] + SumFunctionOnSet(f, 1..n)
      /\ SumFunctionOnSet(f, 1..n) \in Int /\ g[n + 1] \in Int
  BY <1>5, SumExtends
<1> QED
  BY <1>6, <1>7, <1>8, <1>9

\* A connected block turns payouts of the mempool into stray ones, or carries
\* the demanded one: the two together do not grow.
LEMMA ConnectStrays ==
  ASSUME Ledger, OnSchedule, NEW s, NEW ps \in Seq(Payouts),
         Chained(chain[Len(chain)].pool, ps), ConnectBlock(s, ps),
         \/ Len(ps) <= Len(mempool) /\ ps = SubSeq(mempool, 1, Len(ps))
         \/ \E t \in BuildSuperblockPayoutOutputs(Len(chain) + 1, chain[Len(chain)].pool) :
              ps = <<t>>
  PROVE  /\ Strays' + Len(mempool') <= Strays + Len(mempool)
         /\ Strays \in Int /\ Strays' \in Int /\ Len(mempool) \in Nat /\ Len(mempool') \in Nat
<1>1. PICK h, pool, new : Connected(ps, h, pool, new)
  BY ConnectFacts
<1> DEFINE n == h - 1
           m == Len(mempool)
           l == Len(ps)
           stray == IF PayoutDemanded(h) THEN l - 1 ELSE l
<1>2. /\ h \in Nat /\ n = Len(chain) /\ Len(chain') = h
      /\ \A k \in 1..n : chain'[k] = chain[k]
      /\ chain'[h].payouts = ps
      /\ PayoutDemanded(h)' <=> PayoutDemanded(h)
      /\ pool \in Nat
  BY <1>1 DEF Connected
<1>3. n \in Nat /\ h = n + 1
  <2>1. Len(chain) \in Nat
    BY AtTheTip
  <2> QED
    BY <1>2, <2>1, SMT
<1>4. /\ chain \in Seq(Blocks) /\ chain' \in Seq(Blocks)
      /\ mempool \in Seq(Payouts) /\ mempool' \in Seq(Payouts)
  BY ConnectLedger DEF Ledger
<1>5. m \in Nat /\ l \in Nat /\ Len(mempool') \in Nat
  BY <1>4, SMT
<1>6. StrayPayouts(h)' = stray /\ stray \in Int
  <2>1. StrayPayouts(h)' = l - (IF PayoutDemanded(h) THEN 1 ELSE 0)
    BY <1>2 DEF StrayPayouts
  <2> QED
    BY <1>5, <2>1, SMT
<1> HIDE DEF n, m, l, stray
<1>7. Strays' = stray + Strays /\ Strays \in Int
  <2>1. StrayPayouts(n + 1)' = stray
    BY <1>3, <1>6
  <2> QED
    BY <1>2, <1>3, <1>4, <1>6, <2>1, StraysConnected
<1>8. stray + Len(mempool') <= m
  <2>1. mempool' = MempoolAfter(ps)
    BY DEF ConnectBlock
  <2>2. CASE l <= m /\ ps = SubSeq(mempool, 1, l)
    <3>1. mempool' = SubSeq(mempool, l + 1, m)
      BY <2>1, <2>2 DEF MempoolAfter, l, m
    <3>2. Len(mempool') = m - l
      BY <1>4, <1>5, <2>2, <3>1, SMT DEF m
    <3> QED
      BY <1>5, <3>2, SMT DEF stray
  <2>3. CASE ~(l <= m /\ ps = SubSeq(mempool, 1, l))
    <3>1. mempool' = <<>>
      BY <2>1, <2>3 DEF MempoolAfter, l, m
    <3>2. PICK t \in BuildSuperblockPayoutOutputs(h, pool) : ps = <<t>>
      BY <1>1, <2>3 DEF l, m, Connected
    <3>3. IsSuperblockHeight(h) /\ GetSuperblockPayout(h) > 0 /\ StakedInCycle(h) # {}
      <4>1. IsSuperblockHeight(h) /\ GetSuperblockPayout(h) \in Nat \ {0} /\ StakedInCycle(h) # {}
        BY <1>2, <1>4, PayoutFacts
      <4> QED
        BY <4>1, SMT
    <3>4. PayoutDemanded(h)
      BY <3>3 DEF PayoutDemanded, CycleHasStakers
    <3>5. l = 1 /\ Len(mempool') = 0
      BY <3>1, <3>2 DEF l
    <3> QED
      BY <1>5, <3>4, <3>5, SMT DEF stray
  <2> QED
    BY <2>2, <2>3
<1> QED
  BY <1>5, <1>6, <1>7, <1>8, SMT DEF m

\* Stray payouts and the mempool's are paid for by disconnected blocks, in
\* every reachable state.
LEMMA StrayInvariant == Spec => []StraysReturned
<1>1. Init => StraysReturned
  <2> SUFFICES ASSUME Init PROVE StraysReturned
    OBVIOUS
  <2> DEFINE b == [staker |-> NoStaker, payouts |-> <<>>, pool |-> PoolTotal]
             f == [k \in DOMAIN chain |-> StrayPayouts(k)]
  <2>1. chain = <<b>> /\ b.payouts = <<>> /\ mempool = <<>> /\ reorgs = 0
    BY DEF Init
  <2> HIDE DEF b
  <2>2. Len(chain) = 1 /\ chain[1] = b /\ DOMAIN chain = 1..1 /\ Len(mempool) = 0
    BY <2>1, SMT
  <2>3. ~PayoutDemanded(1)
    <3>1. ~(1 >= nFirst)
      BY ChainAssumption, SMT
    <3> QED
      BY <3>1 DEF PayoutDemanded, IsSuperblockHeight
  <2>4. StrayPayouts(1) = 0
    <3>1. Len(chain[1].payouts) = 0
      BY <2>1, <2>2, SMT
    <3>2. 0 - 0 = 0
      BY SMT
    <3> QED
      BY <2>3, <3>1, <3>2 DEF StrayPayouts
  <2>5. \A k \in 1..1 : f[k] = 0 /\ f[k] \in Int
    <3>1. \A k \in 1..1 : k = 1
      BY SMT
    <3> QED
      BY <2>2, <2>4, <3>1, SMT
  <2>6. Strays = SumFunctionOnSet(f, 1..1)
    BY <2>2 DEF Strays, SumFunction
  <2> HIDE DEF f
  <2>7. SumFunctionOnSet(f, 1..1) = SumFunctionOnSet(f, {})
    <3>1. IsFiniteSet(1..1)
      <4>1. 1..1 = {1}
        BY SMT
      <4> QED
        BY <4>1, FS_Singleton
    <3>2. {} \in SUBSET (1..1) /\ \A k \in (1..1) \ {} : f[k] = 0
      BY <2>5
    <3> QED
      BY <2>5, <3>1, <3>2, SumSupport
  <2>8. Strays = 0
    BY <2>6, <2>7, SumEmpty
  <2> QED
    BY <2>1, <2>2, <2>8, SMT DEF StraysReturned
<1>2. Ledger /\ OnSchedule /\ StraysReturned /\ [Next]_vars => StraysReturned'
  <2> SUFFICES ASSUME Ledger, OnSchedule, StraysReturned, [Next]_vars PROVE StraysReturned'
    OBVIOUS
  <2>1. ASSUME NEW s, CreateNewBlock(s) \/ ReceiveSuperblock(s) PROVE StraysReturned'
    <3>1. PICK ps \in Seq(Payouts) :
            /\ Chained(chain[Len(chain)].pool, ps)
            /\ ConnectBlock(s, ps)
            /\ \/ Len(ps) <= Len(mempool) /\ ps = SubSeq(mempool, 1, Len(ps))
               \/ \E t \in BuildSuperblockPayoutOutputs(Len(chain) + 1, chain[Len(chain)].pool) :
                    ps = <<t>>
      BY <2>1, ConnectedPayouts
    <3>2. reorgs' = reorgs
      BY <3>1 DEF ConnectBlock
    <3>3. /\ Strays' + Len(mempool') <= Strays + Len(mempool)
          /\ Strays \in Int /\ Strays' \in Int /\ Len(mempool) \in Nat /\ Len(mempool') \in Nat
      BY <3>1, ConnectStrays
    <3> QED
      BY <3>2, <3>3, SMT DEF StraysReturned
  <2>2. CASE BroadcastPayout
    <3>1. chain' = chain /\ reorgs' = reorgs
      BY <2>2 DEF BroadcastPayout
    <3>2. MinRelayFee > 0 => mempool' = mempool
      <4> SUFFICES ASSUME MinRelayFee > 0 PROVE mempool' = mempool
        OBVIOUS
      <4>1. PICK t \in BuildSuperblockPayoutOutputs(Len(chain) + 1, Pool) :
              mempool' # mempool => Fee(t) >= MinRelayFee
        BY <2>2 DEF BroadcastPayout
      <4>2. Len(chain) + 1 \in Nat /\ Pool \in Nat /\ chain \in Seq(Blocks)
        BY AtTheTip, SMT DEF Ledger
      <4>3. t \in Payouts
        BY <4>2, PayoutFacts
      <4>4. Fee(t) = 0
        BY <4>3, PayoutTyped
      <4>5. ~(0 >= MinRelayFee)
        BY ChainAssumption, SMT
      <4> QED
        BY <4>1, <4>4, <4>5
    <3>3. Strays' = Strays
      BY <3>1 DEF Strays, StrayPayouts, PayoutDemanded, CycleHasStakers, StakedInCycle
    <3> QED
      BY <3>1, <3>2, <3>3 DEF StraysReturned
  <2>3. CASE DisconnectTip
    <3>1. /\ Ledger' /\ Len(chain') = Len(chain) - 1
          /\ \A k \in 1..Len(chain') : chain'[k] = chain[k]
      BY <2>3, DisconnectLedger
    <3>2. chain \in Seq(Blocks) /\ chain' \in Seq(Blocks) /\ mempool \in Seq(Payouts)
      BY <3>1 DEF Ledger
    <3>3. PICK n \in Nat : Len(chain) = n + 1 /\ Len(chain') = n /\ n + 1 \in 1..Len(chain)
      <4>1. Len(chain') \in Nat /\ Len(chain) = Len(chain') + 1 /\ Len(chain') + 1 \in 1..Len(chain)
        BY <3>1, <3>2, SMT
      <4> QED
        BY <4>1
    <3>4. Strays = StrayPayouts(n + 1) + Strays' /\ Strays' \in Int /\ StrayPayouts(n + 1) \in Int
      BY <3>1, <3>2, <3>3, StraysDisconnected
    <3>5. /\ Len(chain[n + 1].payouts) \in Nat
          /\ StrayPayouts(n + 1) = IF PayoutDemanded(n + 1) THEN Len(chain[n + 1].payouts) - 1
                                   ELSE Len(chain[n + 1].payouts)
      BY <3>2, <3>3, StrayTyped
    <3>6. mempool' = chain[n + 1].payouts \o mempool /\ reorgs' = reorgs + 1
      BY <2>3, <3>3 DEF DisconnectTip
    <3>7. chain[n + 1].payouts \in Seq(Payouts)
      BY <3>2, <3>3, ChainTyped
    <3>8. Len(mempool') = Len(chain[n + 1].payouts) + Len(mempool) /\ Len(mempool) \in Nat
      BY <3>2, <3>6, <3>7, SMT
    <3>9. reorgs \in Nat /\ (MinRelayFee > 0 => Strays + Len(mempool) <= reorgs)
      BY DEF StraysReturned
    <3>10. Strays' + Len(mempool') <= Strays + Len(mempool) + 1
      <4> DEFINE p == Len(chain[n + 1].payouts)
                 stray == StrayPayouts(n + 1)
      <4>1. p \in Nat /\ stray \in Int /\ (stray = p - 1 \/ stray = p)
        BY <3>4, <3>5
      <4>2. Strays = stray + Strays' /\ Len(mempool') = p + Len(mempool)
        BY <3>4, <3>8
      <4>3. Strays' \in Int /\ Len(mempool) \in Nat
        BY <3>4, <3>8
      <4> HIDE DEF p, stray
      <4> QED
        BY <4>1, <4>2, <4>3, SMT
    <3>11. Strays \in Int /\ Len(mempool') \in Nat
      BY <3>4, <3>5, <3>8, SMT
    <3>12. reorgs' \in Nat /\ (MinRelayFee > 0 => Strays' + Len(mempool') <= reorgs')
      <4>1. reorgs' = reorgs + 1 /\ Strays' \in Int /\ Len(mempool) \in Nat
        BY <3>4, <3>6, <3>8
      <4> QED
        BY <3>9, <3>10, <3>11, <4>1, SMT
    <3> QED
      BY <3>12 DEF StraysReturned
  <2>4. CASE UNCHANGED vars
    BY <2>4 DEF vars, StraysReturned, Strays, StrayPayouts, PayoutDemanded, CycleHasStakers,
                StakedInCycle
  <2> QED
    BY <2>1, <2>2, <2>3, <2>4 DEF Next
<1> QED
  BY <1>1, <1>2, ScheduleInvariant, PTL DEF Spec

\* The pool is ahead of the schedule at most by stray payouts, and with a
\* positive relay fee those are payouts that a disconnected block returned to
\* the mempool (UpdateMempoolForReorg), for every schedule, every cycle length,
\* every number of stakers and every reorganisation.
THEOREM PoolAheadOnlyByReorganisation == Spec => []AheadOnlyByReorganisation
<1>1. Ledger /\ OnSchedule /\ StraysReturned => AheadOnlyByReorganisation
  BY DemandedBehind DEF StraysReturned, Strays, AheadOnlyByReorganisation
<1> QED
  BY <1>1, ScheduleInvariant, StrayInvariant, PTL

\* The pool lags by the first cycle and by less than one unit per staker for
\* every cycle since: a superblock never skips a payout that is due, whatever
\* the relay fee and whatever the mempool holds.
THEOREM PoolLagIsBounded == Spec => []LagBounded
<1>1. Ledger /\ OnSchedule => LagBounded
  <2> SUFFICES ASSUME Ledger, OnSchedule, TipCycle >= 0
               PROVE  Unpaid <= GetSuperblockCumulativeTarget(0)
                                  + TipCycle * (Cardinality(Stakers) - 1)
    BY DEF LagBounded
  <2>1. ~(Len(chain) < nFirst)
    BY SMT DEF TipCycle
  <2>2. UnpaidAt(Len(chain), chain[Len(chain)].pool) <= LagAt(Len(chain))
    BY AtTheTip DEF OnSchedule
  <2> QED
    BY <2>1, <2>2, AtTheTip DEF LagAt
<1> QED
  BY <1>1, ScheduleInvariant, PTL

\* A payout that ConnectBlock demands can be built, and in full, while stray
\* payouts took no more than the first cycle's release: the pool's coin then
\* holds what the schedule still has to release, and the premine is mature.
THEOREM DemandedPayoutCanBeBuilt == Spec => []PayoutCanBeBuilt
<1>1. Ledger /\ OnSchedule => PayoutCanBeBuilt
  <2> DEFINE n == Len(chain)
             h == n + 1
             first == GetSuperblockCumulativeTarget(0)
             released == GetSuperblockCumulativeTarget(TipCycle)
             tally == TallyStakersInCycle(h)
             payout == GetSuperblockPayout(h)
             t == ComputeSuperblockDistribution(tally, payout, Pool)
  <2> SUFFICES ASSUME Ledger, OnSchedule, PayoutDemanded(h), Stray <= first
               PROVE  /\ BuildSuperblockPayoutOutputs(h, Pool) # {} /\ Pool >= payout
                      /\ n >= nCoinbaseMaturity
    BY DEF PayoutCanBeBuilt
  <2>1. IsSuperblockHeight(h) /\ payout > 0 /\ StakedInCycle(h) # {}
    BY DEF PayoutDemanded, CycleHasStakers
  <2>2. n \in Nat /\ h \in Nat \ {0} /\ h \in 1..(n + 1) /\ h - 1 = n /\ Pool \in Nat
    <3>1. n \in Nat /\ Pool \in Nat
      BY AtTheTip
    <3> QED
      BY <3>1, SMT
  <2>3. n >= nFirst /\ h >= nFirst + nCycle
    <3>1. \A g \in 1..(n + 1) : IsSuperblockHeight(g) /\ StakedInCycle(g) # {} =>
                                  g - 1 >= nFirst /\ g >= nFirst + nCycle
      BY CyclesAreStaked
    <3> QED
      BY <2>1, <2>2, <3>1
  <2>4. n >= nCoinbaseMaturity
    BY <2>2, <2>3, ChainAssumption, SMT
  <2>5. Pool >= payout
    <3>1. /\ payout \in Nat /\ released \in 0..PoolTotal
          /\ GetSuperblockCumulativeTarget(CycleAt(h)) \in 0..PoolTotal
          /\ payout = GetSuperblockCumulativeTarget(CycleAt(h)) - released
      <4>1. \A g \in Nat \ {0} :
              /\ GetSuperblockPayout(g) \in Nat
              /\ GetSuperblockCumulativeTarget(CycleAt(g)) \in 0..PoolTotal
              /\ GetSuperblockCumulativeTarget(CycleAt(g - 1)) \in 0..PoolTotal
              /\ GetSuperblockPayout(g) = GetSuperblockCumulativeTarget(CycleAt(g))
                                            - GetSuperblockCumulativeTarget(CycleAt(g - 1))
        BY ReleasedAt
      <4>2. TipCycle = CycleAt(h - 1)
        BY <2>2, AtTheTip
      <4> QED
        BY <2>2, <4>1, <4>2
    <3>2. ~(TipCycle < 0)
      <4>1. CycleAt(n) \in Nat
        BY <2>2, <2>3, CycleStep
      <4>2. TipCycle \in Nat
        BY <4>1, AtTheTip
      <4> QED
        BY <4>2, SMT
    <3>3. Demanded \in Int /\ Demanded <= released - first
      BY <3>2, DemandedBehind
    <3>4. first \in 0..PoolTotal /\ PoolTotal \in Nat
      BY ScheduleBounded, PhasesNat, SMT DEF PoolTotal
    <3>5. PoolTotal - Pool - Demanded <= first
      BY DEF Stray
    <3> HIDE DEF first, released, payout
    <3> QED
      BY <2>2, <3>1, <3>3, <3>4, <3>5, SMT
  <2>6. Pool > 0
    <3>1. payout \in Nat
      BY <2>2, PayoutInRange, SMT
    <3> HIDE DEF payout
    <3> QED
      BY <2>1, <2>2, <2>5, <3>1, SMT
  <2>7. t.spent = Pool /\ t.change = Pool - SumFunction(t.shares)
    BY DEF ComputeSuperblockDistribution
  <2>8. DOMAIN t.shares # {} \/ t.change > 0
    <3> HIDE DEF t
    <3>1. DOMAIN t.shares = {} => SumFunction(t.shares) = 0
      BY SumEmpty DEF SumFunction
    <3>2. Pool - 0 > 0
      BY <2>2, <2>6, SMT
    <3> QED
      BY <2>7, <3>1, <3>2
  <2>9. t \in BuildSuperblockPayoutOutputs(h, Pool)
    <3> HIDE DEF t
    <3>1. t \in {ComputeSuperblockDistribution(TallyStakersInCycle(h),
                    GetSuperblockPayout(h), Pool) : k \in StakedInCycle(h)}
      BY <2>1 DEF t
    <3> QED
      BY <2>1, <2>8, <3>1 DEF BuildSuperblockPayoutOutputs
  <2> QED
    BY <2>4, <2>5, <2>9
<1> QED
  BY <1>1, ScheduleInvariant, PTL

\* A block that carries no stray payout pays at most what the schedule releases
\* at its height.
LEMMA ConnectKeepsLeftover ==
  ASSUME Ledger, OnSchedule, NEW s, NEW ps \in Seq(Payouts),
         Chained(chain[Len(chain)].pool, ps), ConnectBlock(s, ps),
         (StrayPayouts(Len(chain)))' = 0
  PROVE  UnpaidAt(Len(chain'), chain'[Len(chain')].pool)
           >= UnpaidAt(Len(chain), chain[Len(chain)].pool)
<1>1. PICK h, pool, new : Connected(ps, h, pool, new)
  BY ConnectFacts
<1> DEFINE n == h - 1
           released == GetSuperblockCumulativeTarget(CycleAt(n))
           due == GetSuperblockCumulativeTarget(CycleAt(h))
           payout == GetSuperblockPayout(h)
           paid == Paid(ps[1])
<1>2. /\ h \in Nat /\ n = Len(chain) /\ Len(chain') = h
      /\ chain'[h].payouts = ps /\ chain'[h].pool = new
      /\ PayoutDemanded(h)' <=> PayoutDemanded(h)
  BY <1>1 DEF Connected
<1>2a. pool \in Nat /\ new \in Nat
  BY <1>1 DEF Connected
<1>3. PayoutDemanded(h) => paid \in 0..payout /\ (Len(ps) = 1 => new = pool - paid)
  BY <1>1 DEF Connected
<1>4. h \in Nat \ {0} /\ PoolTotal \in Nat
  <2>1. Len(chain) \in Nat
    BY AtTheTip
  <2> QED
    BY <1>2, <2>1, PhasesNat, SMT DEF PoolTotal
<1>5. released \in 0..PoolTotal /\ due \in 0..PoolTotal /\ payout \in Nat /\ payout = due - released
  BY <1>4, ReleasedAt
<1>6. Len(ps) - (IF PayoutDemanded(h) THEN 1 ELSE 0) = 0 /\ Len(ps) \in Nat
  <2>1. Len(chain'[Len(chain')].payouts) - (IF PayoutDemanded(Len(chain))' THEN 1 ELSE 0) = 0
    BY DEF StrayPayouts
  <2>2. PayoutDemanded(Len(chain))' <=> PayoutDemanded(h)'
    BY <1>2 DEF PayoutDemanded, CycleHasStakers, StakedInCycle
  <2>3. Len(ps) \in Nat
    BY SMT
  <2> QED
    BY <1>2, <2>1, <2>2, <2>3
<1>7. ~PayoutDemanded(h) => new = pool
  <2>1. ~PayoutDemanded(h) => ps = <<>>
    BY <1>6, SMT
  <2> QED
    BY <1>1, <2>1 DEF After, Connected
<1> HIDE DEF n, released, due, payout, paid
<1>8. pool - new <= payout
  <2>1. CASE PayoutDemanded(h)
    <3>1. Len(ps) = 1
      BY <1>6, <2>1, SMT
    <3>2. paid \in 0..payout /\ new = pool - paid
      BY <1>3, <2>1, <3>1
    <3>3. payout \in Nat
      BY <1>5
    <3> QED
      BY <1>2a, <3>2, <3>3, SMT
  <2>2. CASE ~PayoutDemanded(h)
    BY <1>2a, <1>5, <1>7, <2>2, SMT
  <2> QED
    BY <2>1, <2>2
<1>9. due - (PoolTotal - new) >= released - (PoolTotal - pool)
  BY <1>2a, <1>4, <1>5, <1>8, SMT
<1>10. UnpaidAt(h, new) >= UnpaidAt(n, pool)
  BY <1>9 DEF UnpaidAt, due, released
<1> QED
  BY <1>1, <1>2, <1>10 DEF Connected

\* What a superblock leaves unpaid, no later superblock pays: while the chain
\* grows by blocks without a stray payout, the part of the schedule that was
\* kept back never shrinks.
THEOREM LeftoverIsKept == Spec => LeftoverKept
<1>1. Ledger /\ OnSchedule /\ [Next]_vars
        => [Len(chain') > Len(chain) /\ (StrayPayouts(Len(chain)))' = 0 => Unpaid' >= Unpaid]_vars
  <2> SUFFICES ASSUME Ledger, OnSchedule, [Next]_vars, Len(chain') > Len(chain),
                      (StrayPayouts(Len(chain)))' = 0
               PROVE  Unpaid' >= Unpaid
    OBVIOUS
  <2>1. Len(chain) \in Nat
    BY AtTheTip
  <2>2. ~(chain' = chain)
    BY <2>1, SMT
  <2>3. ~DisconnectTip
    <3>1. DisconnectTip => Len(chain') = Len(chain) - 1
      BY DisconnectLedger
    <3> QED
      BY <2>1, <3>1, SMT
  <2>4. PICK s : CreateNewBlock(s) \/ ReceiveSuperblock(s)
    BY <2>2, <2>3 DEF Next, vars, BroadcastPayout
  <2>5. UnpaidAt(Len(chain'), chain'[Len(chain')].pool)
          >= UnpaidAt(Len(chain), chain[Len(chain)].pool)
    BY <2>4, ConnectedPayouts, ConnectKeepsLeftover
  <2>6. Unpaid = UnpaidAt(Len(chain), chain[Len(chain)].pool)
    BY AtTheTip
  <2>7. Unpaid' = UnpaidAt(Len(chain'), chain'[Len(chain')].pool)
    <3>1. Pool' = chain'[Len(chain')].pool
      BY DEF Pool
    <3>2. TipCycle' = CycleAt(Len(chain'))
      BY DEF TipCycle, CycleAt
    <3> QED
      BY <3>1, <3>2 DEF Unpaid, UnpaidAt
  <2> QED
    BY <2>5, <2>6, <2>7
<1> QED
  BY <1>1, ScheduleInvariant, PTL DEF Spec, LeftoverKept

=============================================================================
