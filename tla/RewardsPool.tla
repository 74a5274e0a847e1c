---------------------------- MODULE RewardsPool ----------------------------
(***************************************************************************)
(* The Staking Rewards Pool (consensus/superblock.cpp): a premined coin    *)
(* that every superblock spends, paying the stakers of the cycle before it *)
(* and returning the change to the pool.  The module models the schedule,  *)
(* the rule ConnectBlock enforces, the operator who signs and broadcasts   *)
(* the payout, the mempool's and the block assembler's fee rules that the  *)
(* payout has to pass, and reorganisations.                                *)
(*                                                                         *)
(* The pool is one coin.  A payout is a record: the value it spends, what  *)
(* each staker gets and the change; unconfirmed payouts form a chain that  *)
(* starts at the pool's coin, so the mempool is a sequence of them.        *)
(***************************************************************************)
EXTENDS Integers, Sequences, FiniteSets, FiniteSetsExt, Functions

CONSTANTS
  Stakers,            \* the scripts coinstakes pay
  NoStaker,           \* the "staker" of a proof-of-work block
  nFirst,             \* height of UPGRADE_POS, the first superblock
  nCycle,             \* nBudgetCycleBlocks
  nCoinbaseMaturity,  \* blocks before the premine can be spent
  CyclesPerYear,      \* CYCLES_PER_YEAR
  YearsA, YearsB, YearsC,        \* the length of the three phases
  AnnualA, AnnualB, AnnualC,     \* PHASE_X_ANNUAL
  MinRelayFee,        \* minRelayTxFee.GetFee of a payout's size
  MaxHeight,          \* bound: the height the chain grows to
  MaxReorgs           \* bound: blocks disconnected in a behaviour

ASSUME ScheduleAssumption ==
  /\ CyclesPerYear \in Nat \ {0}
  /\ YearsA \in Nat /\ YearsB \in Nat /\ YearsC \in Nat
  /\ AnnualA \in Nat /\ AnnualB \in Nat /\ AnnualC \in Nat

ASSUME ChainAssumption ==
  /\ nFirst \in Nat /\ nFirst > 1
  /\ nCycle \in Nat \ {0}
  /\ nCoinbaseMaturity \in 0..(nFirst + nCycle - 1)
  /\ IsFiniteSet(Stakers) /\ NoStaker \notin Stakers
  /\ MinRelayFee \in Nat

VARIABLES
  chain,     \* chainActive above genesis: staker, payouts and the pool's value after each block
  mempool,   \* the pool payouts in the mempool, each spending the change of the one before
  reorgs     \* blocks disconnected so far

vars == <<chain, mempool, reorgs>>

-----------------------------------------------------------------------------
(* The schedule. *)

PhaseACycles == YearsA * CyclesPerYear
PhaseBCycles == YearsB * CyclesPerYear
PhaseCCycles == YearsC * CyclesPerYear
PhaseATotal == YearsA * AnnualA
PhaseBTotal == YearsB * AnnualB
PhaseCTotal == YearsC * AnnualC
PoolTotal == PhaseATotal + PhaseBTotal + PhaseCTotal

MulDivShare(a, b, c) == (a * b) \div c

IsSuperblockHeight(h) == h >= nFirst /\ (h - nFirst) % nCycle = 0

GetSuperblockCycleIndex(h) == (h - nFirst) \div nCycle

GetSuperblockCumulativeTarget(i) ==
  LET n == i + 1
  IN  IF n <= 0 THEN 0
      ELSE IF n <= PhaseACycles
      THEN MulDivShare(n, AnnualA, CyclesPerYear)
      ELSE IF n <= PhaseACycles + PhaseBCycles
      THEN PhaseATotal + MulDivShare(n - PhaseACycles, AnnualB, CyclesPerYear)
      ELSE IF n <= PhaseACycles + PhaseBCycles + PhaseCCycles
      THEN PhaseATotal + PhaseBTotal
             + MulDivShare(n - PhaseACycles - PhaseBCycles, AnnualC, CyclesPerYear)
      ELSE PoolTotal

\* The value of the pool's coin at the tip.
Pool == chain[Len(chain)].pool

\* Mutant: the payout catches up with the schedule, as a comment of the code suggests.
GetSuperblockPayoutCatchingUp(h) ==
  IF IsSuperblockHeight(h)
  THEN GetSuperblockCumulativeTarget(GetSuperblockCycleIndex(h)) - (PoolTotal - Pool)
  ELSE 0

GetSuperblockPayout(h) ==
  IF IsSuperblockHeight(h)
  THEN GetSuperblockCumulativeTarget(GetSuperblockCycleIndex(h))
         - GetSuperblockCumulativeTarget(GetSuperblockCycleIndex(h) - 1)
  ELSE 0

-----------------------------------------------------------------------------
(* The distribution. *)

\* The blocks of the chain in the cycle before height h that a staker made.
StakedInCycle(h) ==
  {k \in DOMAIN chain : k \in (h - nCycle)..(h - 1) /\ chain[k].staker # NoStaker}

TallyStakersInCycle(h) ==
  [s \in {chain[k].staker : k \in StakedInCycle(h)} |->
     Cardinality({k \in StakedInCycle(h) : chain[k].staker = s})]

\* Mutant: every superblock demands a payout.
CycleAssumedStaked(h) == TRUE

CycleHasStakers(h) == StakedInCycle(h) # {}

\* What each staker of the cycle gets: the payable part of the pool, split by
\* the blocks they made and rounded down, nothing for a share of zero.
Shares(tally, target, pool) ==
  LET total == SumFunction(tally)
      payable == IF target > pool THEN pool ELSE target
      share(s) == MulDivShare(tally[s], payable, total)
  IN  [s \in {s \in DOMAIN tally : share(s) > 0} |-> share(s)]

\* Mutant: the remainder of the division is not returned to the pool.
DistributionWithoutRemainder(tally, target, pool) ==
  [spent |-> pool,
   shares |-> Shares(tally, target, pool),
   change |-> pool - (IF target > pool THEN pool ELSE target)]

\* Mutant: the change output is left out.
DistributionWithoutChange(tally, target, pool) ==
  [spent |-> pool, shares |-> Shares(tally, target, pool), change |-> 0]

\* Called with a tally that is not empty.
ComputeSuperblockDistribution(tally, target, pool) ==
  LET shares == Shares(tally, target, pool)
  IN  [spent |-> pool, shares |-> shares, change |-> pool - SumFunction(shares)]

\* The payout of a superblock at height h on this chain: none, or exactly one.
BuildSuperblockPayoutOutputs(h, pool) ==
  {t \in {ComputeSuperblockDistribution(TallyStakersInCycle(h), GetSuperblockPayout(h), pool) :
            k \in StakedInCycle(h)} :
     /\ GetSuperblockPayout(h) > 0
     /\ DOMAIN t.shares # {} \/ t.change > 0}

Paid(t) == SumFunction(t.shares)

Fee(t) == t.spent - Paid(t) - t.change

-----------------------------------------------------------------------------
(* Blocks. *)

Producers(h) == IF h >= nFirst THEN Stakers ELSE {NoStaker}

\* Only the first payout of a block can match: a later one spends a coin that
\* is not in the view when ConnectBlock looks for the superblock's payout.
FoundValidPayout(payouts, h) ==
  payouts # <<>> /\ Head(payouts) \in BuildSuperblockPayoutOutputs(h, Pool)

PayoutDemanded(h) ==
  IsSuperblockHeight(h) /\ GetSuperblockPayout(h) > 0 /\ CycleHasStakers(h)

\* removeForBlock: the confirmed payouts leave the mempool, and so does what conflicts with them.
MempoolAfter(payouts) ==
  IF Len(payouts) <= Len(mempool) /\ payouts = SubSeq(mempool, 1, Len(payouts))
  THEN SubSeq(mempool, Len(payouts) + 1, Len(mempool))
  ELSE <<>>

\* Mutant: the superblock's payout is not demanded.
ConnectBlockUndemanding(s, payouts) ==
  LET h == Len(chain) + 1
  IN  /\ h <= MaxHeight
      /\ s \in Producers(h)
      /\ payouts # <<>> => h - 1 >= nCoinbaseMaturity
      /\ chain' = Append(chain, [staker |-> s, payouts |-> payouts,
                                 pool |-> IF payouts = <<>> THEN Pool
                                          ELSE payouts[Len(payouts)].change])
      /\ mempool' = MempoolAfter(payouts)
      /\ UNCHANGED reorgs

ConnectBlock(s, payouts) ==
  LET h == Len(chain) + 1
  IN  /\ h <= MaxHeight
      /\ s \in Producers(h)
      /\ PayoutDemanded(h) => FoundValidPayout(payouts, h)
      /\ payouts # <<>> => h - 1 >= nCoinbaseMaturity
      /\ chain' = Append(chain, [staker |-> s, payouts |-> payouts,
                                 pool |-> IF payouts = <<>> THEN Pool
                                          ELSE payouts[Len(payouts)].change])
      /\ mempool' = MempoolAfter(payouts)
      /\ UNCHANGED reorgs

\* addPackageTxs: the assembler judges a package, a transaction and the ones
\* it depends on, by its fees.  A payout comes with the payouts before it.  It
\* is taken if they all pay the relay fee themselves; it may be taken if they do
\* not, with a staker's spend of a share that pays for the package, or when the
\* node's operator raised its fee by prioritisetransaction.
AddPackageTxs ==
  {SubSeq(mempool, 1, n) :
     n \in {n \in 0..Len(mempool) :
              n < Len(mempool) => Fee(mempool[n + 1]) < MinRelayFee}}

\* A block this network's miners assemble; one that fails TestBlockValidity is not made.
CreateNewBlock(s) == \E payouts \in AddPackageTxs : ConnectBlock(s, payouts)

\* A superblock that its producer built around the operator's payout.
ReceiveSuperblock(s) ==
  \E t \in BuildSuperblockPayoutOutputs(Len(chain) + 1, Pool) : ConnectBlock(s, <<t>>)

\* The operator builds, signs and sends what getsuperblockinfo returns for the
\* next height; AcceptToMemoryPool refuses a conflict and a fee below the relay fee.
BroadcastPayout ==
  /\ \E t \in BuildSuperblockPayoutOutputs(Len(chain) + 1, Pool) :
       mempool' = IF mempool = <<>> /\ Len(chain) >= nCoinbaseMaturity /\ Fee(t) >= MinRelayFee
                  THEN <<t>>
                  ELSE mempool
  /\ UNCHANGED <<chain, reorgs>>

\* A block is disconnected; its payouts return to the mempool whatever their fee.
DisconnectTip ==
  /\ Len(chain) > 1
  /\ reorgs < MaxReorgs
  /\ chain' = SubSeq(chain, 1, Len(chain) - 1)
  /\ mempool' = chain[Len(chain)].payouts \o mempool
  /\ reorgs' = reorgs + 1

\* Block 1 carries the premine, of which the pool is one output.
Init ==
  /\ chain = <<[staker |-> NoStaker, payouts |-> <<>>, pool |-> PoolTotal]>>
  /\ mempool = <<>>
  /\ reorgs = 0

Next ==
  \/ \E s \in Stakers \union {NoStaker} : CreateNewBlock(s)
  \/ \E s \in Stakers : ReceiveSuperblock(s)
  \/ BroadcastPayout
  \/ DisconnectTip

Spec == Init /\ [][Next]_vars

\* The operator broadcasts every payout and the stakers keep staking.
FairSpec ==
  /\ Spec
  /\ WF_vars(BroadcastPayout)
  /\ WF_vars(\E s \in Stakers \union {NoStaker} : CreateNewBlock(s))

-----------------------------------------------------------------------------
(* Properties. *)

\* What a block's payouts give the stakers.
TotalPaid(payouts) == SumFunction([j \in DOMAIN payouts |-> Paid(payouts[j])])

\* The last cycle whose superblock is on the chain; -1 before the first.
TipCycle == IF Len(chain) < nFirst THEN -1 ELSE GetSuperblockCycleIndex(Len(chain))

\* What the schedule has released by now and the pool still holds.
Unpaid == GetSuperblockCumulativeTarget(TipCycle) - (PoolTotal - Pool)

\* What the payout that ConnectBlock demanded of the block at height k paid.
DemandedPaid(k) == IF PayoutDemanded(k) THEN Paid(Head(chain[k].payouts)) ELSE 0

\* Stray payouts: those of the block at height k that ConnectBlock did not demand.
StrayPayouts(k) == Len(chain[k].payouts) - (IF PayoutDemanded(k) THEN 1 ELSE 0)

\* What the demanded payouts on the chain took from the pool, and what the stray ones took.
Demanded == SumFunction([k \in DOMAIN chain |-> DemandedPaid(k)])
Stray == PoolTotal - Pool - Demanded

\* The pool is ahead of the schedule at most by what stray payouts took: the
\* demanded ones stay behind it by the first cycle, which has no stakers.  And
\* stray payouts are the ones a reorganisation returned to the mempool
\* (UpdateMempoolForReorg): on the chain and in the mempool there are no more
\* of them than blocks were disconnected.
AheadOnlyByReorganisation ==
  /\ Demanded <= IF TipCycle < 0 THEN 0
                 ELSE GetSuperblockCumulativeTarget(TipCycle) - GetSuperblockCumulativeTarget(0)
  /\ MinRelayFee > 0 =>
       SumFunction([k \in DOMAIN chain |-> StrayPayouts(k)]) + Len(mempool) <= reorgs

\* The pool lags behind the schedule by the first cycle, which has no stakers,
\* and by less than one unit per staker for every cycle paid since.
LagBounded ==
  TipCycle >= 0 =>
    Unpaid <= GetSuperblockCumulativeTarget(0) + TipCycle * (Cardinality(Stakers) - 1)

\* Nothing is lost or minted: what the payouts on the chain gave the stakers
\* and what the pool's coin still holds add up to the premined allocation.
PoolConserved ==
  Pool + SumFunction([k \in DOMAIN chain |-> TotalPaid(chain[k].payouts)]) = PoolTotal

\* The first cycle's release, which is never paid, is a reserve: while stray
\* payouts took no more than that, ConnectBlock never demands a payout that
\* cannot be built, and the pool's coin holds the scheduled amount in full.
PayoutCanBeBuilt ==
  PayoutDemanded(Len(chain) + 1) /\ Stray <= GetSuperblockCumulativeTarget(0) =>
    /\ BuildSuperblockPayoutOutputs(Len(chain) + 1, Pool) # {}
    /\ Pool >= GetSuperblockPayout(Len(chain) + 1)
    /\ Len(chain) >= nCoinbaseMaturity

\* What a superblock leaves unpaid, no later superblock pays: only a stray
\* payout makes it shrink.
LeftoverKept ==
  [][Len(chain') > Len(chain) /\ (StrayPayouts(Len(chain)))' = 0 => Unpaid' >= Unpaid]_vars

\* With the operator broadcasting and the stakers staking, the chain passes
\* every superblock (miner.cpp treats a missing payout as recoverable).
SuperblocksAreStaked ==
  \A h \in 1..(MaxHeight - 1) : (Len(chain) = h) ~> (Len(chain) > h)

=============================================================================
