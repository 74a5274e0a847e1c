------------------------ MODULE ChainActivationProofs ------------------------
(***************************************************************************)
(* The safety of ChainActivation for every tree of blocks, any validity of *)
(* its blocks and any number of threads, calls and restarts.               *)
(*                                                                         *)
(* The argument.  Only a marked block, or one worse than the tip the       *)
(* candidates were last pruned for (Ref), is ever missing from             *)
(* setBlockIndexCandidates.  Within a round of ActivateBestChain the tip   *)
(* may fall below the one the round began with (startTip), but Ref does    *)
(* not: startTip is sound and stays a candidate until the new chain is as  *)
(* good, so a failed reorganisation finds its way back.  The target        *)
(* mostWork is the best candidate, stays one until it is reached or fails, *)
(* and its chain bears no mark.                                            *)
(*                                                                         *)
(* The facts on the tree are proved from TreeAssumption by taking a        *)
(* counterexample with the least work.                                     *)
(***************************************************************************)
EXTENDS ChainActivation, FiniteSetTheorems, TLAPS

\* A leaf is proved by Zenon unless it cites another prover.
USE Zenon

(* What has arrived: the blocks of the index form a tree with the genesis   *)
(* block, those with data whose ancestors all have data are linked, the     *)
(* others wait, and no two linked blocks have the same nSequenceId.         *)
Arrived ==
    /\ Genesis \in linked /\ linked \subseteq data /\ data \subseteq header
    /\ header \subseteq Blocks
    /\ IsFiniteSet(data)
    /\ \A b \in header \ {Genesis} : Parent[b] \in header
    /\ linked = {b \in header : Ancestors[b] \subseteq data}
    /\ unlinked = data \ linked
    /\ data \cap Malformed = {}
    /\ rank \in [Blocks -> Nat]
    /\ \A b \in Blocks : rank[b] = 0 <=> b \notin linked
    /\ \A b \in linked : rank[b] <= Cardinality(linked)
    /\ \A x, y \in linked : rank[x] = rank[y] => x = y

(* The other variables have their types, and a step has a target.           *)
StateOK ==
    /\ failed \subseteq header /\ failedChild \subseteq header
    /\ unsaved \subseteq failedChild
    /\ candidates \subseteq linked
    /\ tip \in linked \cup {Null} /\ mostWork \in linked \cup {Null}
    /\ startTip \in linked \cup {Null} /\ oldTip \in linked \cup {Null}
    /\ pc \in {"idle", "loop", "find", "step", "test"}
    /\ connected \in BOOLEAN
    /\ asserted \in BOOLEAN
    /\ waiting \in 0..MaxThreads
    /\ calls \in 0..MaxCalls
    /\ restarts \in 0..MaxRestarts
    /\ pc = "step" => mostWork # Null

TreeInv == Arrived /\ StateOK

(* The tip that setBlockIndexCandidates has last been pruned for: within a  *)
(* round of ActivateBestChain the tip may be below where the round began,   *)
(* and the candidates are then still those of the round's first tip.        *)
Ref == IF startTip # Null /\ Worse(rank, tip, startTip) THEN startTip ELSE tip

(* The candidates are as good as Ref, and all that are and bear no mark are *)
(* candidates: only a marked block, or a worse one, is ever taken out.      *)
CandidatesInv ==
    /\ candidates \subseteq AtLeast(rank, linked, Ref)
    /\ AtLeast(rank, linked \ Failed, Ref) \subseteq candidates

(* A block whose chain bears no mark and holds no block ConnectBlock refuses. *)
Sound(b) == Ancestors[b] \cap (Failed \cup Invalid) = {}

(* A mark has a cause, and the genesis block bears none.                    *)
CauseInv ==
    /\ Genesis \notin failed
    /\ \A b \in Failed : Ancestors[b] \cap failed # {}

(* The active chain is sound, and what ActivateBestChain works towards      *)
(* stays a usable candidate.                                                *)
UsableInv ==
    /\ tip # Null => Sound(tip)
    /\ mostWork # Null => mostWork \in candidates /\ Ancestors[mostWork] \cap Failed = {}
    /\ asserted = TRUE

(* Within a round: where it began is still sound, and the tip is there or   *)
(* below until the new chain is being connected.                            *)
RoundInv ==
    /\ startTip # Null => tip # Null /\ Sound(startTip)
    /\ pc \in {"idle", "loop"} => startTip = Null
    /\ (pc = "find" \/ (pc = "step" /\ ~(Active \subseteq Ancestors[mostWork])))
         => (tip = startTip \/ (startTip # Null /\ Worse(rank, tip, startTip)))

(* No linked block without a mark in its chain is better than m.            *)
NoneBetter(m) ==
    \A b \in linked : Ancestors[b] \cap Failed = {} => ~Worse(rank, m, b)

(* Unless a thread is about to call ActivateBestChain.                      *)
SettledInv ==
    waiting = 0 => /\ mostWork # Null => NoneBetter(mostWork)
                   /\ pc = "idle" => tip # Null /\ NoneBetter(tip)

ChainInv == RoundInv /\ CandidatesInv /\ SettledInv

IInv == TreeInv /\ CauseInv /\ UsableInv /\ ChainInv

(* CauseInv needs that reconsiderblock is not given a block above a marked  *)
(* one, UsableInv that invalidateblock does not come between two rounds of  *)
(* ActivateBestChain, and ChainInv both.                                    *)
Separate == ~InvalidateMidway /\ ~ReconsiderBelow

-----------------------------------------------------------------------------
(* The tree.                                                                *)

(* Some block of a set has the least work.                                  *)
LEMMA LeastWork ==
    ASSUME NEW S \in SUBSET Blocks, S # {}
    PROVE  \E b \in S : \A c \in S : Work[b] <= Work[c]
<1> DEFINE R == {p \in Blocks \X Blocks : Work[p[1]] < Work[p[2]]}
<1>1. IsWellFoundedOn(R, Blocks)
  <2> SUFFICES ASSUME NEW f \in [Nat -> Blocks],
                      \A n \in Nat : <<f[n+1], f[n]>> \in R
               PROVE  FALSE
    BY DEF IsWellFoundedOn
  <2> DEFINE g == [n \in Nat |-> Work[f[n]]]
  <2>1. g \in [Nat -> Nat]
    BY WorkAssumption
  <2>2. ASSUME NEW n \in Nat PROVE g[n+1] < g[n]
    <3>1. Work[f[n+1]] < Work[f[n]]
      OBVIOUS
    <3>2. n + 1 \in Nat
      BY SMT
    <3> QED BY <3>1, <3>2
  <2>3. \A n \in Nat : <<g[n+1], g[n]>> \in OpToRel(<, Nat)
    BY <2>1, <2>2, SMT DEF OpToRel
  <2> HIDE DEF g
  <2> QED BY <2>1, <2>3, NatLessThanWellFounded DEF IsWellFoundedOn
<1> HIDE DEF R
<1>2. PICK b \in S : \A c \in S : <<c, b>> \notin R
  BY <1>1, WFMin
<1>3. ASSUME NEW c \in S PROVE Work[b] <= Work[c]
  <2>1. ~(Work[c] < Work[b])
    BY <1>2 DEF R
  <2> QED BY <2>1, WorkAssumption, SMT
<1> QED BY <1>3

(* What the tree says of a block and its parent.                            *)
LEMMA Up ==
    ASSUME NEW b \in Blocks
    PROVE  /\ b \in Ancestors[b]
           /\ Ancestors[b] \subseteq Blocks
           /\ b # Genesis => /\ Parent[b] \in Blocks
                             /\ Parent[b] # b
                             /\ Ancestors[b] = Ancestors[Parent[b]] \cup {b}
                             /\ b \notin Ancestors[Parent[b]]
                             /\ Work[Parent[b]] < Work[b]
           /\ Work[b] \in Nat
           /\ b # Null
<1>1. b # Genesis => Parent[b] \in Blocks
  BY TreeAssumption
<1>2. b \in Ancestors[b] /\ Ancestors[b] \subseteq Blocks /\ b # Null
  BY TreeAssumption, SMT
<1>3. Work[b] \in Nat /\ (b # Genesis => Work[Parent[b]] \in Nat /\ Work[Parent[b]] < Work[b])
  BY <1>1, WorkAssumption
<1>4. b # Genesis => /\ Ancestors[b] = Ancestors[Parent[b]] \cup {b}
                     /\ b \notin Ancestors[Parent[b]]
  BY TreeAssumption
<1> QED BY <1>1, <1>2, <1>3, <1>4

(* The parent is below its block.                                           *)
LEMMA ParentFacts ==
    ASSUME NEW b \in Blocks, b # Genesis
    PROVE  /\ Parent[b] \in Blocks /\ Parent[b] # Null /\ Parent[b] # b
           /\ Parent[b] \in Ancestors[b] /\ Ancestors[Parent[b]] \subseteq Ancestors[b]
           /\ b \notin Ancestors[Parent[b]]
<1>1. /\ Parent[b] \in Blocks /\ Parent[b] # b /\ b \notin Ancestors[Parent[b]]
      /\ Ancestors[b] = Ancestors[Parent[b]] \cup {b}
  BY Up
<1>2. Parent[b] \in Ancestors[Parent[b]] /\ Parent[b] # Null
  BY <1>1, Up
<1> QED BY <1>1, <1>2

(* A strict ancestor is an ancestor of the parent, and has less work.       *)
LEMMA LessWork ==
    \A b \in Blocks : \A a \in Ancestors[b] : a # b => Work[a] < Work[b]
<1> DEFINE Bad == {b \in Blocks : \E a \in Ancestors[b] : a # b /\ ~(Work[a] < Work[b])}
<1> SUFFICES ASSUME Bad # {} PROVE FALSE
  OBVIOUS
<1>1. PICK b \in Bad : \A c \in Bad : Work[b] <= Work[c]
  BY LeastWork
<1>2. PICK a \in Ancestors[b] : a # b /\ ~(Work[a] < Work[b])
  OBVIOUS
<1>3. b # Genesis
  BY <1>2, TreeAssumption
<1>4. a \in Ancestors[Parent[b]] /\ Parent[b] \in Blocks /\ Work[Parent[b]] < Work[b]
  BY <1>2, <1>3, Up, SMT
<1>5. Parent[b] \notin Bad
  BY <1>1, <1>4, Up, SMT
<1>6. a \in Blocks
  BY Up
<1>7. a = Parent[b] \/ Work[a] < Work[Parent[b]]
  BY <1>4, <1>5
<1> QED BY <1>2, <1>4, <1>6, <1>7, Up, SMT

(* Ancestors of ancestors are ancestors.                                    *)
LEMMA Transitive ==
    \A b \in Blocks : \A a \in Ancestors[b] : Ancestors[a] \subseteq Ancestors[b]
<1> DEFINE Bad == {b \in Blocks : \E a \in Ancestors[b] : ~(Ancestors[a] \subseteq Ancestors[b])}
<1> SUFFICES ASSUME Bad # {} PROVE FALSE
  OBVIOUS
<1>1. PICK b \in Bad : \A c \in Bad : Work[b] <= Work[c]
  BY LeastWork
<1>2. PICK a \in Ancestors[b] : ~(Ancestors[a] \subseteq Ancestors[b])
  OBVIOUS
<1>3. b # Genesis /\ a # b
  BY <1>2, TreeAssumption
<1>4. a \in Ancestors[Parent[b]] /\ Parent[b] \in Blocks /\ Work[Parent[b]] < Work[b]
  BY <1>2, <1>3, Up, SMT
<1>5. Parent[b] \notin Bad
  BY <1>1, <1>4, Up, SMT
<1>6. Ancestors[a] \subseteq Ancestors[Parent[b]]
  BY <1>4, <1>5
<1> QED BY <1>2, <1>3, <1>6, Up, SMT

(* Two ancestors of a block are on one line.                                *)
LEMMA Comparable ==
    \A b \in Blocks : \A x, y \in Ancestors[b] : x \in Ancestors[y] \/ y \in Ancestors[x]
<1> DEFINE Bad == {b \in Blocks : \E x, y \in Ancestors[b] :
                                     ~(x \in Ancestors[y] \/ y \in Ancestors[x])}
<1> SUFFICES ASSUME Bad # {} PROVE FALSE
  OBVIOUS
<1>1. PICK b \in Bad : \A c \in Bad : Work[b] <= Work[c]
  BY LeastWork
<1>2. PICK x \in Ancestors[b], y \in Ancestors[b] : ~(x \in Ancestors[y] \/ y \in Ancestors[x])
  OBVIOUS
<1>3. x # b /\ y # b
  BY <1>2
<1>4. b # Genesis
  BY <1>3, TreeAssumption
<1>5. /\ x \in Ancestors[Parent[b]] /\ y \in Ancestors[Parent[b]]
      /\ Parent[b] \in Blocks /\ Work[Parent[b]] < Work[b]
  BY <1>3, <1>4, Up, SMT
<1>6. Parent[b] \notin Bad
  BY <1>1, <1>5, Up, SMT
<1> QED BY <1>2, <1>5, <1>6

(* The genesis block is below every block.                                  *)
LEMMA GenesisBelow == \A b \in Blocks : Genesis \in Ancestors[b]
<1> DEFINE Bad == {b \in Blocks : Genesis \notin Ancestors[b]}
<1> SUFFICES ASSUME Bad # {} PROVE FALSE
  OBVIOUS
<1>1. PICK b \in Bad : \A c \in Bad : Work[b] <= Work[c]
  BY LeastWork
<1>2. b # Genesis
  BY TreeAssumption
<1>3. Parent[b] \in Blocks /\ Work[Parent[b]] < Work[b] /\ Genesis \notin Ancestors[Parent[b]]
  BY <1>2, Up, SMT
<1> QED BY <1>1, <1>3, Up, SMT

(* Two blocks that are below each other are the same.                       *)
LEMMA Antisymmetric ==
    ASSUME NEW a \in Blocks, NEW b \in Blocks, a \in Ancestors[b], b \in Ancestors[a]
    PROVE  a = b
BY LessWork, Up, SMT

(* A block is on a line with what is not above it: the blocks of a line     *)
(* that are not below s have s below them.                                  *)
LEMMA AboveOrBelow ==
    ASSUME NEW c \in Blocks, NEW s \in Ancestors[c], NEW x \in Ancestors[c],
           x \notin Ancestors[s]
    PROVE  s \in Ancestors[x]
BY Comparable

(* The chain of a block above t has a block whose parent is t.              *)
LEMMA NextOnTheWay ==
    ASSUME NEW c \in Blocks, NEW t \in Ancestors[c], t # c
    PROVE  \E b \in Ancestors[c] \ Ancestors[t] : Parent[b] = t
<1> DEFINE S == Ancestors[c] \ Ancestors[t]
<1>1. t \in Blocks /\ S \in SUBSET Blocks
  BY Up
<1>2. c \in S
  BY <1>1, Antisymmetric, Up
<1>3. PICK b \in S : \A x \in S : Work[b] <= Work[x]
  BY <1>1, <1>2, LeastWork
<1>4. b \in Blocks /\ b # Genesis
  BY <1>1, GenesisBelow
<1>5. Parent[b] \in Ancestors[c]
  BY <1>4, Up, Transitive
<1>6. Parent[b] \in Ancestors[t]
  BY <1>3, <1>4, <1>5, Up, SMT
<1>7. t \in Ancestors[b] /\ t # b
  BY <1>1, <1>4, AboveOrBelow, Up
<1>8. t \in Ancestors[Parent[b]] /\ Parent[b] \in Blocks
  BY <1>4, <1>7, Up, SMT
<1>9. Parent[b] = t
  BY <1>1, <1>6, <1>8, Antisymmetric
<1> QED BY <1>9

-----------------------------------------------------------------------------
(* The order of the candidates.                                             *)

(* CBlockIndexWorkComparator is a strict weak order.                        *)
LEMMA WeakOrder ==
    ASSUME NEW r \in [Blocks -> Nat], NEW x \in Blocks, NEW y \in Blocks
    PROVE  /\ ~Worse(r, x, x)
           /\ Worse(r, x, y) => ~Worse(r, y, x)
           /\ \A z \in Blocks : ~Worse(r, x, y) /\ ~Worse(r, y, z) => ~Worse(r, x, z)
           /\ \A z \in Blocks : Worse(r, x, y) /\ ~Worse(r, z, y) => Worse(r, x, z)
           /\ \A z \in Blocks : ~Worse(r, y, x) /\ Worse(r, y, z) => Worse(r, x, z)
           /\ ~Worse(r, x, y) /\ ~Worse(r, y, x) => r[x] = r[y]
<1>1. \A z \in Blocks : Work[z] \in Nat /\ r[z] \in Nat
  BY WorkAssumption
<1> QED BY <1>1, SMT DEF Worse

(* A block is never worse than one below it.                                *)
LEMMA BelowIsWorse ==
    ASSUME NEW r \in [Blocks -> Nat], NEW b \in Blocks, NEW a \in Ancestors[b]
    PROVE  /\ ~Worse(r, b, a)
           /\ a # b => Worse(r, a, b)
<1>1. a \in Blocks
  BY Up
<1>2. a # b => Work[a] < Work[b]
  BY LessWork
<1> QED BY <1>1, <1>2, WeakOrder, Up DEF Worse

(* A finite set of candidates has a best one.                               *)
LEMMA BestExists ==
    ASSUME NEW r \in [Blocks -> Nat], NEW C \in SUBSET Blocks, IsFiniteSet(C), C # {}
    PROVE  \E c \in C : \A d \in C : ~Worse(r, c, d)
<1> DEFINE Over(c) == {d \in C : ~Worse(r, d, c)}
           T == {Over(c) : c \in C}
<1>1. IsWellFoundedOn(StrictSubsetOrdering(C), SUBSET C)
  BY FS_StrictSubsetOrderingWellFounded, FS_FiniteSubsetsOfFinite
<1>2. T \subseteq SUBSET C /\ T # {}
  OBVIOUS
<1>3. PICK m \in T : \A n \in T : <<n, m>> \notin StrictSubsetOrdering(C)
  <2> HIDE DEF T
  <2> QED BY <1>1, <1>2, WFMin
<1>4. PICK c \in C : m = Over(c)
  OBVIOUS
<1>5. ASSUME NEW d \in C, Worse(r, c, d) PROVE FALSE
  <2>1. Over(d) \subseteq Over(c)
    BY <1>5, WeakOrder
  <2>2. c \in Over(c) /\ c \notin Over(d)
    BY <1>5, WeakOrder
  <2>3. <<Over(d), Over(c)>> \in StrictSubsetOrdering(C)
    BY <2>1, <2>2 DEF StrictSubsetOrdering
  <2> QED BY <1>3, <1>4, <2>3
<1> QED BY <1>5

(* A finite part of a chain has a highest block.                            *)
LEMMA TopExists ==
    ASSUME NEW c \in Blocks, NEW U \in SUBSET Ancestors[c], IsFiniteSet(U), U # {}
    PROVE  \E x \in U : U \subseteq Ancestors[x]
<1> DEFINE r == [b \in Blocks |-> 0]
<1>1. r \in [Blocks -> Nat] /\ U \in SUBSET Blocks
  BY Up
<1> HIDE DEF r
<1>2. PICK x \in U : \A d \in U : ~Worse(r, x, d)
  BY <1>1, BestExists
<1>3. ASSUME NEW d \in U PROVE d \in Ancestors[x]
  <2>1. d \in Ancestors[x] \/ x \in Ancestors[d]
    BY Comparable
  <2>2. x \in Ancestors[d] => x = d
    BY <1>1, <1>2, BelowIsWorse
  <2> QED BY <1>1, <2>1, <2>2, Up
<1> QED BY <1>3

-----------------------------------------------------------------------------
(* What has arrived.                                                        *)

(* The linked blocks are a finite part of the tree that is closed downwards. *)
LEMMA LinkedFacts ==
    ASSUME Arrived
    PROVE  /\ linked \subseteq Blocks /\ Null \notin linked /\ IsFiniteSet(linked)
           /\ \A b \in linked : Ancestors[b] \subseteq linked
           /\ \A b \in linked \ {Genesis} : Parent[b] \in linked
<1>1. linked \subseteq Blocks /\ Null \notin linked
  BY Up DEF Arrived
<1>2. IsFiniteSet(linked)
  BY FS_Subset DEF Arrived
<1>3. ASSUME NEW b \in linked PROVE Ancestors[b] \subseteq linked
  <2>1. \A x \in Ancestors[b] : Ancestors[x] \subseteq Ancestors[b]
    BY <1>1, Transitive
  <2> QED BY <2>1 DEF Arrived
<1>4. ASSUME NEW b \in linked \ {Genesis} PROVE Parent[b] \in linked
  BY <1>1, <1>3, Up
<1> QED BY <1>1, <1>2, <1>3, <1>4

(* The last element of setBlockIndexCandidates.                             *)
LEMMA BestCandidateFacts ==
    ASSUME TreeInv, candidates # {}
    PROVE  BestCandidate \in candidates /\ \A d \in candidates : ~Worse(rank, BestCandidate, d)
<1>1. candidates \in SUBSET Blocks /\ IsFiniteSet(candidates)
  BY LinkedFacts, FS_Subset DEF TreeInv, StateOK
<1>2. rank \in [Blocks -> Nat]
  BY DEF TreeInv, Arrived
<1>3. \E c \in candidates : \A d \in candidates : ~Worse(rank, c, d)
  BY <1>1, <1>2, BestExists
<1> QED BY <1>3 DEF BestCandidate

(* The block at which FindMostWorkChain stops is the highest marked one.    *)
LEMMA StopFacts ==
    ASSUME TreeInv, NEW c \in linked, Unusable(c) # {},
           NEW stop, stop = CHOOSE x \in Unusable(c) : Unusable(c) \subseteq Ancestors[x]
    PROVE  stop \in Unusable(c) /\ Unusable(c) \subseteq Ancestors[stop]
<1>1. c \in Blocks /\ Unusable(c) \in SUBSET Ancestors[c]
  BY LinkedFacts DEF TreeInv, Unusable, Path
<1>2. IsFiniteSet(Unusable(c))
  BY <1>1, LinkedFacts, FS_Subset DEF TreeInv
<1>3. \E x \in Unusable(c) : Unusable(c) \subseteq Ancestors[x]
  BY <1>1, <1>2, TopExists, SMT
<1> QED BY <1>3

(* The block ActivateBestChainStep connects next is the child of the tip on *)
(* the way to its target.                                                   *)
LEMMA NextFacts ==
    ASSUME TreeInv, pc = "step", Active \subseteq Ancestors[mostWork], tip # mostWork
    PROVE  /\ NextBlock \in Ancestors[mostWork] /\ NextBlock \notin Active
           /\ NextBlock \in linked
           /\ tip # Null => tip \in Ancestors[NextBlock] /\ tip # NextBlock
           /\ Ancestors[NextBlock] = Active \cup {NextBlock}
<1>1. mostWork \in linked /\ mostWork \in Blocks /\ tip \in linked \cup {Null}
  BY LinkedFacts DEF TreeInv, StateOK
<1>2. \E b \in Path(mostWork) : Parent[b] = tip
  <2>1. CASE tip = Null
    BY <1>1, <2>1, GenesisBelow, TreeAssumption DEF Path, Active
  <2>2. CASE tip # Null
    <3>1. Active = Ancestors[tip] /\ tip \in Ancestors[mostWork]
      BY <1>1, <2>2, LinkedFacts, Up DEF Active, TreeInv
    <3> QED BY <1>1, <3>1, NextOnTheWay DEF Path
  <2> QED BY <2>1, <2>2
<1>3. NextBlock \in Path(mostWork) /\ Parent[NextBlock] = tip
  BY <1>2 DEF NextBlock
<1> HIDE DEF NextBlock
<1>4. NextBlock \in Ancestors[mostWork] /\ NextBlock \notin Active /\ NextBlock \in linked
  BY <1>1, <1>3, LinkedFacts DEF Path, TreeInv
<1>5. NextBlock \in Blocks
  BY <1>4, LinkedFacts DEF TreeInv
<1>6. CASE tip = Null
  <2>1. NextBlock = Genesis
    BY <1>3, <1>5, <1>6, TreeAssumption
  <2> QED BY <1>4, <1>6, <2>1, TreeAssumption DEF Active
<1>7. CASE tip # Null
  <2>1. NextBlock # Genesis
    BY <1>3, <1>5, <1>7, TreeAssumption
  <2>2. tip \in Ancestors[tip]
    BY <1>1, <1>7, LinkedFacts, Up DEF TreeInv
  <2> QED BY <1>3, <1>4, <1>5, <1>7, <2>1, <2>2, Up, SMT DEF Active
<1> QED BY <1>6, <1>7

(* A header that arrives links nothing.                                     *)
LEMMA HeaderArrived ==
    ASSUME Arrived, NEW b \in Blocks \ data, Parent[b] \in header,
           header' = header \cup {b}, UNCHANGED <<data, linked, rank, unlinked>>
    PROVE  Arrived'
<1>1. b \in Ancestors[b]
  BY Up
<1>2. linked = {x \in header \cup {b} : Ancestors[x] \subseteq data}
  BY <1>1 DEF Arrived
<1>3. \A x \in (header \cup {b}) \ {Genesis} : Parent[x] \in header \cup {b}
  BY DEF Arrived
<1> QED BY <1>2, <1>3, SMT DEF Arrived

(* The blocks that the data of b link.                                      *)
LEMMA NowLinkedFacts ==
    ASSUME Arrived, NEW b \in Blocks \ data, Parent[b] \in linked
    PROVE  /\ b \in NowLinked(b) /\ NowLinked(b) \subseteq data \cup {b}
           /\ NowLinked(b) \cap linked = {}
           /\ linked \cup NowLinked(b) =
                {x \in header \cup {b} : Ancestors[x] \subseteq data \cup {b}}
<1> DEFINE L == NowLinked(b)
<1>1. b # Genesis /\ b \notin linked /\ Ancestors[b] = Ancestors[Parent[b]] \cup {b}
  BY Up DEF Arrived
<1>2. Ancestors[b] \subseteq data \cup {b}
  BY <1>1 DEF Arrived
<1>3. b \in L /\ L \subseteq data \cup {b} /\ L \cap linked = {}
  BY <1>1 DEF NowLinked, Arrived
<1>4. ASSUME NEW x \in linked \cup L
      PROVE  x \in header \cup {b} /\ Ancestors[x] \subseteq data \cup {b}
  BY <1>2, <1>3 DEF NowLinked, Arrived
<1>5. ASSUME NEW x \in header \cup {b}, Ancestors[x] \subseteq data \cup {b}, x \notin linked
      PROVE  x \in L
  <2>1. x \in Blocks /\ x \in Ancestors[x]
    BY Up DEF Arrived
  <2>2. CASE x = b
    BY <1>3, <2>2
  <2>3. CASE x # b
    <3>1. x \in data /\ x \in unlinked
      BY <1>5, <2>1, <2>3 DEF Arrived
    <3>2. b \in Ancestors[x]
      BY <1>5, <3>1, SMT DEF Arrived
    <3>3. ASSUME NEW y \in Ancestors[x] \ Ancestors[b] PROVE y \in unlinked
      <4>1. b \in Ancestors[y] /\ y # b
        BY <2>1, <3>2, AboveOrBelow, Up
      <4>2. y \in data /\ y \notin linked
        BY <1>5, <4>1 DEF Arrived
      <4> QED BY <4>2 DEF Arrived
    <3> QED BY <3>1, <3>2, <3>3 DEF NowLinked
  <2> QED BY <2>2, <2>3
<1>6. linked \subseteq header
  BY DEF Arrived
<1> QED BY <1>3, <1>4, <1>5

(* The numbers when the blocks now linked with b get those of r.            *)
Numbered(b, r) == [x \in Blocks |-> IF x \in NowLinked(b) THEN r[x] ELSE rank[x]]

(* nSequenceId numbers the blocks that are linked together anew.            *)
LEMMA NumberingFacts ==
    ASSUME Arrived, NEW b \in Blocks \ data, Parent[b] \in linked,
           NEW r \in Numberings(NowLinked(b))
    PROVE  /\ Numbered(b, r) \in [Blocks -> Nat]
           /\ \A x \in Blocks : Numbered(b, r)[x] = 0 <=> x \notin linked \cup NowLinked(b)
           /\ \A x \in linked \cup NowLinked(b) :
                Numbered(b, r)[x] <= Cardinality(linked \cup NowLinked(b))
           /\ \A x, y \in linked \cup NowLinked(b) :
                Numbered(b, r)[x] = Numbered(b, r)[y] => x = y
<1> DEFINE L == NowLinked(b)
           K == linked \cup L
           q == Numbered(b, r)
           n == Cardinality(linked)
           m == Cardinality(L)
<1>1. L \subseteq data \cup {b} /\ L \cap linked = {} /\ L \subseteq Blocks
  BY NowLinkedFacts DEF Arrived
<1>2. IsFiniteSet(L) /\ IsFiniteSet(linked)
  <2>1. IsFiniteSet(data \cup {b})
    BY FS_AddElement DEF Arrived
  <2>2. IsFiniteSet(L)
    BY <1>1, <2>1, FS_Subset
  <2> QED BY <2>2, LinkedFacts
<1>3. n \in Nat /\ m \in Nat
  BY <1>2, FS_CardinalityType
<1>4. Cardinality(K) = n + m
  <2>1. linked \cap L = {} /\ Cardinality({}) = 0
    BY <1>1, FS_EmptySet
  <2>2. Cardinality(K) = n + m - Cardinality(linked \cap L)
    BY <1>2, FS_Union
  <2>3. Cardinality(linked \cap L) = 0
    BY <2>1
  <2> HIDE DEF n, m, L, K
  <2> QED BY <1>3, <2>2, <2>3, SMT
<1>5. /\ r \in [L -> (n + 1)..(n + m)]
      /\ \A x, y \in L : r[x] = r[y] => x = y
  BY DEF Numberings
<1> HIDE DEF L, K, n, m, q
<1>6. \A x \in L : r[x] \in Nat /\ n < r[x] /\ r[x] <= n + m
  BY <1>3, <1>5, SMT
<1>7. /\ rank \in [Blocks -> Nat] /\ linked \subseteq Blocks
      /\ \A x \in Blocks : rank[x] = 0 <=> x \notin linked
      /\ \A x \in linked : rank[x] <= n
      /\ \A x, y \in linked : rank[x] = rank[y] => x = y
  BY DEF Arrived, n
<1>8. q = [x \in Blocks |-> IF x \in L THEN r[x] ELSE rank[x]] /\ K = linked \cup L
  BY DEF L, K, q, Numbered
<1>9. /\ \A x \in L : q[x] = r[x]
      /\ \A x \in Blocks \ L : q[x] = rank[x]
      /\ \A x \in linked : q[x] = rank[x]
  BY <1>1, <1>7, <1>8
<1>10. q \in [Blocks -> Nat]
  BY <1>6, <1>7, <1>8
<1>11. \A x \in Blocks : q[x] = 0 <=> x \notin K
  BY <1>1, <1>3, <1>6, <1>7, <1>8, <1>9, SMT
<1>12. \A x \in K : q[x] <= n + m
  BY <1>1, <1>3, <1>6, <1>7, <1>8, <1>9, SMT
<1>13. ASSUME NEW x \in K, NEW y \in K, q[x] = q[y] PROVE x = y
  <2>1. CASE x \in L /\ y \in L
    BY <1>5, <1>9, <1>13, <2>1
  <2>2. CASE x \in linked /\ y \in linked
    <3>1. rank[x] = rank[y]
      BY <1>9, <1>13, <2>2
    <3> QED BY <1>7, <2>2, <3>1
  <2>3. CASE x \in L /\ y \in linked
    BY <1>3, <1>6, <1>7, <1>9, <1>13, <2>3, SMT
  <2>4. CASE x \in linked /\ y \in L
    BY <1>3, <1>6, <1>7, <1>9, <1>13, <2>4, SMT
  <2> QED BY <1>8, <2>1, <2>2, <2>3, <2>4
<1>14. \A x \in K : q[x] <= Cardinality(K)
  BY <1>4, <1>12
<1>15. \A x, y \in K : q[x] = q[y] => x = y
  BY <1>13
<1> QED BY <1>10, <1>11, <1>14, <1>15 DEF K, L, q

(* A block with its data arrives: it is linked with what waited for it, or  *)
(* waits itself.                                                            *)
LEMMA BlockArrived ==
    ASSUME Arrived, NEW b \in Blocks \ (data \cup Malformed), Parent[b] \in header,
           header' = header \cup {b}, data' = data \cup {b},
           IF Parent[b] \in linked THEN LinkBlock(b) ELSE QueueUnlinked(b)
    PROVE  Arrived'
<1>1. b # Genesis /\ b \in Ancestors[b] /\ Ancestors[b] = Ancestors[Parent[b]] \cup {b}
      /\ b \notin Ancestors[Parent[b]]
  BY Up DEF Arrived
<1>2. /\ data' \subseteq header' /\ header' \subseteq Blocks
      /\ \A x \in header' \ {Genesis} : Parent[x] \in header'
      /\ data' \cap Malformed = {}
  <2>1. /\ data \subseteq header /\ header \subseteq Blocks /\ data \cap Malformed = {}
        /\ \A x \in header \ {Genesis} : Parent[x] \in header
    BY DEF Arrived
  <2> QED BY <2>1
<1>3. IsFiniteSet(data')
  BY FS_AddElement DEF Arrived
<1>4. CASE Parent[b] \in linked
  <2>1. PICK r \in Numberings(NowLinked(b)) :
           /\ rank' = [x \in Blocks |-> IF x \in NowLinked(b) THEN r[x] ELSE rank[x]]
           /\ linked' = linked \cup NowLinked(b)
           /\ unlinked' = unlinked \ NowLinked(b)
    BY <1>4 DEF LinkBlock
  <2>2. /\ NowLinked(b) \subseteq data \cup {b}
        /\ NowLinked(b) \cap linked = {} /\ b \in NowLinked(b)
        /\ linked' = {x \in header' : Ancestors[x] \subseteq data'}
    BY <1>4, <2>1, NowLinkedFacts
  <2>3. Genesis \in linked' /\ linked' \subseteq data' /\ unlinked' = data' \ linked'
    <3>1. Genesis \in linked /\ linked \subseteq data /\ unlinked = data \ linked
      BY DEF Arrived
    <3> QED BY <2>1, <2>2, <3>1
  <2>4. /\ rank' \in [Blocks -> Nat]
        /\ \A x \in Blocks : rank'[x] = 0 <=> x \notin linked'
        /\ \A x \in linked' : rank'[x] <= Cardinality(linked')
        /\ \A x, y \in linked' : rank'[x] = rank'[y] => x = y
    <3>1. b \in Blocks \ data
      OBVIOUS
    <3>2. rank' = Numbered(b, r) /\ linked' = linked \cup NowLinked(b)
      BY <2>1 DEF Numbered
    <3> QED BY <1>4, <3>1, <3>2, NumberingFacts, SMT
  <2> QED BY <1>2, <1>3, <2>2, <2>3, <2>4 DEF Arrived
<1>5. CASE Parent[b] \notin linked
  <2>0. linked = {x \in header : Ancestors[x] \subseteq data}
    BY DEF Arrived
  <2>1. unlinked' = unlinked \cup {b} /\ linked' = linked /\ rank' = rank
    BY <1>5 DEF QueueUnlinked
  <2>2. ASSUME NEW x \in header', Ancestors[x] \subseteq data' PROVE x \in linked
    <3>1. x \in Blocks
      BY <1>2
    <3>2. CASE b \in Ancestors[x]
      <4>1. Ancestors[Parent[b]] \subseteq Ancestors[x]
        BY <1>1, <3>1, <3>2, Transitive
      <4>2. Ancestors[Parent[b]] \subseteq data
        BY <1>1, <2>2, <4>1
      <4> QED BY <1>5, <4>2 DEF Arrived
    <3>3. CASE b \notin Ancestors[x]
      <4>1. Ancestors[x] \subseteq data
        BY <2>2, <3>3
      <4>2. x # b
        BY <1>1, <3>3
      <4> QED BY <2>0, <2>2, <4>1, <4>2
    <3> QED BY <3>2, <3>3
  <2>3. linked' = {x \in header' : Ancestors[x] \subseteq data'}
    <3>1. \A x \in linked : x \in header' /\ Ancestors[x] \subseteq data'
      BY <2>0
    <3> QED BY <2>1, <2>2, <3>1
  <2>4. b \notin linked
    BY DEF Arrived
  <2>5. unlinked' = data' \ linked' /\ linked' \subseteq data' /\ Genesis \in linked'
    BY <2>1, <2>4, SMT DEF Arrived
  <2> QED BY <1>2, <1>3, <2>1, <2>3, <2>5, SMT DEF Arrived
<1> QED BY <1>4, <1>5

(* What an action must leave in order when nothing arrives.                 *)
LEMMA ArrivedFrame == Arrived /\ UNCHANGED treeVars => Arrived'
BY DEF Arrived, treeVars

(* A thread that calls ActivateBestChain is counted, within the bound.      *)
LEMMA CallFrame ==
    ASSUME StateOK, CallActivate PROVE waiting' \in 0..MaxThreads /\ waiting' # 0
BY BoundAssumption, SMT DEF StateOK, CallActivate

(* A call is counted, within the bound.                                     *)
LEMMA CountFrame == ASSUME StateOK, CountCall PROVE calls' \in 0..MaxCalls
BY BoundAssumption, SMT DEF StateOK, CountCall

(* LoadGenesisBlock leaves the index in order.                              *)
LEMMA TreeInit == Init => TreeInv
<1> SUFFICES ASSUME Init PROVE TreeInv
  OBVIOUS
<1>1. Genesis \in Blocks /\ Ancestors[Genesis] = {Genesis}
  BY TreeAssumption
<1>2. IsFiniteSet({Genesis}) /\ Cardinality({Genesis}) = 1
  BY FS_Singleton
<1>3. {Genesis} = {b \in {Genesis} : Ancestors[b] \subseteq {Genesis}}
  BY <1>1
<1>4. {Genesis} \cap Malformed = {}
  BY ValidityAssumption
<1>5. Arrived
  <2>1. /\ header = {Genesis} /\ data = {Genesis} /\ linked = {Genesis} /\ unlinked = {}
        /\ rank = [b \in Blocks |-> IF b = Genesis THEN 1 ELSE 0]
    BY DEF Init
  <2>2. /\ rank \in [Blocks -> Nat]
        /\ \A b \in Blocks : rank[b] = 0 <=> b \notin linked
        /\ \A b \in linked : rank[b] <= Cardinality(linked)
    BY <1>1, <1>2, <2>1, SMT
  <2>3. /\ IsFiniteSet(data) /\ linked = {b \in header : Ancestors[b] \subseteq data}
        /\ data \cap Malformed = {} /\ unlinked = data \ linked
    BY <1>2, <1>3, <1>4, <2>1, SMT
  <2> QED BY <1>1, <2>1, <2>2, <2>3 DEF Arrived
<1>6. waiting \in 0..MaxThreads /\ calls \in 0..MaxCalls /\ restarts \in 0..MaxRestarts
  BY BoundAssumption, SMT DEF Init
<1>7. connected \in BOOLEAN /\ asserted \in BOOLEAN
  BY DEF Init
<1>8. StateOK
  BY <1>6, <1>7 DEF Init, StateOK
<1> QED BY <1>5, <1>8 DEF TreeInv

(* Blocks that arrive.                                                      *)
LEMMA TreeArrive ==
    ASSUME TreeInv, NEW b \in Blocks,
           AcceptBlockHeader(b) \/ AcceptMalformed(b) \/ AcceptBlock(b)
    PROVE  TreeInv'
<1>1. CASE AcceptBlockHeader(b)
  <2>1. Arrived'
    BY <1>1, HeaderArrived DEF AcceptBlockHeader, HeaderOK, TreeInv, Arrived
  <2>2. StateOK'
    BY <1>1, SMT DEF AcceptBlockHeader, TreeInv, StateOK, flagVars, stepVars, boundVars
  <2> QED BY <2>1, <2>2 DEF TreeInv
<1>2. CASE AcceptMalformed(b)
  <2>1. Arrived'
    BY <1>2, HeaderArrived DEF AcceptMalformed, HeaderOK, TreeInv, Arrived
  <2>2. StateOK'
    BY <1>2, SMT DEF AcceptMalformed, TreeInv, StateOK, stepVars, boundVars
  <2> QED BY <2>1, <2>2, SMT DEF TreeInv
<1>3. CASE AcceptBlock(b)
  <2>1. Arrived'
    BY <1>3, BlockArrived DEF AcceptBlock, HeaderOK, TreeInv
  <2>2. linked \subseteq linked' /\ candidates' \subseteq linked'
    BY <1>3 DEF AcceptBlock, LinkBlock, QueueUnlinked, AtLeast, TreeInv, StateOK
  <2>3. waiting' \in 0..MaxThreads
    BY <1>3, CallFrame DEF AcceptBlock, TreeInv
  <2>4. StateOK'
    BY <1>3, <2>2, <2>3, SMT DEF AcceptBlock, TreeInv, StateOK, flagVars, stepVars, boundVars
  <2> QED BY <2>1, <2>4, SMT DEF TreeInv
<1> QED BY <1>1, <1>2, <1>3

(* invalidateblock and reconsiderblock.                                     *)
LEMMA TreeCalls ==
    ASSUME TreeInv, NEW b \in Blocks, InvalidateBlock(b) \/ ReconsiderBlock(b)
    PROVE  TreeInv'
<1>1. Active \subseteq linked
  BY LinkedFacts DEF Active, TreeInv, StateOK
<1>2. linked \subseteq header
  BY DEF TreeInv, Arrived
<1>3. CASE InvalidateBlock(b)
  <2>1. Arrived'
    BY <1>3, ArrivedFrame DEF InvalidateBlock, TreeInv
  <2>2. waiting' \in 0..MaxThreads
    BY <1>3, CallFrame DEF InvalidateBlock, TreeInv
  <2>3. calls' \in 0..MaxCalls
    BY <1>3, CountFrame DEF InvalidateBlock, TreeInv
  <2>4. Cut(b) \subseteq linked
    BY <1>1 DEF Cut
  <2>5. tip' \in linked \cup {Null}
    BY <1>1, <1>3, LinkedFacts DEF InvalidateBlock, TreeInv, StateOK
  <2>6. candidates' \subseteq linked
    BY <1>3 DEF InvalidateBlock, InvalidatedCandidates, AtLeast, TreeInv, StateOK
  <2>7. /\ failed' \subseteq header /\ failedChild' \subseteq header
        /\ unsaved' \subseteq failedChild'
    BY <1>2, <1>3, <2>4 DEF InvalidateBlock, TreeInv, StateOK
  <2>8. /\ UNCHANGED <<header, linked, pc, mostWork, startTip, oldTip, connected, asserted,
                       restarts>>
    BY <1>3 DEF InvalidateBlock, treeVars, stepVars
  <2>9. StateOK'
    BY <2>2, <2>3, <2>5, <2>6, <2>7, <2>8, SMT DEF TreeInv, StateOK
  <2> QED BY <2>1, <2>9 DEF TreeInv
<1>4. CASE ReconsiderBlock(b)
  <2>1. Arrived'
    BY <1>4, ArrivedFrame DEF ReconsiderBlock, TreeInv
  <2>2. waiting' \in 0..MaxThreads
    BY <1>4, CallFrame DEF ReconsiderBlock, TreeInv
  <2>3. calls' \in 0..MaxCalls
    BY <1>4, CountFrame DEF ReconsiderBlock, TreeInv
  <2>4. candidates' \subseteq linked
    BY <1>4 DEF ReconsiderBlock, BetterOnly, TreeInv, StateOK
  <2>5. /\ failed' \subseteq header /\ failedChild' \subseteq header
        /\ unsaved' \subseteq failedChild'
    BY <1>4 DEF ReconsiderBlock, TreeInv, StateOK
  <2>6. UNCHANGED <<header, linked, tip, pc, mostWork, startTip, oldTip, connected, asserted,
                    restarts>>
    BY <1>4 DEF ReconsiderBlock, treeVars, stepVars
  <2>7. StateOK'
    BY <2>2, <2>3, <2>4, <2>5, <2>6, SMT DEF TreeInv, StateOK
  <2> QED BY <2>1, <2>7, SMT DEF TreeInv
<1> QED BY <1>3, <1>4

(* ActivateBestChain.                                                       *)
LEMMA TreeActivation ==
    ASSUME TreeInv, EnterActivate \/ Activation
    PROVE  TreeInv'
<1> USE DEF treeVars, flagVars, stepVars, boundVars
<1>0. UNCHANGED treeVars
  BY DEF EnterActivate, Activation, BeginRound, FindMostWorkChain, DropFailedChain, NothingToDo,
         BeginStep, DisconnectTip, ConnectTip, ConnectFails, EndStep
<1>a. Arrived'
  BY <1>0, ArrivedFrame DEF TreeInv
<1>b. linked \subseteq header
  BY DEF TreeInv, Arrived
<1>1. CASE EnterActivate
  <2>1. StateOK'
    <3>1. waiting \in 0..MaxThreads /\ waiting > 0 /\ waiting' = waiting - 1
      BY <1>1 DEF EnterActivate, TreeInv, StateOK
    <3>2. waiting' \in 0..MaxThreads
      BY <3>1, BoundAssumption, SMT
    <3> QED BY <1>1, <3>2 DEF EnterActivate, TreeInv, StateOK
  <2> QED BY <1>a, <2>1 DEF TreeInv
<1>2. CASE BeginRound
  <2>1. StateOK'
    BY <1>2 DEF BeginRound, TreeInv, StateOK
  <2> QED BY <1>a, <2>1, SMT DEF TreeInv
<1>3. CASE FindMostWorkChain
  <2>1. mostWork' \in linked \cup {Null}
    BY <1>3, BestCandidateFacts DEF FindMostWorkChain, TreeInv, StateOK
  <2>2. asserted' \in BOOLEAN
    BY <1>3 DEF FindMostWorkChain
  <2>3. /\ pc' = "find"
        /\ UNCHANGED <<treeVars, flagVars, candidates, tip, stepVars, waiting, boundVars>>
    BY <1>3 DEF FindMostWorkChain
  <2>4. StateOK'
    BY <2>1, <2>2, <2>3 DEF TreeInv, StateOK
  <2> QED BY <1>a, <2>4, SMT DEF TreeInv
<1>4. CASE DropFailedChain
  <2> DEFINE c == BestCandidate
             stop == CHOOSE x \in Unusable(c) : Unusable(c) \subseteq Ancestors[x]
             above == Ancestors[c] \ Ancestors[stop]
  <2>1. /\ failedChild' = failedChild \cup above
        /\ unsaved' = unsaved \cup above
        /\ candidates' = candidates \ (above \cup {stop})
        /\ asserted' = (asserted /\ above \cup {stop} \subseteq linked)
        /\ candidates # {}
    BY <1>4 DEF DropFailedChain
  <2>2. Ancestors[c] \subseteq linked
    BY <2>1, BestCandidateFacts, LinkedFacts DEF TreeInv, StateOK
  <2>3. above \subseteq header
    BY <1>b, <2>2
  <2>4. asserted' \in BOOLEAN
    BY <2>1
  <2> HIDE DEF c, stop, above
  <2>5. /\ failedChild' \subseteq header /\ unsaved' \subseteq failedChild'
        /\ candidates' \subseteq linked
    BY <2>1, <2>3 DEF TreeInv, StateOK
  <2>6. UNCHANGED <<treeVars, failed, tip, pc, mostWork, stepVars, waiting, boundVars>>
    BY <1>4 DEF DropFailedChain
  <2>7. StateOK'
    BY <2>4, <2>5, <2>6 DEF TreeInv, StateOK
  <2> QED BY <1>a, <2>7, SMT DEF TreeInv
<1>5. CASE NothingToDo
  <2>1. StateOK'
    BY <1>5 DEF NothingToDo, Release, TreeInv, StateOK
  <2> QED BY <1>a, <2>1, SMT DEF TreeInv
<1>6. CASE BeginStep
  <2>1. StateOK'
    BY <1>6 DEF BeginStep, TreeInv, StateOK
  <2> QED BY <1>a, <2>1, SMT DEF TreeInv
<1>7. CASE DisconnectTip
  <2>1. mostWork \in linked /\ mostWork \in Blocks
    BY <1>7, LinkedFacts DEF DisconnectTip, TreeInv, StateOK
  <2>2. tip \in linked \ {Genesis}
    <3>1. ~(Active \subseteq Ancestors[mostWork])
      BY <1>7 DEF DisconnectTip
    <3>2. {Genesis} \subseteq Ancestors[mostWork] /\ Ancestors[Genesis] = {Genesis}
      BY <2>1, GenesisBelow, TreeAssumption, SMT
    <3>3. tip # Null /\ tip # Genesis
      BY <3>1, <3>2 DEF Active
    <3> QED BY <3>3 DEF TreeInv, StateOK
  <2>3. tip' \in linked
    BY <1>7, <2>2, LinkedFacts DEF DisconnectTip, TreeInv
  <2>4. StateOK'
    BY <1>7, <2>3 DEF DisconnectTip, TreeInv, StateOK
  <2> QED BY <1>a, <2>4, SMT DEF TreeInv
<1>8. CASE ConnectTip
  <2>1. NextBlock \in linked
    BY <1>8, NextFacts DEF ConnectTip
  <2>2. candidates' \subseteq linked
    BY <1>8 DEF ConnectTip, Prune, AtLeast, TreeInv, StateOK
  <2>3. asserted' \in BOOLEAN /\ pc' \in {"test", "step"}
    BY <1>8 DEF ConnectTip
  <2>4. /\ tip' = NextBlock /\ pc = "step"
        /\ UNCHANGED <<treeVars, flagVars, mostWork, stepVars, waiting, boundVars>>
    BY <1>8 DEF ConnectTip
  <2>5. StateOK'
    BY <2>1, <2>2, <2>3, <2>4 DEF TreeInv, StateOK
  <2> QED BY <1>a, <2>5, SMT DEF TreeInv
<1>9. CASE ConnectFails
  <2>1. NextBlock \in linked
    BY <1>9, NextFacts DEF ConnectFails
  <2>2. StateOK'
    BY <1>9, <1>b, <2>1 DEF ConnectFails, AfterInvalid, TreeInv, StateOK
  <2> QED BY <1>a, <2>2, SMT DEF TreeInv
<1>10. CASE EndStep
  <2>1. StateOK'
    BY <1>10 DEF EndStep, Release, TreeInv, StateOK
  <2> QED BY <1>a, <2>1, SMT DEF TreeInv
<1> QED BY <1>1, <1>2, <1>3, <1>4, <1>5, <1>6, <1>7, <1>8, <1>9, <1>10 DEF Activation

(* A restart.                                                               *)
LEMMA TreeRestart == ASSUME TreeInv, Restart PROVE TreeInv'
<1>1. PICK r \in [linked -> 1..Cardinality(linked)] :
         /\ \A x, y \in linked : r[x] = r[y] => x = y
         /\ rank' = [x \in Blocks |-> IF x \in linked THEN r[x] ELSE 0]
  BY DEF Restart
<1>2. Cardinality(linked) \in Nat /\ linked \subseteq Blocks
  BY LinkedFacts, FS_CardinalityType DEF TreeInv
<1>3. \A x \in linked : r[x] \in Nat /\ r[x] # 0 /\ r[x] <= Cardinality(linked)
  BY <1>2, SMT
<1>4. /\ \A x \in linked : rank'[x] = r[x]
      /\ \A x \in Blocks \ linked : rank'[x] = 0
  BY <1>1, <1>2
<1>5. rank' \in [Blocks -> Nat]
  BY <1>1, <1>3
<1>6. /\ \A x \in Blocks : rank'[x] = 0 <=> x \notin linked
      /\ \A x \in linked : rank'[x] <= Cardinality(linked)
      /\ \A x, y \in linked : rank'[x] = rank'[y] => x = y
  BY <1>1, <1>2, <1>3, <1>4
<1>7. UNCHANGED <<header, data, linked, failed, tip, calls>> /\ unlinked' = data \ linked
  BY DEF Restart
<1>8. Arrived'
  BY <1>5, <1>6, <1>7 DEF TreeInv, Arrived
<1>9. failedChild' \subseteq failedChild /\ unsaved' = {} /\ candidates' \subseteq linked
      /\ asserted' \in BOOLEAN
  BY DEF Restart, AtLeast
<1>10. /\ pc' = "idle" /\ mostWork' = Null /\ waiting' = 1
       /\ startTip' = Null /\ oldTip' = Null /\ connected' = FALSE
       /\ restarts < MaxRestarts /\ restarts' = restarts + 1
  BY DEF Restart
<1>11. waiting' \in 0..MaxThreads /\ restarts' \in 0..MaxRestarts
  BY <1>10, BoundAssumption, SMT DEF TreeInv, StateOK
<1>12. connected' \in BOOLEAN
  BY <1>10
<1>13. StateOK'
  BY <1>7, <1>9, <1>10, <1>11, <1>12 DEF TreeInv, StateOK
<1> QED BY <1>8, <1>13 DEF TreeInv

(* Every step keeps the index and the types in order.                       *)
LEMMA TreeNext == TreeInv /\ [Next]_vars => TreeInv'
<1> SUFFICES ASSUME TreeInv, [Next]_vars PROVE TreeInv'
  OBVIOUS
<1>1. CASE UNCHANGED vars
  <2>1. Arrived'
    BY <1>1, ArrivedFrame DEF vars, TreeInv
  <2>2. StateOK'
    BY <1>1, SMT DEF vars, treeVars, flagVars, stepVars, boundVars, TreeInv, StateOK
  <2> QED BY <2>1, <2>2 DEF TreeInv
<1>2. CASE Next
  BY <1>2, TreeArrive, TreeCalls, TreeActivation, TreeRestart DEF Next
<1> QED BY <1>1, <1>2

(* The index and the types are always in order.                             *)
LEMMA TreeInvariant == Spec => []TreeInv
BY TreeInit, TreeNext, PTL DEF Spec

(* Every variable keeps its type.                                           *)
THEOREM TypeCorrect == Spec => []TypeOK
<1>1. TreeInv => TypeOK
  BY DEF TreeInv, Arrived, StateOK, TypeOK
<1> QED BY <1>1, TreeInvariant, PTL

(* For every tree and every order of arrival, a block is linked by          *)
(* ReceivedBlockTransactions exactly if it and its ancestors have their data,*)
(* and waits in mapBlocksUnlinked otherwise, as CheckBlockIndex asserts.    *)
THEOREM Unlinked == Spec => []UnlinkedBlocksWait
<1>1. TreeInv => UnlinkedBlocksWait
  BY DEF TreeInv, Arrived, UnlinkedBlocksWait
<1> QED BY <1>1, TreeInvariant, PTL

-----------------------------------------------------------------------------
(* Marks, candidates and targets.                                           *)

(* What an action must leave alone to keep each part of the invariant.      *)
LEMMA Frames ==
    /\ UsableInv /\ UNCHANGED <<failed, failedChild, tip, mostWork, candidates, asserted>>
         => UsableInv'
    /\ RoundInv /\ UNCHANGED <<failed, failedChild, tip, startTip, pc, mostWork, rank>> => RoundInv'
    /\ CandidatesInv /\ UNCHANGED <<candidates, rank, linked, failed, failedChild, startTip, tip>>
         => CandidatesInv'
    /\ SettledInv /\ UNCHANGED <<waiting, mostWork, linked, failed, failedChild, rank, pc, tip>>
         => SettledInv'
<1>1. UsableInv /\ UNCHANGED <<failed, failedChild, tip, mostWork, candidates, asserted>>
         => UsableInv'
  BY DEF UsableInv, Sound, Failed
<1>2. RoundInv /\ UNCHANGED <<failed, failedChild, tip, startTip, pc, mostWork, rank>> => RoundInv'
  BY DEF RoundInv, Sound, Failed, Active, Worse
<1>3. CandidatesInv /\ UNCHANGED <<candidates, rank, linked, failed, failedChild, startTip, tip>>
         => CandidatesInv'
  BY DEF CandidatesInv, Ref, AtLeast, Worse, Failed
<1>4. SettledInv /\ UNCHANGED <<waiting, mostWork, linked, failed, failedChild, rank, pc, tip>>
         => SettledInv'
  BY DEF SettledInv, NoneBetter, Failed, Worse
<1> QED BY <1>1, <1>2, <1>3, <1>4

(* The tip, and what is below it.                                           *)
LEMMA TipFacts ==
    ASSUME TreeInv
    PROVE  /\ tip # Null => tip \in linked /\ tip \in Blocks /\ Active = Ancestors[tip]
                            /\ tip \in Active
           /\ tip = Null => Active = {}
           /\ Active \subseteq linked
           /\ startTip # Null => startTip \in linked /\ startTip \in Blocks
           /\ mostWork # Null => mostWork \in linked /\ mostWork \in Blocks
           /\ rank \in [Blocks -> Nat]
           /\ linked \subseteq Blocks /\ Null \notin linked
BY LinkedFacts, Up DEF TreeInv, StateOK, Arrived, Active

(* Between the rounds the candidates are those of the tip.                  *)
LEMMA FreeRef == ASSUME RoundInv, pc \in {"idle", "loop"} PROVE startTip = Null /\ Ref = tip
BY DEF RoundInv, Ref

(* What InvalidateBlock disconnects is what is above the block on the       *)
(* active chain.                                                            *)
LEMMA CutFacts ==
    ASSUME TreeInv, NEW b \in Blocks \ {Genesis}, NEW x \in Cut(b)
    PROVE  b \in Active /\ b \in Ancestors[x] /\ x \in Active
<1>1. b \in Active /\ x \in Active /\ x \notin Ancestors[Parent[b]]
  BY DEF Cut
<1>2. tip \in Blocks /\ Active = Ancestors[tip]
  BY <1>1, TipFacts
<1>3. x = b \/ x \notin Ancestors[b]
  <2>1. Ancestors[b] = Ancestors[Parent[b]] \cup {b}
    BY Up
  <2> QED BY <1>1, <2>1
<1> QED BY <1>1, <1>2, <1>3, AboveOrBelow, Up

(* The tip InvalidateBlock leaves is below the old one and below the cut.   *)
LEMMA NewTip ==
    ASSUME TreeInv, tip # Null, NEW b \in Blocks \ {Genesis},
           NEW t, t = IF b \in Active THEN Parent[b] ELSE tip
    PROVE  /\ t \in linked /\ t \in Blocks /\ t \in Ancestors[tip]
           /\ Ancestors[t] \subseteq Active
           /\ Ancestors[t] \cap (Cut(b) \cup {b}) = {}
<1>1. Active = Ancestors[tip] /\ tip \in linked /\ tip \in Blocks /\ tip \in Active
  BY TipFacts
<1>2. CASE b \in Active
  <2>1. Parent[b] \in Ancestors[b] /\ Ancestors[Parent[b]] \subseteq Ancestors[b]
        /\ b \notin Ancestors[Parent[b]] /\ Parent[b] \in Blocks
    BY ParentFacts
  <2>2. Ancestors[b] \subseteq Ancestors[tip]
    BY <1>1, <1>2, Transitive
  <2>3. Parent[b] \in linked
    BY <1>1, <2>1, <2>2, TipFacts
  <2>4. Ancestors[Parent[b]] \cap (Cut(b) \cup {b}) = {}
    BY <2>1 DEF Cut
  <2> QED BY <1>1, <1>2, <2>1, <2>2, <2>3, <2>4
<1>3. CASE b \notin Active
  BY <1>1, <1>3 DEF Cut
<1> QED BY <1>2, <1>3

(* FindMostWorkChain marks what is above a marked block outside the active  *)
(* chain, and takes it out.                                                 *)
LEMMA DropFacts ==
    ASSUME TreeInv, DropFailedChain
    PROVE  \E stop, above :
              /\ stop \in Failed /\ stop \in Blocks
              /\ \A x \in above : stop \in Ancestors[x] /\ x \in Blocks
              /\ failedChild' = failedChild \cup above
              /\ candidates' = candidates \ (above \cup {stop})
              /\ asserted' = asserted
<1> DEFINE c == BestCandidate
           stop == CHOOSE x \in Unusable(c) : Unusable(c) \subseteq Ancestors[x]
           above == Ancestors[c] \ Ancestors[stop]
<1>1. /\ candidates # {} /\ Unusable(c) # {}
      /\ failedChild' = failedChild \cup above
      /\ candidates' = candidates \ (above \cup {stop})
      /\ asserted' = (asserted /\ above \cup {stop} \subseteq linked)
  BY DEF DropFailedChain
<1>2. c \in candidates /\ c \in linked /\ c \in Blocks /\ Ancestors[c] \subseteq linked
  BY <1>1, BestCandidateFacts, LinkedFacts DEF TreeInv, StateOK
<1>3. stop \in Unusable(c)
  <2> HIDE DEF c
  <2> QED BY <1>1, <1>2, StopFacts
<1> HIDE DEF c, stop, above
<1>4. stop \in Ancestors[c] /\ stop \in Failed /\ stop \in Blocks
  BY <1>2, <1>3, Up DEF Unusable, Path
<1>5. \A x \in above : stop \in Ancestors[x] /\ x \in Blocks
  BY <1>2, <1>4, AboveOrBelow, Up DEF above
<1>6. asserted' = asserted
  BY <1>1, <1>2, <1>4 DEF above, TreeInv, StateOK
<1> QED BY <1>1, <1>4, <1>5, <1>6

(* A tip is disconnected only above the genesis block.                      *)
LEMMA DisconnectFacts ==
    ASSUME TreeInv, pc = "step", ~(Active \subseteq Ancestors[mostWork])
    PROVE  tip # Null /\ tip # Genesis
<1>1. mostWork \in Blocks
  BY TipFacts DEF TreeInv, StateOK
<1>2. {Genesis} \subseteq Ancestors[mostWork] /\ Ancestors[Genesis] = {Genesis}
  BY <1>1, GenesisBelow, TreeAssumption, SMT
<1> QED BY <1>1, <1>2 DEF Active

-----------------------------------------------------------------------------
(* Marks and their causes.                                                  *)

(* A step leaves a mark without a cause only above one it found.            *)
NoNewOrphan == \A x \in Orphaned' : Ancestors[x] \cap Orphaned # {}

(* It leaves none but those it found.                                       *)
LEMMA OrphansKept ==
    ASSUME TreeInv, Orphaned' \subseteq Orphaned
    PROVE  NoNewOrphan
<1>1. \A x \in Failed : x \in Ancestors[x]
  BY Up DEF TreeInv, StateOK, Arrived, Failed
<1> QED BY <1>1 DEF Orphaned, NoNewOrphan

(* It takes marks away that are not themselves causes.                      *)
LEMMA OrphansFewer ==
    ASSUME TreeInv, failed' = failed, failedChild' \subseteq failedChild
    PROVE  NoNewOrphan
<1>1. Orphaned' \subseteq Orphaned
  BY DEF Orphaned, Failed
<1> QED BY <1>1, OrphansKept

(* A block is marked invalid, and blocks above it are.                      *)
LEMMA OrphansCaused ==
    ASSUME TreeInv, NEW c \in Blocks, failed' = failed \cup {c},
           \A x \in failedChild' : x \in failedChild \/ c \in Ancestors[x]
    PROVE  NoNewOrphan
<1>1. c \in Ancestors[c]
  BY Up
<1>2. \A x \in Failed' : x \in Failed \/ c \in Ancestors[x]
  BY <1>1 DEF Failed
<1>3. Orphaned' \subseteq Orphaned
  BY <1>2 DEF Orphaned
<1> QED BY <1>3, OrphansKept

(* ReconsiderBlock of a block with no mark below it clears what is above a  *)
(* cause together with the cause.                                           *)
LEMMA OrphansReconsider ==
    ASSUME TreeInv, NEW b \in Blocks, ReconsiderBlock(b), Failed \cap Ancestors[b] \subseteq {b}
    PROVE  NoNewOrphan
<1> DEFINE cleared == Restored(b) \cup Ancestors[b]
<1>1. failed' = failed \ cleared /\ failedChild' = failedChild \ cleared
  BY DEF ReconsiderBlock
<1>2. Failed' = Failed \ cleared
  BY <1>1 DEF Failed
<1>3. \A x \in Failed \cap cleared : x \in Restored(b)
  BY Up DEF Restored
<1>4. ASSUME NEW x \in Orphaned' PROVE x \in Orphaned
  <2>1. x \in Failed /\ x \notin Restored(b) /\ x \in Blocks /\ Ancestors[x] \cap failed' = {}
    BY <1>2, <1>4 DEF TreeInv, StateOK, Arrived, Failed, Orphaned
  <2>2. ASSUME NEW y \in Ancestors[x], y \in failed PROVE FALSE
    <3>1. y \in Restored(b)
      BY <1>1, <1>3, <2>1, <2>2 DEF Failed
    <3> QED BY <2>1, <2>2, <3>1, Transitive DEF Restored
  <2> QED BY <2>1, <2>2 DEF Orphaned
<1>5. Orphaned' \subseteq Orphaned
  BY <1>4
<1> QED BY <1>5, OrphansKept

(* FindMostWorkChain marks what is above a marked block.                    *)
LEMMA OrphansDrop == ASSUME TreeInv, DropFailedChain PROVE NoNewOrphan
<1>1. PICK stop, above :
         /\ stop \in Failed /\ stop \in Blocks
         /\ \A x \in above : stop \in Ancestors[x] /\ x \in Blocks
         /\ failedChild' = failedChild \cup above
  BY DropFacts
<1>2. failed' = failed
  BY DEF DropFailedChain
<1>3. ASSUME NEW x \in Orphaned' PROVE Ancestors[x] \cap Orphaned # {}
  <2>1. Ancestors[x] \cap failed = {} /\ (x \in Failed \/ x \in above)
    BY <1>1, <1>2, <1>3 DEF Orphaned, Failed
  <2>2. CASE x \in Failed
    <3>1. x \in Orphaned /\ x \in Blocks
      BY <2>1, <2>2 DEF Orphaned, TreeInv, StateOK, Arrived, Failed
    <3> QED BY <3>1, Up
  <2>3. CASE x \in above
    <3>1. stop \in Ancestors[x] /\ Ancestors[stop] \subseteq Ancestors[x]
      BY <1>1, <2>3, Transitive
    <3> QED BY <1>1, <2>1, <3>1 DEF Orphaned
  <2> QED BY <2>1, <2>2, <2>3
<1> QED BY <1>3 DEF NoNewOrphan

(* Blocks that are found invalid.                                           *)
LEMMA OrphansInvalid ==
    ASSUME TreeInv, ConnectFails \/ \E b \in Blocks : AcceptMalformed(b) \/ InvalidateBlock(b)
    PROVE  NoNewOrphan
<1>1. ASSUME NEW b \in Blocks, AcceptMalformed(b) PROVE NoNewOrphan
  <2>1. failed' = failed \cup {b} /\ failedChild' = failedChild
    BY <1>1 DEF AcceptMalformed
  <2> QED BY <2>1, OrphansCaused
<1>2. ASSUME NEW b \in Blocks, InvalidateBlock(b) PROVE NoNewOrphan
  <2>1. /\ b \in Blocks \ {Genesis}
        /\ failed' = failed \cup {b} /\ failedChild' = failedChild \cup Cut(b)
    BY <1>2 DEF InvalidateBlock
  <2>2. \A x \in failedChild' : x \in failedChild \/ b \in Ancestors[x]
    BY <2>1, CutFacts
  <2> QED BY <2>1, <2>2, OrphansCaused
<1>3. CASE ConnectFails
  <2>1. /\ pc = "step" /\ Active \subseteq Ancestors[mostWork] /\ tip # mostWork
        /\ failed' = failed \cup {NextBlock} /\ failedChild' = failedChild
    BY <1>3 DEF ConnectFails
  <2>2. NextBlock \in Blocks
    BY <2>1, NextFacts, TipFacts
  <2> QED BY <2>1, <2>2, OrphansCaused
<1> QED BY <1>1, <1>2, <1>3

(* No step leaves a new one, but for a reconsiderblock above a marked block. *)
LEMMA OrphansNext ==
    ASSUME TreeInv, [Next]_vars
    PROVE  \/ NoNewOrphan
           \/ \E x \in Blocks : ReconsiderBlock(x) /\ ~(Failed \cap Ancestors[x] \subseteq {x})
<1>1. CASE failed' = failed /\ failedChild' = failedChild
  BY <1>1, OrphansFewer
<1>2. CASE ConnectFails \/ \E b \in Blocks : AcceptMalformed(b) \/ InvalidateBlock(b)
  BY <1>2, OrphansInvalid
<1>3. ASSUME NEW b \in Blocks, ReconsiderBlock(b), Failed \cap Ancestors[b] \subseteq {b}
      PROVE  NoNewOrphan
  BY <1>3, OrphansReconsider
<1>4. CASE DropFailedChain
  BY <1>4, OrphansDrop
<1>5. CASE Restart
  <2>1. failed' = failed /\ failedChild' \subseteq failedChild
    BY <1>5 DEF Restart
  <2> QED BY <2>1, OrphansFewer
<1>6. ASSUME NEW b \in Blocks, AcceptBlockHeader(b) \/ AcceptBlock(b)
      PROVE  failed' = failed /\ failedChild' = failedChild
  BY <1>6 DEF AcceptBlockHeader, AcceptBlock, flagVars
<1>7. CASE EnterActivate \/ BeginRound \/ FindMostWorkChain \/ NothingToDo \/ BeginStep
           \/ DisconnectTip \/ ConnectTip \/ EndStep
  BY <1>1, <1>7 DEF EnterActivate, BeginRound, FindMostWorkChain, NothingToDo, BeginStep,
                    DisconnectTip, ConnectTip, EndStep, flagVars
<1>8. CASE UNCHANGED vars
  BY <1>1, <1>8 DEF vars, flagVars
<1> QED BY <1>1, <1>2, <1>3, <1>4, <1>5, <1>6, <1>7, <1>8 DEF Next, Activation

(* Only a reconsiderblock of a block above a marked one begins to leave     *)
(* marks that no invalid ancestor explains, for every tree of blocks, every *)
(* number of threads and calls, and wherever the calls come between the     *)
(* rounds of ActivateBestChain: no other action of the node does.           *)
THEOREM Marks == Spec => MarksKeepTheirCause
<1>1. TreeInv /\ [Next]_vars =>
        [\/ \E x \in Blocks : ReconsiderBlock(x) /\ ~(Failed \cap Ancestors[x] \subseteq {x})
         \/ \A b \in Orphaned' : Ancestors[b] \cap Orphaned # {}]_vars
  BY OrphansNext DEF NoNewOrphan
<1> QED BY <1>1, TreeInvariant, PTL DEF Spec, MarksKeepTheirCause

(* No block is refused for its genesis block.                               *)
LEMMA GenesisNext == ASSUME TreeInv, Genesis \notin failed, [Next]_vars PROVE Genesis \notin failed'
<1>1. ASSUME NEW b \in Blocks, AcceptMalformed(b) PROVE Genesis \notin failed'
  BY <1>1, ValidityAssumption DEF AcceptMalformed
<1>2. ASSUME NEW b \in Blocks, InvalidateBlock(b) PROVE Genesis \notin failed'
  BY <1>2 DEF InvalidateBlock
<1>3. ASSUME NEW b \in Blocks, ReconsiderBlock(b) PROVE Genesis \notin failed'
  BY <1>3 DEF ReconsiderBlock
<1>4. CASE ConnectFails
  BY <1>4, ValidityAssumption DEF ConnectFails
<1>5. CASE UNCHANGED failed
  BY <1>5
<1>6. ASSUME NEW b \in Blocks, AcceptBlockHeader(b) \/ AcceptBlock(b) PROVE Genesis \notin failed'
  BY <1>5, <1>6 DEF AcceptBlockHeader, AcceptBlock, flagVars
<1>7. CASE EnterActivate \/ BeginRound \/ FindMostWorkChain \/ DropFailedChain \/ NothingToDo
           \/ BeginStep \/ DisconnectTip \/ ConnectTip \/ EndStep \/ Restart
  BY <1>5, <1>7 DEF EnterActivate, BeginRound, FindMostWorkChain, DropFailedChain, NothingToDo,
                    BeginStep, DisconnectTip, ConnectTip, EndStep, Restart, flagVars
<1>8. CASE UNCHANGED vars
  BY <1>5, <1>8 DEF vars, flagVars
<1> QED BY <1>1, <1>2, <1>3, <1>4, <1>6, <1>7, <1>8 DEF Next, Activation

(* Every mark keeps a cause as long as reconsiderblock is not given a block *)
(* above a marked one.                                                      *)
LEMMA CauseNext == ASSUME ~ReconsiderBelow, TreeInv, CauseInv, [Next]_vars PROVE CauseInv'
<1>1. NoNewOrphan
  <2>1. \A x \in Blocks : ReconsiderBlock(x) => Failed \cap Ancestors[x] \subseteq {x}
    BY DEF ReconsiderBlock, Reconsiderable
  <2> QED BY <2>1, OrphansNext
<1>2. Orphaned = {}
  BY DEF CauseInv, Orphaned
<1>3. \A x \in Orphaned' : Ancestors[x] \cap Orphaned # {}
  BY <1>1 DEF NoNewOrphan
<1>4. \A b \in Failed' : Ancestors[b] \cap failed' # {}
  BY <1>2, <1>3 DEF Orphaned
<1> QED BY <1>4, GenesisNext DEF CauseInv

(* And so it is in every state.                                             *)
LEMMA CauseInvariant == ASSUME ~ReconsiderBelow PROVE Spec => [](TreeInv /\ CauseInv)
<1>1. Init => TreeInv /\ CauseInv
  BY TreeInit DEF Init, CauseInv, Failed
<1>2. TreeInv /\ CauseInv /\ [Next]_vars => (TreeInv /\ CauseInv)'
  BY TreeNext, CauseNext
<1> QED BY <1>1, <1>2, PTL DEF Spec

-----------------------------------------------------------------------------
(* The active chain and the target are usable, unless invalidateblock may   *)
(* come between two rounds.                                                 *)

(* AcceptBlock marks a malformed block; it has no data, so that it is on no *)
(* chain of linked blocks.                                                  *)
LEMMA UsableMalformed ==
    ASSUME TreeInv, UsableInv, NEW b \in Blocks, AcceptMalformed(b)
    PROVE  UsableInv'
<1>1. /\ failed' = failed \cup {b} /\ failedChild' = failedChild
      /\ UNCHANGED <<candidates, tip, mostWork, asserted>>
  BY DEF AcceptMalformed
<1>2. Failed' = Failed \cup {b}
  BY <1>1 DEF Failed
<1>3. b \notin data
  BY DEF AcceptMalformed, TreeInv, Arrived
<1>4. \A c \in linked : b \notin Ancestors[c]
  BY <1>3, LinkedFacts DEF TreeInv, Arrived
<1> QED BY <1>1, <1>2, <1>4, TipFacts DEF UsableInv, Sound

(* InvalidateBlock disconnects what it marks on the active chain, and the   *)
(* round that would go on with a target is not there.                       *)
LEMMA UsableInvalidate ==
    ASSUME ~InvalidateMidway, TreeInv, UsableInv, NEW b \in Blocks, InvalidateBlock(b)
    PROVE  UsableInv'
<1> DEFINE t == IF b \in Active THEN Parent[b] ELSE tip
<1>1. /\ tip # Null /\ mostWork = Null /\ b \in Blocks \ {Genesis}
      /\ failed' = failed \cup {b} /\ failedChild' = failedChild \cup Cut(b)
      /\ tip' = t
      /\ UNCHANGED <<mostWork, asserted>>
  BY DEF InvalidateBlock, MainFree
<1>2. Failed' = Failed \cup (Cut(b) \cup {b})
  BY <1>1 DEF Failed
<1>3. Ancestors[t] \subseteq Active /\ Ancestors[t] \cap (Cut(b) \cup {b}) = {}
  BY <1>1, NewTip
<1> HIDE DEF t
<1>4. Active \cap (Failed \cup Invalid) = {}
  BY <1>1, TipFacts DEF UsableInv, Sound
<1>5. Ancestors[t] \cap (Failed' \cup Invalid) = {}
  BY <1>2, <1>3, <1>4
<1> QED BY <1>1, <1>5 DEF UsableInv, Sound

(* LoadBlockIndexDB keeps the tip among the candidates.                     *)
LEMMA UsableRestart == ASSUME TreeInv, UsableInv, Restart PROVE UsableInv'
<1>1. /\ failedChild' \subseteq failedChild /\ mostWork' = Null /\ tip # Null
      /\ candidates' = AtLeast(rank', linked \ (failed \cup failedChild'), tip)
      /\ asserted' = (asserted /\ candidates' # {})
      /\ UNCHANGED <<linked, failed, tip>>
  BY DEF Restart, MainFree
<1>2. Failed' \subseteq Failed /\ Failed' = failed \cup failedChild'
  BY <1>1 DEF Failed
<1>3. tip \in linked /\ tip \in Blocks /\ tip \notin Failed
  BY <1>1, TipFacts, Up DEF UsableInv, Sound
<1>4. rank' \in [Blocks -> Nat]
  BY TreeRestart DEF TreeInv, Arrived
<1>5. tip \in candidates'
  BY <1>1, <1>2, <1>3, <1>4, WeakOrder DEF AtLeast
<1>6. asserted' = TRUE
  BY <1>1, <1>5 DEF UsableInv
<1> QED BY <1>1, <1>2, <1>6 DEF UsableInv, Sound

(* FindMostWorkChain takes a candidate without a mark on the way.           *)
LEMMA UsableFind == ASSUME TreeInv, UsableInv, FindMostWorkChain PROVE UsableInv'
<1> DEFINE c == BestCandidate
<1>1. /\ mostWork' = c /\ Unusable(c) = {} /\ candidates # {}
      /\ asserted' = (asserted /\ Path(c) \subseteq linked)
      /\ UNCHANGED <<failed, failedChild, candidates, tip>>
  BY DEF FindMostWorkChain, flagVars
<1>2. c \in candidates /\ Ancestors[c] \subseteq linked
  BY <1>1, BestCandidateFacts, LinkedFacts DEF TreeInv, StateOK
<1> HIDE DEF c
<1>3. Active \cap Failed = {}
  BY TipFacts DEF UsableInv, Sound
<1>4. Ancestors[c] \cap Failed = {}
  BY <1>1, <1>3 DEF Unusable, Path
<1>5. asserted' = TRUE
  BY <1>1, <1>2 DEF UsableInv, Path
<1> QED BY <1>1, <1>2, <1>4, <1>5 DEF UsableInv, Sound, Failed

(* FindMostWorkChain marks nothing on a sound chain.                        *)
LEMMA UsableDrop == ASSUME TreeInv, UsableInv, DropFailedChain PROVE UsableInv'
<1>1. PICK stop, above :
         /\ stop \in Failed /\ stop \in Blocks
         /\ \A x \in above : stop \in Ancestors[x] /\ x \in Blocks
         /\ failedChild' = failedChild \cup above
         /\ asserted' = asserted
  BY DropFacts
<1>2. mostWork = Null /\ UNCHANGED <<failed, tip, mostWork>>
  BY DEF DropFailedChain
<1>3. Failed' = Failed \cup above
  BY <1>1, <1>2 DEF Failed
<1>4. tip # Null => Ancestors[tip] \cap above = {}
  BY <1>1, TipFacts, Transitive DEF UsableInv, Sound
<1> QED BY <1>1, <1>2, <1>3, <1>4 DEF UsableInv, Sound

(* Disconnecting leaves a part of a sound chain.                            *)
LEMMA UsableDisconnect == ASSUME TreeInv, UsableInv, DisconnectTip PROVE UsableInv'
<1>1. /\ pc = "step" /\ ~(Active \subseteq Ancestors[mostWork]) /\ tip' = Parent[tip]
      /\ UNCHANGED <<failed, failedChild, candidates, mostWork, asserted>>
  BY DEF DisconnectTip, flagVars
<1>2. tip # Null /\ tip # Genesis /\ tip \in Blocks
  BY <1>1, DisconnectFacts, TipFacts
<1>3. Ancestors[Parent[tip]] \subseteq Ancestors[tip]
  BY <1>2, ParentFacts
<1> QED BY <1>1, <1>2, <1>3 DEF UsableInv, Sound, Failed

(* The block connected is on the way to the target, which                   *)
(* PruneBlockIndexCandidates leaves among the candidates.                   *)
LEMMA UsableConnect == ASSUME TreeInv, UsableInv, ConnectTip PROVE UsableInv'
<1> DEFINE n == NextBlock
<1>1. /\ pc = "step" /\ Active \subseteq Ancestors[mostWork] /\ tip # mostWork
      /\ n \notin Invalid /\ tip' = n
      /\ candidates' = AtLeast(rank, candidates, n)
      /\ asserted' = (asserted /\ candidates' # {})
      /\ UNCHANGED <<failed, failedChild, mostWork>>
  BY DEF ConnectTip, Prune, flagVars
<1>2. n \in Ancestors[mostWork] /\ n \in linked /\ Ancestors[n] = Active \cup {n}
  BY <1>1, NextFacts
<1> HIDE DEF n
<1>3. mostWork # Null /\ mostWork \in Blocks /\ n \in Blocks /\ rank \in [Blocks -> Nat]
  BY <1>1, <1>2, TipFacts DEF TreeInv, StateOK
<1>4. mostWork \in candidates /\ Ancestors[mostWork] \cap Failed = {}
  BY <1>3 DEF UsableInv
<1>5. Active \cap Invalid = {}
  BY TipFacts DEF UsableInv, Sound
<1>6. Ancestors[n] \cap (Failed \cup Invalid) = {}
  <2>1. Ancestors[n] \subseteq Ancestors[mostWork]
    BY <1>2, <1>3, Transitive
  <2> QED BY <1>1, <1>2, <1>4, <1>5, <2>1
<1>7. ~Worse(rank, mostWork, n)
  BY <1>2, <1>3, BelowIsWorse
<1>8. mostWork \in candidates'
  BY <1>1, <1>4, <1>7 DEF AtLeast
<1>9. asserted' = TRUE
  BY <1>1, <1>8 DEF UsableInv
<1> QED BY <1>1, <1>4, <1>6, <1>8, <1>9 DEF UsableInv, Sound, Failed

(* Every step keeps the active chain and the target usable.                 *)
LEMMA UsableNext == ASSUME ~InvalidateMidway, TreeInv, UsableInv, [Next]_vars PROVE UsableInv'
<1>1. CASE UNCHANGED <<failed, failedChild, tip, mostWork, candidates, asserted>>
  BY <1>1, Frames
<1>2. ASSUME NEW b \in Blocks, AcceptBlock(b) PROVE UsableInv'
  <2>1. candidates \subseteq candidates'
    BY <1>2 DEF AcceptBlock, LinkBlock, QueueUnlinked
  <2>2. UNCHANGED <<failed, failedChild, tip, mostWork, asserted>>
    BY <1>2 DEF AcceptBlock, flagVars
  <2> QED BY <2>1, <2>2 DEF UsableInv, Sound, Failed
<1>3. ASSUME NEW b \in Blocks, ReconsiderBlock(b) PROVE UsableInv'
  <2>1. failed' \subseteq failed /\ failedChild' \subseteq failedChild
        /\ candidates \subseteq candidates' /\ UNCHANGED <<tip, mostWork, asserted>>
    BY <1>3 DEF ReconsiderBlock
  <2>2. Failed' \subseteq Failed
    BY <2>1 DEF Failed
  <2> QED BY <2>1, <2>2 DEF UsableInv, Sound
<1>4. CASE ConnectFails
  <2>1. /\ pc = "step" /\ Active \subseteq Ancestors[mostWork] /\ tip # mostWork
        /\ NextBlock \in Invalid /\ failed' = failed \cup {NextBlock}
        /\ failedChild' = failedChild /\ mostWork' = Null /\ UNCHANGED <<tip, asserted>>
    BY <1>4 DEF ConnectFails, AfterInvalid
  <2>2. Failed' = Failed \cup {NextBlock}
    BY <2>1 DEF Failed
  <2> QED BY <2>1, <2>2 DEF UsableInv, Sound
<1>5. CASE EnterActivate \/ NothingToDo \/ EndStep
  <2>1. mostWork' \in {Null, mostWork}
    BY <1>5 DEF EnterActivate, NothingToDo, EndStep, Release
  <2>2. UNCHANGED <<failed, failedChild, tip, candidates, asserted>>
    BY <1>5 DEF EnterActivate, NothingToDo, EndStep, flagVars
  <2> QED BY <2>1, <2>2 DEF UsableInv, Sound, Failed
<1>6. CASE BeginRound \/ BeginStep \/ UNCHANGED vars
  BY <1>1, <1>6 DEF BeginRound, BeginStep, vars, flagVars
<1>7. ASSUME NEW b \in Blocks, AcceptBlockHeader(b) PROVE UsableInv'
  BY <1>1, <1>7 DEF AcceptBlockHeader, flagVars
<1>8. ASSUME NEW b \in Blocks, AcceptMalformed(b) \/ InvalidateBlock(b) PROVE UsableInv'
  BY <1>8, UsableMalformed, UsableInvalidate
<1>9. CASE Restart \/ FindMostWorkChain \/ DropFailedChain \/ DisconnectTip \/ ConnectTip
  BY <1>9, UsableRestart, UsableFind, UsableDrop, UsableDisconnect, UsableConnect
<1> QED BY <1>2, <1>3, <1>4, <1>5, <1>6, <1>7, <1>8, <1>9 DEF Next, Activation

(* The active chain and the target are always usable.                       *)
LEMMA UsableInvariant == ASSUME ~InvalidateMidway PROVE Spec => [](TreeInv /\ UsableInv)
<1>1. Init => TreeInv /\ UsableInv
  BY TreeInit DEF Init, UsableInv
<1>2. TreeInv /\ UsableInv /\ [Next]_vars => (TreeInv /\ UsableInv)'
  BY TreeNext, UsableNext
<1> QED BY <1>1, <1>2, PTL DEF Spec

(* The assertions of FindMostWorkChain and PruneBlockIndexCandidates never  *)
(* fail, whatever blocks reconsiderblock is given.                          *)
THEOREM Asserts == ASSUME ~InvalidateMidway PROVE Spec => []CandidatesLeft
<1>1. UsableInv => CandidatesLeft
  BY DEF UsableInv, CandidatesLeft
<1> QED BY <1>1, UsableInvariant, PTL

(* ActivateBestChain never leaves or puts a marked block on the active      *)
(* chain, whatever blocks reconsiderblock is given.                         *)
THEOREM ActiveValid == ASSUME ~InvalidateMidway PROVE Spec => []ActiveChainIsValid
<1>1. TreeInv /\ UsableInv => ActiveChainIsValid
  BY TipFacts DEF UsableInv, Sound, ActiveChainIsValid
<1> QED BY <1>1, UsableInvariant, PTL

-----------------------------------------------------------------------------
(* The candidates and the rounds, when the calls are separate.              *)

(* The genesis block is the candidate.                                      *)
LEMMA ChainInit == Init => ChainInv
<1> SUFFICES ASSUME Init PROVE ChainInv
  BY SMT
<1>1. RoundInv
  BY DEF Init, RoundInv
<1>2. CandidatesInv
  BY DEF Init, CandidatesInv, Ref, AtLeast, Failed
<1>3. SettledInv
  BY SMT DEF Init, SettledInv
<1> QED BY <1>1, <1>2, <1>3 DEF ChainInv

(* Blocks that arrive.                                                      *)
LEMMA ChainHeader ==
    ASSUME IInv, NEW b \in Blocks, AcceptBlockHeader(b)
    PROVE  ChainInv'
<1>1. UNCHANGED <<linked, rank, failed, failedChild, candidates, tip, pc, mostWork, startTip,
                  waiting, asserted>>
  BY DEF AcceptBlockHeader, flagVars, stepVars
<1> QED BY <1>1, Frames DEF IInv, ChainInv

(* AcceptBlock marks a malformed block.                                     *)
LEMMA ChainMalformed ==
    ASSUME IInv, NEW b \in Blocks, AcceptMalformed(b)
    PROVE  ChainInv'
<1>1. /\ failed' = failed \cup {b} /\ failedChild' = failedChild
      /\ UNCHANGED <<linked, rank, candidates, tip, pc, mostWork, startTip, waiting, asserted>>
      /\ pc \in {"idle", "loop"}
  BY DEF AcceptMalformed, stepVars, MainFree
<1>2. Failed' = Failed \cup {b}
  BY <1>1 DEF Failed
<1>3. RoundInv' /\ startTip = Null
  BY <1>1 DEF IInv, ChainInv, RoundInv
<1>4. Ref' = tip /\ Ref = tip
  BY <1>1, <1>3 DEF Ref
<1>5. CandidatesInv'
  BY <1>1, <1>2, <1>4 DEF IInv, ChainInv, CandidatesInv, AtLeast, Worse
<1>6. SettledInv'
  BY <1>1, <1>2 DEF IInv, ChainInv, SettledInv, NoneBetter, Worse
<1> QED BY <1>3, <1>5, <1>6 DEF ChainInv

(* AcceptBlock makes the newly linked blocks candidates that are as good as *)
(* the tip.                                                                 *)
LEMMA ChainBlock ==
    ASSUME IInv, NEW b \in Blocks, AcceptBlock(b)
    PROVE  ChainInv'
<1>1. /\ UNCHANGED <<failed, failedChild, tip, pc, mostWork, startTip, asserted>>
      /\ pc \in {"idle", "loop"} /\ tip # Null
  BY DEF AcceptBlock, flagVars, stepVars, MainFree
<1>2. waiting' # 0
  BY CallFrame DEF AcceptBlock, IInv, TreeInv
<1>3. startTip = Null /\ Ref = tip
  BY <1>1, FreeRef DEF IInv, ChainInv
<1>4. SettledInv'
  BY <1>2 DEF SettledInv
<1>5. RoundInv'
  BY <1>1, <1>3 DEF RoundInv
<1>6. Ref' = tip
  BY <1>1, <1>3 DEF Ref
<1>7. CASE Parent[b] \in linked
  <2>1. PICK r \in Numberings(NowLinked(b)) :
           /\ rank' = [x \in Blocks |-> IF x \in NowLinked(b) THEN r[x] ELSE rank[x]]
           /\ linked' = linked \cup NowLinked(b)
           /\ candidates' = candidates \cup AtLeast(rank', NowLinked(b), tip)
    BY <1>7 DEF AcceptBlock, LinkBlock
  <2>2. \A x \in linked : rank'[x] = rank[x]
    <3>1. Arrived /\ b \in Blocks \ data
      BY DEF AcceptBlock, IInv, TreeInv
    <3>2. NowLinked(b) \cap linked = {}
      BY <1>7, <3>1, NowLinkedFacts
    <3>3. linked \subseteq Blocks
      BY <3>1, LinkedFacts
    <3> QED BY <2>1, <3>2, <3>3
  <2>3. \A x \in linked : Worse(rank', x, tip) <=> Worse(rank, x, tip)
    BY <1>1, <2>2, TipFacts DEF Worse, IInv
  <2>4. candidates' \subseteq AtLeast(rank', linked', tip)
    BY <1>3, <2>1, <2>3 DEF IInv, ChainInv, CandidatesInv, AtLeast
  <2>5. AtLeast(rank', linked' \ Failed, tip) \subseteq candidates'
    BY <1>3, <2>1, <2>3 DEF IInv, ChainInv, CandidatesInv, AtLeast
  <2>6. CandidatesInv'
    BY <1>1, <1>6, <2>4, <2>5, SMT DEF CandidatesInv, Failed, AtLeast, Worse
  <2> QED BY <1>4, <1>5, <2>6 DEF ChainInv
<1>8. CASE Parent[b] \notin linked
  <2>1. UNCHANGED <<linked, rank, candidates>>
    BY <1>8 DEF AcceptBlock, QueueUnlinked
  <2>2. CandidatesInv'
    BY <1>1, <2>1, Frames DEF IInv, ChainInv
  <2> QED BY <1>4, <1>5, <2>2 DEF ChainInv
<1> QED BY <1>7, <1>8

(* InvalidateBlock takes back the tip and puts back what is now as good.    *)
LEMMA ChainInvalidate ==
    ASSUME IInv, Separate, NEW b \in Blocks, InvalidateBlock(b)
    PROVE  ChainInv'
<1> DEFINE t == IF b \in Active THEN Parent[b] ELSE tip
           cut == Cut(b) \cup {b}
<1>1. /\ pc \in {"idle", "loop"} /\ tip # Null /\ mostWork = Null /\ b \in Blocks \ {Genesis}
      /\ failed' = failed \cup {b} /\ failedChild' = failedChild \cup Cut(b)
      /\ candidates' = (candidates \ cut) \cup AtLeast(rank, linked \ (Failed \cup cut), t)
      /\ tip' = t
      /\ UNCHANGED <<linked, rank, pc, mostWork, startTip, asserted>>
  BY DEF InvalidateBlock, InvalidatedCandidates, MainFree, Separate, treeVars, stepVars
<1>2. startTip = Null /\ Ref = tip
  BY <1>1, FreeRef DEF IInv, ChainInv
<1>3. waiting' # 0
  BY CallFrame DEF InvalidateBlock, IInv, TreeInv
<1>4. Failed' = Failed \cup cut
  BY <1>1 DEF Failed
<1>5. t \in linked /\ t \in Blocks /\ t \in Ancestors[tip]
  BY <1>1, NewTip DEF IInv
<1> HIDE DEF t, cut
<1>6. RoundInv' /\ SettledInv'
  BY <1>1, <1>2, <1>3 DEF RoundInv, SettledInv
<1>7. Ref' = t
  BY <1>1, <1>2 DEF Ref
<1>8. rank \in [Blocks -> Nat] /\ linked \subseteq Blocks /\ tip \in Blocks
  BY <1>1, TipFacts DEF IInv
<1>9. ~Worse(rank, tip, t)
  BY <1>5, <1>8, BelowIsWorse
<1>10. \A x \in linked : ~Worse(rank, x, tip) => ~Worse(rank, x, t)
  BY <1>5, <1>8, <1>9, WeakOrder, SMT
<1>11. t # Null /\ candidates \subseteq AtLeast(rank, linked, tip)
  BY <1>2, <1>5, Up DEF IInv, ChainInv, CandidatesInv
<1>12. candidates' \subseteq AtLeast(rank, linked, t)
  BY <1>1, <1>10, <1>11 DEF AtLeast
<1>13. AtLeast(rank, linked \ (Failed \cup cut), t) \subseteq candidates'
  BY <1>1
<1>14. CandidatesInv'
  BY <1>1, <1>4, <1>7, <1>12, <1>13 DEF CandidatesInv, AtLeast, Worse
<1> QED BY <1>6, <1>14 DEF ChainInv

(* ReconsiderBlock puts back the marked blocks that are better than the tip;*)
(* nSequenceId decides between two blocks of the same work.                 *)
LEMMA ChainReconsider ==
    ASSUME IInv, Separate, NEW b \in Blocks, ReconsiderBlock(b)
    PROVE  ChainInv'
<1> DEFINE cleared == Restored(b) \cup Ancestors[b]
<1>1. /\ pc \in {"idle", "loop"} /\ tip # Null
      /\ failed' = failed \ cleared /\ failedChild' = failedChild \ cleared
      /\ candidates' = candidates \cup BetterOnly(rank, Restored(b) \cap linked, tip)
      /\ UNCHANGED <<linked, rank, tip, pc, mostWork, startTip, asserted>>
      /\ Failed \cap Ancestors[b] \subseteq {b}
  BY DEF ReconsiderBlock, Reconsiderable, MainFree, Separate, treeVars, stepVars
<1>2. startTip = Null /\ Ref = tip
  BY <1>1, FreeRef DEF IInv, ChainInv
<1>3. waiting' # 0
  BY CallFrame DEF ReconsiderBlock, IInv, TreeInv
<1>4. Failed' = Failed \ cleared
  BY <1>1 DEF Failed
<1>5. \A x \in Failed \cap cleared : x \in Restored(b)
  BY <1>1, Up DEF Restored
<1>6. RoundInv' /\ SettledInv'
  BY <1>1, <1>2, <1>3 DEF RoundInv, SettledInv
<1>7. Ref' = tip
  BY <1>1, <1>2 DEF Ref
<1>8. rank \in [Blocks -> Nat] /\ linked \subseteq Blocks /\ tip \in linked /\ tip \in Blocks
  BY <1>1, TipFacts DEF IInv
<1>9. candidates' \subseteq AtLeast(rank, linked, tip)
  BY <1>1, <1>2, <1>8, WeakOrder DEF IInv, ChainInv, CandidatesInv, AtLeast, BetterOnly
<1>10. ASSUME NEW x \in linked \ Failed', ~Worse(rank, x, tip) PROVE x \in candidates'
  <2>1. CASE x \notin Failed
    BY <1>1, <1>2, <1>10, <2>1 DEF IInv, ChainInv, CandidatesInv, AtLeast
  <2>2. CASE x \in Failed
    <3>1. x \in Restored(b)
      BY <1>4, <1>5, <2>2
    <3>2. tip \notin Failed
      BY <1>1, <1>8, Up DEF IInv, UsableInv, Sound
    <3>3. rank[x] # rank[tip]
      BY <1>8, <2>2, <3>2 DEF IInv, TreeInv, Arrived
    <3>4. Worse(rank, tip, x)
      BY <1>8, <1>10, <3>3, WeakOrder
    <3> QED BY <1>1, <3>1, <3>4 DEF BetterOnly
  <2> QED BY <2>1, <2>2
<1>11. CandidatesInv'
  BY <1>1, <1>7, <1>9, <1>10 DEF CandidatesInv, AtLeast, Worse
<1> QED BY <1>6, <1>11 DEF ChainInv

(* LoadBlockIndexDB finds the candidates anew.                              *)
LEMMA ChainRestart == ASSUME IInv, Restart PROVE ChainInv'
<1>1. /\ failedChild' \subseteq failedChild /\ waiting' = 1 /\ mostWork' = Null /\ pc' = "idle"
      /\ startTip' = Null /\ tip # Null
      /\ candidates' = AtLeast(rank', linked \ (failed \cup failedChild'), tip)
      /\ UNCHANGED <<linked, failed, tip>>
  BY DEF Restart, MainFree
<1>2. Failed' = failed \cup failedChild'
  BY <1>1 DEF Failed
<1>3. RoundInv'
  BY <1>1 DEF RoundInv
<1>4. SettledInv'
  BY <1>1, SMT DEF SettledInv
<1>5. Ref' = tip
  BY <1>1 DEF Ref
<1>6. CandidatesInv'
  BY <1>1, <1>2, <1>5 DEF CandidatesInv, AtLeast, Worse
<1> QED BY <1>3, <1>4, <1>6 DEF ChainInv

(* ActivateBestChain enters and begins a round.                             *)
LEMMA ChainEnter == ASSUME IInv, EnterActivate PROVE ChainInv'
<1>1. /\ pc = "idle" /\ pc' = "loop" /\ mostWork' = Null
      /\ UNCHANGED <<linked, rank, failed, failedChild, candidates, tip, startTip, asserted>>
  BY DEF EnterActivate, treeVars, flagVars, stepVars
<1>2. CandidatesInv'
  BY <1>1, Frames DEF IInv, ChainInv
<1>3. RoundInv'
  BY <1>1 DEF IInv, ChainInv, RoundInv, Sound, Failed
<1>4. SettledInv'
  BY <1>1 DEF SettledInv
<1> QED BY <1>2, <1>3, <1>4 DEF ChainInv

(* A round remembers its first tip.                                         *)
LEMMA ChainBegin == ASSUME IInv, BeginRound PROVE ChainInv'
<1>1. /\ pc = "loop" /\ pc' = "find" /\ startTip' = tip
      /\ UNCHANGED <<linked, rank, failed, failedChild, candidates, tip, mostWork, waiting,
                     asserted>>
  BY DEF BeginRound, treeVars, flagVars
<1>2. RoundInv'
  BY <1>1 DEF IInv, UsableInv, ChainInv, RoundInv, Sound, Failed
<1>3. Ref = tip
  BY <1>1, FreeRef DEF IInv, ChainInv
<1>4. Ref' = tip
  BY <1>1 DEF Ref
<1>5. CandidatesInv'
  BY <1>1, <1>3, <1>4 DEF IInv, ChainInv, CandidatesInv, AtLeast, Worse, Failed
<1>6. SettledInv'
  BY <1>1 DEF IInv, ChainInv, SettledInv, NoneBetter, Failed, Worse
<1> QED BY <1>2, <1>5, <1>6 DEF ChainInv

(* While a round looks for a target its tip is at or below where it began,  *)
(* which is a candidate.                                                    *)
LEMMA FindFacts ==
    ASSUME IInv, pc = "find"
    PROVE  /\ Ref = startTip
           /\ candidates # {}
           /\ \A x \in candidates : startTip = Null \/ ~Worse(rank, x, startTip)
<1>1. tip = startTip \/ (startTip # Null /\ Worse(rank, tip, startTip))
  BY DEF IInv, ChainInv, RoundInv
<1>2. Ref = startTip
  BY <1>1 DEF Ref
<1>3. CASE startTip = Null
  <2>1. Genesis \in linked /\ Genesis \notin Failed
    <3>1. Genesis \in linked
      BY DEF IInv, TreeInv, Arrived
    <3>2. Genesis \notin failed /\ \A b \in Failed : Ancestors[b] \cap failed # {}
      BY DEF IInv, CauseInv
    <3> QED BY <3>1, <3>2, TreeAssumption, SMT
  <2>2. Genesis \in candidates
    BY <1>2, <1>3, <2>1 DEF IInv, ChainInv, CandidatesInv, AtLeast
  <2> QED BY <1>2, <1>3, <2>2
<1>4. CASE startTip # Null
  <2>1. startTip \in linked /\ startTip \in Blocks /\ rank \in [Blocks -> Nat]
    BY <1>4, TipFacts DEF IInv
  <2>2. startTip \notin Failed
    BY <1>4, <2>1, Up DEF IInv, ChainInv, RoundInv, Sound
  <2>3. startTip \in candidates
    BY <1>2, <2>1, <2>2, WeakOrder DEF IInv, ChainInv, CandidatesInv, AtLeast
  <2> QED BY <1>2, <2>3 DEF IInv, ChainInv, CandidatesInv, AtLeast
<1> QED BY <1>3, <1>4

(* FindMostWorkChain returns a block than which none is better.             *)
LEMMA ChainFind == ASSUME IInv, FindMostWorkChain PROVE ChainInv'
<1>1. /\ pc = "find" /\ mostWork' = BestCandidate
      /\ UNCHANGED <<linked, rank, failed, failedChild, candidates, tip, pc, startTip, waiting>>
  BY DEF FindMostWorkChain, treeVars, flagVars, stepVars
<1>2. /\ candidates # {} /\ Ref = startTip
      /\ \A x \in candidates : startTip = Null \/ ~Worse(rank, x, startTip)
  BY <1>1, FindFacts
<1>3. /\ BestCandidate \in candidates
      /\ \A d \in candidates : ~Worse(rank, BestCandidate, d)
  BY <1>2, BestCandidateFacts DEF IInv
<1> DEFINE c == BestCandidate
<1> HIDE DEF c
<1>4. c \in linked /\ c \in Blocks /\ rank \in [Blocks -> Nat] /\ linked \subseteq Blocks
  BY <1>3, TipFacts DEF IInv, TreeInv, StateOK, c
<1>5. CandidatesInv'
  BY <1>1, Frames DEF IInv, ChainInv
<1>6. RoundInv'
  BY <1>1 DEF IInv, ChainInv, RoundInv, Sound, Failed, Worse
<1>7. ASSUME NEW x \in linked, x \notin Failed PROVE ~Worse(rank, c, x)
  <2>1. CASE x \in candidates
    BY <1>3, <2>1 DEF c
  <2>2. CASE x \notin candidates
    <3>1. startTip # Null /\ Worse(rank, x, startTip)
      BY <1>2, <1>7, <2>2 DEF IInv, ChainInv, CandidatesInv, AtLeast
    <3>2. startTip \in Blocks /\ ~Worse(rank, c, startTip)
      BY <1>2, <1>3, <3>1, TipFacts DEF IInv, c
    <3>3. Worse(rank, x, c)
      BY <1>4, <3>1, <3>2, WeakOrder
    <3> QED BY <1>4, <3>3, WeakOrder
  <2> QED BY <2>1, <2>2
<1>8. NoneBetter(c)
  BY <1>4, <1>7, Up DEF NoneBetter
<1>9. SettledInv'
  BY <1>1, <1>8 DEF SettledInv, NoneBetter, Failed, Worse, c
<1> QED BY <1>5, <1>6, <1>9 DEF ChainInv

(* FindMostWorkChain takes out only blocks that it marks or finds marked.   *)
LEMMA ChainDrop == ASSUME IInv, DropFailedChain PROVE ChainInv'
<1>1. PICK stop, above :
         /\ stop \in Failed /\ stop \in Blocks
         /\ \A x \in above : stop \in Ancestors[x] /\ x \in Blocks
         /\ failedChild' = failedChild \cup above
         /\ candidates' = candidates \ (above \cup {stop})
  BY DropFacts DEF IInv
<1>2. /\ pc = "find" /\ mostWork = Null
      /\ UNCHANGED <<linked, rank, failed, tip, pc, mostWork, startTip, waiting>>
  BY DEF DropFailedChain, treeVars, stepVars
<1>3. Failed' = Failed \cup above
  BY <1>1, <1>2 DEF Failed
<1>4. RoundInv'
  <2>1. startTip # Null => Ancestors[startTip] \cap above = {}
    BY <1>1, TipFacts, Transitive DEF IInv, ChainInv, RoundInv, Sound
  <2> QED BY <1>2, <1>3, <2>1 DEF IInv, ChainInv, RoundInv, Sound, Worse
<1>5. Ref' = Ref
  BY <1>2 DEF Ref, Worse
<1>6. CandidatesInv'
  BY <1>1, <1>2, <1>3, <1>5 DEF IInv, ChainInv, CandidatesInv, AtLeast, Worse
<1>7. SettledInv'
  BY <1>2, <1>3 DEF IInv, ChainInv, SettledInv, NoneBetter, Worse
<1> QED BY <1>4, <1>6, <1>7 DEF ChainInv

(* The end of a round keeps the invariant if the round has made progress.   *)
LEMMA ChainRelease ==
    ASSUME IInv, NEW m \in {mostWork, tip}, Release(m), tip # Null, Ref = tip,
           mostWork = tip \/ m = mostWork,
           UNCHANGED <<linked, rank, failed, failedChild, candidates, tip, waiting, asserted>>
    PROVE  ChainInv'
<1>1. /\ startTip' = Null /\ pc' \in {"idle", "loop"}
      /\ m = tip => pc' = "idle" /\ mostWork' = Null
      /\ m # tip => pc' = "loop" /\ mostWork' = mostWork
  BY DEF Release
<1>2. RoundInv'
  BY <1>1 DEF RoundInv
<1>3. Ref' = tip
  BY <1>1 DEF Ref
<1>4. CandidatesInv'
  BY <1>3 DEF IInv, ChainInv, CandidatesInv, AtLeast, Worse, Failed
<1>5. m = tip => mostWork = tip
  OBVIOUS
<1>6. SettledInv'
  BY <1>1, <1>5 DEF IInv, ChainInv, SettledInv, NoneBetter, Failed, Worse
<1> QED BY <1>2, <1>4, <1>6 DEF ChainInv

(* A round ends without a step only where it began.                         *)
LEMMA NothingFacts ==
    ASSUME IInv, NothingToDo
    PROVE  mostWork = tip /\ tip # Null /\ tip = startTip
<1>1. pc = "find" /\ candidates # {}
  BY FindFacts DEF NothingToDo
<1>2. mostWork # Null /\ mostWork = tip
  BY <1>1 DEF NothingToDo
<1>3. tip \in candidates
  BY <1>2 DEF IInv, UsableInv
<1>4. startTip = Null \/ ~Worse(rank, tip, startTip)
  BY <1>1, <1>3, FindFacts
<1>5. tip = startTip
  BY <1>1, <1>2, <1>4 DEF IInv, ChainInv, RoundInv
<1> QED BY <1>2, <1>5

(* A round that finds its tip the best changes nothing.                     *)
LEMMA ChainNothing == ASSUME IInv, NothingToDo PROVE ChainInv'
<1>1. mostWork = tip /\ tip # Null /\ tip = startTip
  BY NothingFacts
<1>2. Release(tip)
  BY <1>1 DEF NothingToDo
<1>3. Ref = tip
  BY <1>1 DEF Ref
<1>4. UNCHANGED <<linked, rank, failed, failedChild, candidates, tip, waiting, asserted>>
  BY DEF NothingToDo, treeVars, flagVars
<1> QED BY <1>1, <1>2, <1>3, <1>4, ChainRelease

(* ActivateBestChainStep begins at or below the round's first tip.          *)
LEMMA ChainBeginStep == ASSUME IInv, BeginStep PROVE ChainInv'
<1>1. /\ pc = "find" /\ pc' = "step"
      /\ UNCHANGED <<linked, rank, failed, failedChild, candidates, tip, mostWork, startTip,
                     waiting, asserted>>
  BY DEF BeginStep, treeVars, flagVars
<1>2. CandidatesInv'
  BY <1>1, Frames DEF IInv, ChainInv
<1>3. RoundInv'
  BY <1>1 DEF IInv, ChainInv, RoundInv, Sound, Failed, Worse
<1>4. SettledInv'
  BY <1>1 DEF IInv, ChainInv, SettledInv, NoneBetter, Failed, Worse
<1> QED BY <1>2, <1>3, <1>4 DEF ChainInv

(* Disconnecting leaves the candidates those of the round's first tip.      *)
LEMMA ChainDisconnect == ASSUME IInv, DisconnectTip PROVE ChainInv'
<1>1. /\ pc = "step" /\ ~(Active \subseteq Ancestors[mostWork]) /\ tip' = Parent[tip]
      /\ UNCHANGED <<linked, rank, failed, failedChild, candidates, pc, mostWork, startTip,
                     waiting, asserted>>
  BY DEF DisconnectTip, treeVars, flagVars, stepVars
<1>2. tip # Null /\ tip # Genesis
  BY <1>1, DisconnectFacts DEF IInv
<1>3. tip \in Blocks /\ rank \in [Blocks -> Nat]
  BY <1>2, TipFacts DEF IInv
<1>4. Parent[tip] \in Ancestors[tip] /\ Parent[tip] \in Blocks /\ Parent[tip] # tip
      /\ Ancestors[Parent[tip]] \subseteq Ancestors[tip] /\ Parent[tip] # Null
  BY <1>2, <1>3, ParentFacts
<1>5. tip = startTip \/ (startTip # Null /\ Worse(rank, tip, startTip))
  BY <1>1 DEF IInv, ChainInv, RoundInv
<1>6. startTip # Null /\ startTip \in Blocks
  BY <1>2, <1>5, TipFacts DEF IInv
<1>7. Worse(rank, Parent[tip], tip)
  BY <1>3, <1>4, BelowIsWorse
<1>8. Worse(rank, Parent[tip], startTip)
  BY <1>3, <1>4, <1>5, <1>6, <1>7, WeakOrder
<1>9. Worse(rank', tip', startTip')
  BY <1>1, <1>8 DEF Worse
<1>10. RoundInv'
  BY <1>1, <1>4, <1>6, <1>9 DEF IInv, ChainInv, RoundInv, Sound, Failed
<1>11. Ref' = startTip /\ Ref = startTip
  BY <1>1, <1>5, <1>6, <1>9 DEF Ref
<1>12. CandidatesInv'
  BY <1>1, <1>11 DEF IInv, ChainInv, CandidatesInv, AtLeast, Worse, Failed
<1>13. SettledInv'
  BY <1>1 DEF IInv, ChainInv, SettledInv, NoneBetter, Failed, Worse
<1> QED BY <1>10, <1>12, <1>13 DEF ChainInv

(* Connecting a block prunes the candidates only once the chain is as good  *)
(* as the round's first tip.                                                *)
LEMMA ChainConnect == ASSUME IInv, ConnectTip PROVE ChainInv'
<1> DEFINE n == NextBlock
<1>1. /\ pc = "step" /\ Active \subseteq Ancestors[mostWork] /\ tip # mostWork
      /\ tip' = n /\ candidates' = AtLeast(rank, candidates, n)
      /\ pc' \in {"test", "step"}
      /\ UNCHANGED <<linked, rank, failed, failedChild, mostWork, startTip, waiting>>
  BY DEF ConnectTip, Prune, treeVars, flagVars, stepVars
<1>2. /\ n \in Ancestors[mostWork] /\ n \in linked
      /\ tip # Null => tip \in Ancestors[n] /\ tip # n
      /\ Ancestors[n] = Active \cup {n}
  BY <1>1, NextFacts DEF IInv
<1> HIDE DEF n
<1>3. /\ mostWork # Null /\ mostWork \in Blocks /\ n \in Blocks /\ n # Null
      /\ rank \in [Blocks -> Nat] /\ linked \subseteq Blocks
  BY <1>1, <1>2, TipFacts DEF IInv, TreeInv, StateOK
<1>4. RoundInv'
  <2>1. Ancestors[n] \subseteq Ancestors[mostWork]
    BY <1>2, <1>3, Transitive
  <2>2. Active' \subseteq Ancestors[mostWork']
    BY <1>1, <2>1 DEF Active
  <2> QED BY <1>1, <1>3, <2>2 DEF IInv, ChainInv, RoundInv, Sound, Failed
<1>5. SettledInv'
  BY <1>1 DEF IInv, ChainInv, SettledInv, NoneBetter, Failed, Worse
<1>6. tip # Null => tip \in Blocks /\ Worse(rank, tip, n) /\ ~Worse(rank, n, tip)
  BY <1>2, <1>3, TipFacts, BelowIsWorse DEF IInv
<1>7. startTip # Null => startTip \in Blocks /\ tip # Null
  BY TipFacts DEF IInv, ChainInv, RoundInv
<1>8. CASE startTip # Null /\ Worse(rank, n, startTip)
  <2>1. Worse(rank, tip, startTip)
    BY <1>3, <1>6, <1>7, <1>8, WeakOrder
  <2>2. Ref = startTip
    BY <1>8, <2>1 DEF Ref
  <2>3. Ref' = startTip
    BY <1>1, <1>8 DEF Ref, Worse
  <2>4. \A x \in candidates : ~Worse(rank, x, startTip) /\ x \in Blocks
    BY <1>3, <1>8, <2>2 DEF IInv, ChainInv, CandidatesInv, AtLeast
  <2>5. \A x \in candidates : ~Worse(rank, x, n)
    BY <1>3, <1>7, <1>8, <2>4, WeakOrder
  <2>6. candidates' = candidates
    BY <1>1, <2>5 DEF AtLeast
  <2>7. CandidatesInv'
    <3>1. CandidatesInv
      BY DEF IInv, ChainInv
    <3> QED BY <1>1, <2>2, <2>3, <2>6, <3>1 DEF CandidatesInv, AtLeast, Worse, Failed
  <2> QED BY <1>4, <1>5, <2>7 DEF ChainInv
<1>9. CASE startTip = Null \/ ~Worse(rank, n, startTip)
  <2>1. Ref' = n
    BY <1>1, <1>9 DEF Ref, Worse
  <2>2. Ref = Null \/ (Ref \in Blocks /\ ~Worse(rank, n, Ref))
    BY <1>6, <1>7, <1>9 DEF Ref
  <2>3. candidates' \subseteq AtLeast(rank, linked, n)
    BY <1>1 DEF AtLeast, IInv, TreeInv, StateOK
  <2>4. ASSUME NEW x \in linked \ Failed, ~Worse(rank, x, n) PROVE x \in candidates'
    <3>1. Ref = Null \/ ~Worse(rank, x, Ref)
      BY <1>3, <2>2, <2>4, WeakOrder
    <3>2. x \in candidates
      BY <2>4, <3>1 DEF IInv, ChainInv, CandidatesInv, AtLeast
    <3> QED BY <1>1, <2>4, <3>2 DEF AtLeast
  <2>5. CandidatesInv'
    BY <1>1, <1>3, <2>1, <2>3, <2>4 DEF CandidatesInv, AtLeast, Worse, Failed
  <2> QED BY <1>4, <1>5, <2>5 DEF ChainInv
<1> QED BY <1>8, <1>9

(* InvalidBlockFound marks the block it takes out.                          *)
LEMMA ChainFails == ASSUME IInv, ConnectFails PROVE ChainInv'
<1> DEFINE n == NextBlock
<1>1. /\ n \in Invalid /\ failed' = failed \cup {n} /\ failedChild' = failedChild
      /\ candidates' = candidates \ {n}
      /\ mostWork' = Null /\ pc' = "test"
      /\ UNCHANGED <<linked, rank, tip, startTip, waiting>>
  BY DEF ConnectFails, AfterInvalid, treeVars, stepVars
<1> HIDE DEF n
<1>2. Failed' = Failed \cup {n}
  BY <1>1 DEF Failed
<1>3. RoundInv'
  BY <1>1, <1>2 DEF IInv, ChainInv, RoundInv, Sound
<1>4. Ref' = Ref
  BY <1>1 DEF Ref, Worse
<1>5. CandidatesInv'
  BY <1>1, <1>2, <1>4 DEF IInv, ChainInv, CandidatesInv, AtLeast, Worse
<1>6. SettledInv'
  BY <1>1 DEF SettledInv
<1> QED BY <1>3, <1>5, <1>6 DEF ChainInv

(* The inner loop goes on until the chain is as good as it was.             *)
LEMMA ChainEndStep == ASSUME IInv, EndStep PROVE ChainInv'
<1>1. /\ pc = "test"
      /\ UNCHANGED <<linked, rank, failed, failedChild, candidates, tip, waiting, asserted>>
  BY DEF EndStep, treeVars, flagVars
<1>2. CASE NoProgress
  <2>1. pc' = "find" /\ UNCHANGED <<mostWork, startTip>>
    BY <1>2 DEF EndStep
  <2>2. CandidatesInv'
    BY <1>1, <2>1, Frames DEF IInv, ChainInv
  <2>3. tip = startTip \/ (startTip # Null /\ Worse(rank, tip, startTip))
    BY <1>2 DEF NoProgress, IInv, ChainInv, RoundInv
  <2>4. RoundInv'
    BY <1>1, <2>1, <2>3 DEF IInv, ChainInv, RoundInv, Sound, Failed, Worse
  <2>5. SettledInv'
    BY <1>1, <2>1 DEF IInv, ChainInv, SettledInv, NoneBetter, Failed, Worse
  <2> QED BY <2>2, <2>4, <2>5 DEF ChainInv
<1>3. CASE ~NoProgress
  <2>1. tip # Null /\ Ref = tip /\ Release(mostWork)
    BY <1>3 DEF EndStep, NoProgress, Ref
  <2> QED BY <1>1, <2>1, ChainRelease
<1> QED BY <1>2, <1>3

-----------------------------------------------------------------------------
(* The theorems.                                                            *)

(* Every step keeps the invariant.                                          *)
LEMMA ChainNext == ASSUME Separate, IInv, [Next]_vars PROVE ChainInv'
<1>1. CASE UNCHANGED vars
  <2>1. UNCHANGED <<linked, rank, failed, failedChild, candidates, tip, pc, mostWork, startTip,
                    waiting, asserted>>
    BY <1>1 DEF vars, treeVars, flagVars, stepVars
  <2> QED BY <2>1, Frames DEF IInv, ChainInv
<1>2. CASE Activation
  BY <1>2, ChainBegin, ChainFind, ChainDrop, ChainNothing, ChainBeginStep, ChainDisconnect,
     ChainConnect, ChainFails, ChainEndStep, SMT DEF Activation
<1>3. CASE EnterActivate \/ Restart
  BY <1>3, ChainEnter, ChainRestart
<1>4. ASSUME NEW b \in Blocks,
             \/ AcceptBlockHeader(b) \/ AcceptMalformed(b) \/ AcceptBlock(b)
             \/ InvalidateBlock(b) \/ ReconsiderBlock(b)
      PROVE  ChainInv'
  BY <1>4, ChainHeader, ChainMalformed, ChainBlock, ChainInvalidate, ChainReconsider
<1> QED BY <1>1, <1>2, <1>3, <1>4 DEF Next

(* The inductive invariant holds when the calls are separate.               *)
LEMMA Invariant == ASSUME Separate PROVE Spec => []IInv
<1>1. Init => ChainInv
  BY ChainInit
<1>2. TreeInv /\ CauseInv /\ UsableInv /\ ChainInv /\ [Next]_vars => ChainInv'
  BY ChainNext DEF IInv
<1>3. ~ReconsiderBelow /\ ~InvalidateMidway
  BY DEF Separate
<1> QED BY <1>1, <1>2, <1>3, CauseInvariant, UsableInvariant, PTL DEF Spec, IInv

(* What CheckBlockIndex asserts of setBlockIndexCandidates holds whenever   *)
(* cs_main is free.                                                         *)
THEOREM Candidates == ASSUME Separate PROVE Spec => []CandidatesAreTheGoodBlocks
<1>1. IInv => CandidatesAreTheGoodBlocks
  <2> SUFFICES ASSUME IInv, pc \in {"idle", "loop"}, tip # Null
               PROVE  /\ candidates \subseteq AtLeast(rank, linked, tip)
                      /\ {b \in AtLeast(rank, linked, tip) : Ancestors[b] \cap failed = {}}
                           \subseteq candidates
    BY DEF CandidatesAreTheGoodBlocks
  <2>1. Ref = tip
    BY FreeRef DEF IInv, ChainInv
  <2>2. \A b \in linked : Ancestors[b] \cap failed = {} => b \notin Failed
    BY DEF IInv, CauseInv
  <2> QED BY <2>1, <2>2 DEF IInv, ChainInv, CandidatesInv, AtLeast
<1> QED BY <1>1, Invariant, PTL

(* When no thread is in ActivateBestChain or about to call it, no block that*)
(* could be activated is better than the tip.                               *)
THEOREM BestActive == ASSUME Separate PROVE Spec => []BestChainIsActive
<1>1. IInv => BestChainIsActive
  BY DEF IInv, ChainInv, SettledInv, NoneBetter, BestChainIsActive
<1> QED BY <1>1, Invariant, PTL

(* A round of ActivateBestChain never releases cs_main with a tip that is   *)
(* worse than the one it began with.                                        *)
THEOREM Forward == ASSUME Separate PROVE Spec => ForwardProgress
<1> DEFINE Ends == pc \notin {"idle", "loop"} /\ pc' \in {"idle", "loop"} /\ startTip # Null
<1>1. IInv /\ [Next]_vars => [Ends => ~Worse(rank, tip, startTip)]_vars
  <2> SUFFICES ASSUME IInv, Next, Ends PROVE ~Worse(rank, tip, startTip)
    OBVIOUS
  <2>1. EndStep \/ NothingToDo
    BY DEF Next, EnterActivate, Restart, Activation, AcceptBlockHeader, AcceptMalformed,
           AcceptBlock, InvalidateBlock, ReconsiderBlock, MainFree, BeginRound,
           FindMostWorkChain, DropFailedChain, BeginStep, DisconnectTip, ConnectTip, ConnectFails
  <2>2. CASE EndStep
    BY <2>2 DEF EndStep, NoProgress
  <2>3. CASE NothingToDo
    <3>1. tip = startTip /\ tip # Null
      BY <2>3, NothingFacts
    <3> QED BY <3>1, TipFacts, WeakOrder DEF IInv
  <2> QED BY <2>1, <2>2, <2>3
<1> QED BY <1>1, Invariant, PTL DEF Spec, ForwardProgress
=============================================================================
