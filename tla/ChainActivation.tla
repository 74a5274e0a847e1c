--------------------------- MODULE ChainActivation ---------------------------
(***************************************************************************)
(* Which chain is active: the block tree, setBlockIndexCandidates, and the *)
(* threads that accept blocks, call invalidateblock and reconsiderblock,   *)
(* or run ActivateBestChain.                                               *)
(*                                                                         *)
(*   header, data, linked  the blocks of mapBlockIndex, those with         *)
(*               BLOCK_HAVE_DATA, and those whose nChainTx is set          *)
(*   rank        nSequenceId among the linked blocks, 0 for the others     *)
(*   failed, failedChild   BLOCK_FAILED_VALID and BLOCK_FAILED_CHILD       *)
(*   unsaved     the blocks marked BLOCK_FAILED_CHILD without being put in *)
(*               setDirtyBlockIndex                                        *)
(*                                                                         *)
(* m_cs_chainstate lets one thread at a time run ActivateBestChain, so its *)
(* local variables are variables here: pc, mostWork, startTip, oldTip and  *)
(* connected.  It holds cs_main except where pc is "idle" or "loop", and   *)
(* only there do the other threads take their steps.  A thread that has    *)
(* made its change and is about to call ActivateBestChain is counted by    *)
(* waiting.                                                                *)
(***************************************************************************)
EXTENDS Naturals, FiniteSets

CONSTANTS
    Blocks, Genesis,
    Parent,        \* CBlockIndex::pprev
    Ancestors,     \* a block and every block below it
    Work,          \* CBlockIndex::nChainWork
    Malformed,     \* the blocks ContextualCheckBlock refuses
    Invalid,       \* the blocks ConnectBlock refuses
    Null,
    MaxThreads,    \* bound on the threads waiting for ActivateBestChain
    MaxCalls,      \* bound on the invalidateblock and reconsiderblock calls
    MaxRestarts,   \* bound on the restarts
    InvalidateMidway,  \* invalidateblock may come between two rounds of
                       \* ActivateBestChain's outer loop
    ReconsiderBelow    \* reconsiderblock may be given a block whose parent
                       \* is marked failed

VARIABLES
    header, data, linked, rank, failed, failedChild, unsaved,
    candidates,    \* setBlockIndexCandidates
    unlinked,      \* mapBlocksUnlinked: its values
    tip,           \* chainActive.Tip()
    pc, mostWork, startTip, oldTip, connected, waiting,
    asserted,      \* the assertions on the way have held
    calls, restarts

treeVars  == <<header, data, linked, rank, unlinked>>
flagVars  == <<failed, failedChild, unsaved>>
stepVars  == <<startTip, oldTip, connected>>
boundVars == <<calls, restarts>>
vars == <<treeVars, flagVars, candidates, tip, pc, mostWork, stepVars, waiting,
          asserted, boundVars>>

ASSUME TreeAssumption ==
    /\ Genesis \in Blocks
    /\ Null \notin Blocks
    /\ Parent \in [Blocks -> Blocks \cup {Null}]
    /\ Ancestors \in [Blocks -> SUBSET Blocks]
    /\ \A b \in Blocks : /\ (Parent[b] = Null) <=> (b = Genesis)
                         /\ b # Genesis => /\ Ancestors[b] = Ancestors[Parent[b]] \cup {b}
                                           /\ b \notin Ancestors[Parent[b]]
    /\ Ancestors[Genesis] = {Genesis}

ASSUME WorkAssumption ==
    /\ Work \in [Blocks -> Nat]
    /\ \A b \in Blocks \ {Genesis} : Work[b] > Work[Parent[b]]

ASSUME ValidityAssumption ==
    /\ Malformed \subseteq Blocks \ {Genesis}
    /\ Invalid \subseteq Blocks \ {Genesis}

ASSUME BoundAssumption ==
    /\ MaxThreads \in Nat \ {0}
    /\ MaxCalls \in Nat
    /\ MaxRestarts \in Nat
    /\ InvalidateMidway \in BOOLEAN
    /\ ReconsiderBelow \in BOOLEAN

-----------------------------------------------------------------------------
(* The block tree.                                                          *)

\* BLOCK_FAILED_MASK
Failed == failed \cup failedChild

\* The blocks of the active chain; none before the genesis block is connected.
Active == IF tip = Null THEN {} ELSE Ancestors[tip]

\* CBlockIndexWorkComparator: less work, or the same work and linked later.
Worse(r, x, y) == \/ Work[x] < Work[y]
                  \/ Work[x] = Work[y] /\ r[x] > r[y]

\* The blocks of S as good as t or better.
AtLeast(r, S, t) == {x \in S : t = Null \/ ~Worse(r, x, t)}

\* The same without the tip itself.
BetterOnly(r, S, t) == {x \in S : t = Null \/ Worse(r, t, x)}

\* A pruning that drops the tip too.
PruneTipToo(C, t) == BetterOnly(rank, C, t)

\* The candidates PruneBlockIndexCandidates keeps once t is the tip.
Prune(C, t) == AtLeast(rank, C, t)

\* A link that leaves the waiting descendants where they are.
NowLinkedAlone(b) == {b}

\* b and the descendants that waited in mapBlocksUnlinked for its data.
NowLinked(b) ==
    {b} \cup {x \in unlinked : b \in Ancestors[x] /\ Ancestors[x] \ Ancestors[b] \subseteq unlinked}

\* The orders in which the queue of ReceivedBlockTransactions can give the
\* blocks of L their nSequenceId: a block comes after its parent.
Numberings(L) ==
    LET n == Cardinality(linked) IN
    {r \in [L -> (n + 1)..(n + Cardinality(L))] :
        \A x, y \in L : /\ r[x] = r[y] => x = y
                        /\ y \in Ancestors[x] => r[y] <= r[x]}

-----------------------------------------------------------------------------
(* Blocks arrive.                                                           *)

\* cs_main is free for a thread that is not the one in ActivateBestChain;
\* the node takes blocks and calls once its genesis block is connected.
MainFree == pc \in {"idle", "loop"} /\ tip # Null

\* The thread goes on to call ActivateBestChain.
CallActivate == waiting < MaxThreads /\ waiting' = waiting + 1

\* GetPrevIndex and the duplicate check of AcceptBlockHeader.
HeaderOK(b) ==
    /\ Parent[b] \in header \ Failed
    /\ b \notin Failed

\* AcceptBlockHeader, from a headers message, or from an AcceptBlock that then
\* refuses the block without marking it (the checks of a proof-of-stake fork).
AcceptBlockHeader(b) ==
    /\ MainFree
    /\ b \notin header
    /\ HeaderOK(b)
    /\ header' = header \cup {b}
    /\ UNCHANGED <<data, linked, rank, unlinked, flagVars, candidates, tip, pc, mostWork,
                   stepVars, waiting, asserted, boundVars>>

\* AcceptBlock of a block that ContextualCheckBlock refuses.
AcceptMalformed(b) ==
    /\ MainFree
    /\ b \in Malformed
    /\ HeaderOK(b)
    /\ header' = header \cup {b}
    /\ failed' = failed \cup {b}
    /\ UNCHANGED <<data, linked, rank, unlinked, failedChild, unsaved, candidates, tip, pc,
                   mostWork, stepVars, waiting, asserted, boundVars>>

\* ReceivedBlockTransactions of a block whose parent is linked.
LinkBlock(b) ==
    LET L == NowLinked(b) IN
    \E r \in Numberings(L) :
        /\ rank' = [x \in Blocks |-> IF x \in L THEN r[x] ELSE rank[x]]
        /\ linked' = linked \cup L
        /\ unlinked' = unlinked \ L
        /\ candidates' = candidates \cup AtLeast(rank', L, tip)

\* ReceivedBlockTransactions that makes every block a candidate on arrival.
QueueAsCandidate(b) ==
    /\ unlinked' = unlinked \cup {b}
    /\ candidates' = candidates \cup {b}
    /\ UNCHANGED <<linked, rank>>

\* ReceivedBlockTransactions of a block whose parent still waits for data.
QueueUnlinked(b) ==
    /\ unlinked' = unlinked \cup {b}
    /\ UNCHANGED <<linked, rank, candidates>>

\* AcceptBlock and, after it, ReceivedBlockTransactions.
AcceptBlock(b) ==
    /\ MainFree
    /\ b \notin data \cup Malformed
    /\ HeaderOK(b)
    /\ header' = header \cup {b}
    /\ data' = data \cup {b}
    /\ IF Parent[b] \in linked THEN LinkBlock(b) ELSE QueueUnlinked(b)
    /\ CallActivate
    /\ UNCHANGED <<flagVars, tip, pc, mostWork, stepVars, asserted, boundVars>>

-----------------------------------------------------------------------------
(* The invalidateblock and reconsiderblock calls.                           *)

CountCall == calls < MaxCalls /\ calls' = calls + 1

\* The part of the active chain that InvalidateBlock(b) disconnects.
Cut(b) == IF b \in Active THEN Active \ Ancestors[Parent[b]] ELSE {}

\* The candidates InvalidateBlock leaves when it does not look for the blocks
\* that the shorter chain makes as good as the tip.
InvalidatedKept(b) == candidates \ (Cut(b) \cup {b})

\* The candidates InvalidateBlock leaves: every block that is not itself
\* marked and is as good as the new tip is put back.
InvalidatedCandidates(b) ==
    LET cut == Cut(b) \cup {b}
        t == IF b \in Active THEN Parent[b] ELSE tip
    IN (candidates \ cut) \cup AtLeast(rank, linked \ (Failed \cup cut), t)

InvalidateBlock(b) ==
    /\ MainFree
    /\ InvalidateMidway \/ mostWork = Null
    /\ b \in header \ {Genesis}
    /\ failed' = failed \cup {b}
    /\ failedChild' = failedChild \cup Cut(b)
    /\ unsaved' = unsaved \ (Cut(b) \cup {b})
    /\ candidates' = InvalidatedCandidates(b)
    /\ tip' = IF b \in Active THEN Parent[b] ELSE tip
    /\ CallActivate
    /\ CountCall
    /\ UNCHANGED <<treeVars, pc, mostWork, stepVars, asserted, restarts>>

\* Putting back the block itself only.
RestoredAlone(b) == Failed \cap {b}

\* The blocks ReconsiderBlock(b) puts back: the marked descendants of b.
Restored(b) == {x \in Failed : b \in Ancestors[x]}

\* The blocks given to reconsiderblock.
Reconsiderable ==
    {x \in header : ReconsiderBelow \/ Failed \cap Ancestors[x] \subseteq {x}}

ReconsiderBlock(b) ==
    /\ MainFree
    /\ b \in Reconsiderable
    /\ LET cleared == Restored(b) \cup Ancestors[b] IN
       /\ failed' = failed \ cleared
       /\ failedChild' = failedChild \ cleared
       /\ unsaved' = unsaved \ cleared
    /\ candidates' = candidates \cup BetterOnly(rank, Restored(b) \cap linked, tip)
    /\ CallActivate
    /\ CountCall
    /\ UNCHANGED <<treeVars, tip, pc, mostWork, stepVars, asserted, restarts>>

-----------------------------------------------------------------------------
(* ActivateBestChain.                                                       *)

\* The thread takes m_cs_chainstate.
EnterActivate ==
    /\ pc = "idle"
    /\ waiting > 0
    /\ waiting' = waiting - 1
    /\ pc' = "loop"
    /\ mostWork' = Null
    /\ UNCHANGED <<treeVars, flagVars, candidates, tip, stepVars, asserted, boundVars>>

\* A round of the outer loop: it takes cs_main.
BeginRound ==
    /\ pc = "loop"
    /\ pc' = "find"
    /\ startTip' = tip
    /\ connected' = FALSE
    /\ UNCHANGED <<treeVars, flagVars, candidates, tip, mostWork, oldTip, waiting, asserted,
                   boundVars>>

\* The first element of setBlockIndexCandidates.
WorstCandidate == CHOOSE c \in candidates : \A d \in candidates : ~Worse(rank, d, c)

\* The last element of setBlockIndexCandidates.
BestCandidate == CHOOSE c \in candidates : \A d \in candidates : ~Worse(rank, c, d)

\* The blocks on the way from the active chain to c.
Path(c) == Ancestors[c] \ Active

\* The blocks of the path that make c unusable, when only the mark of c
\* itself is looked at.
UnusableByFlag(c) == Path(c) \cap Failed \cap {c}

\* The blocks of the path that make c unusable.
Unusable(c) == Path(c) \cap Failed

\* The end of a round: cs_main is released, and the loop goes on unless the
\* tip is the block it was working towards.
Release(m) ==
    /\ pc' = IF m = tip THEN "idle" ELSE "loop"
    /\ mostWork' = IF m = tip THEN Null ELSE m
    /\ startTip' = Null /\ oldTip' = Null /\ connected' = FALSE

\* FindMostWorkChain takes the best candidate.
FindMostWorkChain ==
    /\ pc = "find"
    /\ mostWork = Null
    /\ candidates # {}
    /\ Unusable(BestCandidate) = {}
    /\ mostWork' = BestCandidate
    /\ asserted' = (asserted /\ Path(BestCandidate) \subseteq linked)
    /\ UNCHANGED <<treeVars, flagVars, candidates, tip, pc, stepVars, waiting, boundVars>>

\* FindMostWorkChain meets a marked block on the way to the best candidate,
\* marks what is above it, drops the chain and looks again.
DropFailedChain ==
    /\ pc = "find"
    /\ mostWork = Null
    /\ candidates # {}
    /\ LET c == BestCandidate
           stop == CHOOSE x \in Unusable(c) : Unusable(c) \subseteq Ancestors[x]
           above == Ancestors[c] \ Ancestors[stop]
       IN /\ Unusable(c) # {}
          /\ failedChild' = failedChild \cup above
          /\ unsaved' = unsaved \cup above
          /\ candidates' = candidates \ (above \cup {stop})
          /\ asserted' = (asserted /\ above \cup {stop} \subseteq linked)
    /\ UNCHANGED <<treeVars, failed, tip, pc, mostWork, stepVars, waiting, boundVars>>

\* There is nothing to do, or nothing left to do in this round.
NothingToDo ==
    /\ pc = "find"
    /\ \/ mostWork = Null /\ candidates = {}
       \/ mostWork # Null /\ mostWork = tip
    /\ Release(IF connected THEN mostWork ELSE tip)
    /\ UNCHANGED <<treeVars, flagVars, candidates, tip, waiting, asserted, boundVars>>

\* ActivateBestChainStep begins.
BeginStep ==
    /\ pc = "find"
    /\ mostWork \notin {Null, tip}
    /\ pc' = "step"
    /\ oldTip' = tip
    /\ UNCHANGED <<treeVars, flagVars, candidates, tip, mostWork, startTip, connected, waiting,
                   asserted, boundVars>>

\* The tip is not below the block the step works towards: DisconnectTip.
DisconnectTip ==
    /\ pc = "step"
    /\ ~(Active \subseteq Ancestors[mostWork])
    /\ tip' = Parent[tip]
    /\ UNCHANGED <<treeVars, flagVars, candidates, pc, mostWork, stepVars, waiting, asserted,
                   boundVars>>

\* The next block towards mostWork.
NextBlock == CHOOSE b \in Path(mostWork) : Parent[b] = tip

\* ConnectTip of a block that ConnectBlock accepts; PruneBlockIndexCandidates;
\* the step ends at mostWork or as soon as the chain is better than it was.
ConnectTip ==
    /\ pc = "step"
    /\ Active \subseteq Ancestors[mostWork]
    /\ tip # mostWork
    /\ NextBlock \notin Invalid
    /\ tip' = NextBlock
    /\ candidates' = Prune(candidates, NextBlock)
    /\ asserted' = (asserted /\ candidates' # {})
    /\ pc' = IF \/ oldTip = Null
                \/ Work[NextBlock] > Work[oldTip]
                \/ NextBlock = mostWork
             THEN "test" ELSE "step"
    /\ UNCHANGED <<treeVars, flagVars, mostWork, stepVars, waiting, boundVars>>

\* Going on towards the chain that has just failed.
KeepMostWork == mostWork

\* What ActivateBestChain works towards once a block has failed: "Wipe cache,
\* we may need another branch now."
AfterInvalid == Null

\* ConnectTip of a block that ConnectBlock refuses: InvalidBlockFound.
ConnectFails ==
    /\ pc = "step"
    /\ Active \subseteq Ancestors[mostWork]
    /\ tip # mostWork
    /\ NextBlock \in Invalid
    /\ failed' = failed \cup {NextBlock}
    /\ unsaved' = unsaved \ {NextBlock}
    /\ candidates' = candidates \ {NextBlock}
    /\ mostWork' = AfterInvalid
    /\ pc' = "test"
    /\ UNCHANGED <<treeVars, failedChild, tip, stepVars, waiting, asserted, boundVars>>

\* A loop that runs once.
NeverAgain == FALSE

\* The condition of the inner loop: the chain is worse than when the round
\* began.
NoProgress == \/ tip = Null
              \/ startTip # Null /\ Worse(rank, tip, startTip)

\* The end of ActivateBestChainStep.
EndStep ==
    /\ pc = "test"
    /\ IF NoProgress
       THEN pc' = "find" /\ connected' = TRUE /\ UNCHANGED <<mostWork, startTip, oldTip>>
       ELSE Release(mostWork)
    /\ UNCHANGED <<treeVars, flagVars, candidates, tip, waiting, asserted, boundVars>>

-----------------------------------------------------------------------------
(* A restart.                                                               *)

\* A clean shutdown, LoadBlockIndexDB and LoadChainTip.  nSequenceId is not
\* stored: the blocks loaded are ordered by their addresses.  A mark that was
\* not put in setDirtyBlockIndex may be lost.  ThreadImport then calls
\* ActivateBestChain.
Restart ==
    /\ MainFree
    /\ restarts < MaxRestarts
    /\ restarts' = restarts + 1
    /\ \E lost \in SUBSET (unsaved \cap failedChild) : failedChild' = failedChild \ lost
    /\ unsaved' = {}
    /\ \E r \in [linked -> 1..Cardinality(linked)] :
          /\ \A x, y \in linked : r[x] = r[y] => x = y
          /\ rank' = [x \in Blocks |-> IF x \in linked THEN r[x] ELSE 0]
    /\ unlinked' = data \ linked
    /\ candidates' = AtLeast(rank', linked \ (failed \cup failedChild'), tip)
    /\ asserted' = (asserted /\ candidates' # {})
    /\ pc' = "idle"
    /\ mostWork' = Null
    /\ waiting' = 1
    /\ startTip' = Null /\ oldTip' = Null /\ connected' = FALSE
    /\ UNCHANGED <<header, data, linked, failed, tip, calls>>

-----------------------------------------------------------------------------

\* LoadGenesisBlock has run, and LoadChainTip calls ActivateBestChain.
Init ==
    /\ header = {Genesis} /\ data = {Genesis} /\ linked = {Genesis}
    /\ rank = [b \in Blocks |-> IF b = Genesis THEN 1 ELSE 0]
    /\ failed = {} /\ failedChild = {} /\ unsaved = {}
    /\ candidates = {Genesis} /\ unlinked = {}
    /\ tip = Null
    /\ pc = "idle" /\ mostWork = Null /\ waiting = 1
    /\ startTip = Null /\ oldTip = Null /\ connected = FALSE
    /\ asserted = TRUE
    /\ calls = 0 /\ restarts = 0

\* The thread in ActivateBestChain.
Activation ==
    \/ BeginRound \/ FindMostWorkChain \/ DropFailedChain \/ NothingToDo
    \/ BeginStep \/ DisconnectTip \/ ConnectTip \/ ConnectFails
    \/ EndStep

Next ==
    \/ EnterActivate
    \/ Activation
    \/ Restart
    \/ \E b \in Blocks : \/ AcceptBlockHeader(b) \/ AcceptMalformed(b) \/ AcceptBlock(b)
                         \/ InvalidateBlock(b) \/ ReconsiderBlock(b)

Spec == Init /\ [][Next]_vars

\* The thread in ActivateBestChain runs on, and a thread that waits for
\* m_cs_chainstate is woken when it is free.
FairSpec == Spec /\ WF_vars(Activation) /\ WF_vars(EnterActivate)

-----------------------------------------------------------------------------
(* Properties.                                                              *)

\* Every variable has its type: a linked block has its data and a header,
\* only blocks with data wait in mapBlocksUnlinked, and only linked blocks are
\* candidates ("all CBlockIndex entries with BLOCK_VALID_TRANSACTIONS (for
\* itself and all ancestors)", validation.cpp:140).
TypeOK ==
    /\ Genesis \in linked /\ linked \subseteq data /\ data \subseteq header
    /\ header \subseteq Blocks
    /\ rank \in [Blocks -> Nat]
    /\ \A b \in Blocks : rank[b] = 0 <=> b \notin linked
    /\ failed \subseteq header /\ failedChild \subseteq header
    /\ unsaved \subseteq failedChild
    /\ candidates \subseteq linked
    /\ unlinked \subseteq data \ linked
    /\ {tip, mostWork, startTip, oldTip} \subseteq linked \cup {Null}
    /\ pc \in {"idle", "loop", "find", "step", "test"}
    /\ connected \in BOOLEAN
    /\ asserted \in BOOLEAN
    /\ waiting \in 0..MaxThreads
    /\ calls \in 0..MaxCalls
    /\ restarts \in 0..MaxRestarts

\* The assertions of FindMostWorkChain (the blocks on the way to a candidate
\* are linked) and of PruneBlockIndexCandidates hold: "Either the current tip
\* or a successor of it we're working towards is left in
\* setBlockIndexCandidates" (validation.cpp:2033).
CandidatesLeft == asserted

\* Whenever cs_main is free, what CheckBlockIndex asserts of the failure marks
\* holds: "The failed mask cannot be set for blocks without invalid parents"
\* (validation.cpp:3870).  It does not hold once reconsiderblock is given a
\* block above a marked one, whose other descendants keep their marks.
MarksHaveACause ==
    pc \in {"idle", "loop"} => \A b \in Failed : Ancestors[b] \cap failed # {}

\* The marks that no invalid ancestor explains.
Orphaned == {b \in Failed : Ancestors[b] \cap failed = {}}

\* Whatever is called and when, nothing but a reconsiderblock of a block above
\* a marked one begins to leave marks without a cause: any other step of any
\* thread, and a restart, leaves or makes them only above one there was before.
MarksKeepTheirCause ==
    [][\/ \E x \in Blocks : ReconsiderBlock(x) /\ ~(Failed \cap Ancestors[x] \subseteq {x})
       \/ \A b \in Orphaned' : Ancestors[b] \cap Orphaned # {}]_vars

\* Whenever cs_main is free, what CheckBlockIndex asserts of the candidates
\* holds: a block with all its data and no invalid ancestor is a candidate
\* exactly if it sorts at least as good as the tip; a candidate never sorts
\* worse.
CandidatesAreTheGoodBlocks ==
    (pc \in {"idle", "loop"} /\ tip # Null) =>
        /\ candidates \subseteq AtLeast(rank, linked, tip)
        /\ {b \in AtLeast(rank, linked, tip) : Ancestors[b] \cap failed = {}} \subseteq candidates

\* Whenever cs_main is free, what CheckBlockIndex asserts of nChainTx and of
\* mapBlocksUnlinked holds: a block is linked exactly if it and its ancestors
\* have their data, and one that has data, misses an ancestor's and has no
\* invalid ancestor waits in mapBlocksUnlinked.
UnlinkedBlocksWait ==
    pc \in {"idle", "loop"} =>
        /\ linked = {b \in header : Ancestors[b] \subseteq data}
        /\ {b \in data \ linked : Ancestors[b] \cap failed = {}} \subseteq unlinked

\* The active chain holds no block that is marked failed: neither a block
\* ConnectBlock refused nor one that invalidateblock excluded comes back.
ActiveChainIsValid == Active \cap Failed = {}

\* When every call of ActivateBestChain has returned, no block that could be
\* activated (all data present, no marked ancestor) is better than the tip.
BestChainIsActive ==
    (pc = "idle" /\ waiting = 0) =>
        \A b \in linked : Ancestors[b] \cap Failed = {} => ~Worse(rank, tip, b)

\* "We absolutely may not unlock cs_main until we've made forward progress"
\* (validation.cpp:2166): a round of ActivateBestChain never leaves a tip that
\* is worse than the one it began with.
ForwardProgress ==
    [][(pc \notin {"idle", "loop"} /\ pc' \in {"idle", "loop"} /\ startTip # Null)
          => ~Worse(rank, tip, startTip)]_vars

\* Every call of ActivateBestChain returns.
ActivationEnds == (pc # "idle") ~> (pc = "idle")

\* In whatever order the data of blocks came, the tip is again and again as
\* good as every block whose chain has its data, holds no block ConnectBlock
\* refuses, and bears no mark of an invalidateblock.
ValidBlocksAreActivated ==
    []<>(/\ tip # Null
         /\ \A b \in Blocks :
               (Ancestors[b] \subseteq data /\ Ancestors[b] \cap (Invalid \cup Failed) = {})
                   => ~Worse(rank, tip, b))
=============================================================================
