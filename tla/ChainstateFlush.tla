--------------------------- MODULE ChainstateFlush ---------------------------
(***************************************************************************)
(* How the chain state reaches the disk and survives a crash:              *)
(* FlushStateToDisk and its callers, CCoinsViewDB::BatchWrite, and what a  *)
(* node does when it starts (LoadBlockIndexDB, ReplayBlocks, LoadChainTip).*)
(*                                                                         *)
(*   db          the chainstate database: coins, Sapling state, and either *)
(*               DB_BEST_BLOCK (best) or DB_HEAD_BLOCKS (new, old)         *)
(*   synced      the part of it a power loss cannot take: CDBWrapper       *)
(*               writes its batches to the log without fsync               *)
(*   diskIndex,  the block index database: the blocks it knows, and the    *)
(*   diskUndo    undo data its entries point to                            *)
(*   memIndex, memUndo, dirty   mapBlockIndex and setDirtyBlockIndex       *)
(*   coins, sap  what a read of the coin view gives: pcoinsTip while the   *)
(*               node runs, the local cache of ReplayBlocks before that    *)
(*                                                                         *)
(* A coin is named by the block that created it.  Utxo[b] is the set of    *)
(* unspent coins after b, so the blocks of this module are those that      *)
(* ConnectBlock accepts on top of their parent: the others never get as    *)
(* far as the coin view.                                                   *)
(***************************************************************************)
EXTENDS Naturals

CONSTANTS
    Blocks, Genesis,
    Parent,        \* CBlockIndex::pprev
    Ancestors,     \* a block and every block below it
    Outpoints,
    Inputs,        \* the prevouts of a block's transactions
    Outputs,       \* the outputs a block's transactions create
    Utxo,
    Shielded,      \* the blocks with Sapling spends and outputs
    Null, Spent, NoUndo,
    MaxCrashes     \* bound on the crashes of a behaviour

VARIABLES
    db, synced, diskIndex, diskUndo,
    phase, coins, sap, tip, memIndex, memUndo, dirty,
    cur,           \* ReplayBlocks: the block the cache has been taken to
    pending,       \* BatchWrite: the outpoints it has not yet come to
    headsAsserted, \* BatchWrite's assert(old_heads[0] == hashBlock) held
    crashes

diskVars == <<db, synced, diskIndex, diskUndo>>
indexVars == <<memIndex, memUndo, dirty>>
memVars  == <<phase, coins, sap, tip, memIndex, memUndo, dirty, cur, pending>>
vars     == <<diskVars, memVars, headsAsserted, crashes>>

CoinMap == [Outpoints -> Blocks \cup {Spent}]
Sapling == [root : SUBSET Blocks, anchors : SUBSET SUBSET Blocks,
            nfs : SUBSET Blocks]
Database == [coins : CoinMap, sap : Sapling, best : Blocks \cup {Null},
             new : Blocks \cup {Null}, old : Blocks \cup {Null}]

ASSUME TreeAssumption ==
    /\ Genesis \in Blocks
    /\ Null \notin Blocks
    /\ Spent \notin Blocks
    /\ NoUndo \notin CoinMap
    /\ Parent \in [Blocks -> Blocks \cup {Null}]
    /\ \A b \in Blocks : Parent[b] = Null <=> b = Genesis
    /\ Ancestors \in [Blocks -> SUBSET Blocks]
    /\ Ancestors[Genesis] = {Genesis}
    /\ \A b \in Blocks \ {Genesis} : Ancestors[b] = {b} \cup Ancestors[Parent[b]]
    /\ \A b \in Blocks : Genesis \in Ancestors[b]
    /\ Shielded \subseteq Blocks \ {Genesis}
    /\ MaxCrashes \in Nat

(* ConnectBlock requires the inputs of a block to be unspent, or its own.   *)
(* That its outputs are new it does not test: a transaction id is taken to  *)
(* be unique.  The genesis block's coinbase never enters the view.          *)
ASSUME UtxoAssumption ==
    /\ Inputs \in [Blocks -> SUBSET Outpoints]
    /\ Outputs \in [Blocks -> SUBSET Outpoints]
    /\ Utxo \in [Blocks \cup {Null} -> CoinMap]
    /\ Utxo[Null] = [o \in Outpoints |-> Spent]
    /\ Utxo[Genesis] = [o \in Outpoints |-> Spent]
    /\ \A b \in Blocks \ {Genesis}, o \in Outpoints :
         /\ Utxo[b][o] = IF o \in Inputs[b] THEN Spent
                         ELSE IF o \in Outputs[b] THEN b ELSE Utxo[Parent[b]][o]
         /\ o \in Outputs[b] => Utxo[Parent[b]][o] = Spent
         /\ o \in Inputs[b] => o \in Outputs[b] \/ Utxo[Parent[b]][o] # Spent

-----------------------------------------------------------------------------
(* Faulty variants of operators defined below.  Nothing uses them: each is  *)
(* a mistake that one of the properties is there to catch.                  *)

(* The inputs of the block are not restored.                                *)
DisconnectOutputsOnly(b, c, undo) ==
    [o \in Outpoints |-> IF o \in Outputs[b] THEN Spent ELSE c[o]]

(* The best block stays while the coins are half written.                   *)
PartialBatchUnmarked(S) ==
    [coins |-> [o \in Outpoints |-> IF o \in S THEN coins[o] ELSE db.coins[o]],
     sap |-> db.sap, best |-> db.best, new |-> db.new, old |-> db.old]

(* The heads in the wrong order.                                            *)
PartialBatchSwapped(S) ==
    [coins |-> [o \in Outpoints |-> IF o \in S THEN coins[o] ELSE db.coins[o]],
     sap |-> db.sap, best |-> Null, new |-> db.best, old |-> tip]

(* The heads are not erased.                                                *)
FinalBatchKeepsHeads ==
    [coins |-> [o \in Outpoints |->
                   IF o \in pending THEN coins[o] ELSE db.coins[o]],
     sap |-> sap, best |-> tip, new |-> db.new, old |-> db.old]

(* The coins of the earlier batches are dropped.                            *)
FinalBatchOnly ==
    [coins |-> [o \in pending |-> coins[o]],
     sap |-> sap, best |-> tip, new |-> Null, old |-> Null]

(* Replay ends where the rollback does.                                     *)
ReplayDoneAtFork == cur \in Ancestors[db.new]

(* The undo positions do not reach the index.                               *)
WriteIndexWithoutUndo ==
    /\ diskIndex' = diskIndex \cup dirty
    /\ diskUndo' = diskUndo
    /\ dirty' = {}

-----------------------------------------------------------------------------
(* What a block does to a view.  Transactions are undone last to first, an  *)
(* output is spent after the inputs of later transactions are restored: an  *)
(* output spent in its own block ends up spent both ways.                   *)

(* UpdateCoins, and RollforwardBlock, over the transactions of a block.     *)
Connect(b, c) ==
    [o \in Outpoints |-> IF o \in Inputs[b] THEN Spent
                         ELSE IF o \in Outputs[b] THEN b ELSE c[o]]

(* The CBlockUndo that UpdateCoins collects.                                *)
UndoData(b, c) ==
    [o \in Outpoints |-> IF o \in Inputs[b] \ Outputs[b] THEN c[o] ELSE Spent]

(* DisconnectBlock's loop, with ApplyTxInUndo.                              *)
Disconnect(b, c, undo) ==
    [o \in Outpoints |-> IF o \in Outputs[b] THEN Spent
                         ELSE IF o \in Inputs[b] THEN undo[o] ELSE c[o]]

(* DISCONNECT_OK: every output was there, no restored input was.            *)
CleanDisconnect(b, c) ==
    \A o \in Outpoints :
        /\ o \in Outputs[b] \ Inputs[b] => c[o] = b
        /\ o \in Inputs[b] => c[o] = Spent

(* CCoinsViewCache::HaveInputs, for each transaction of the block.          *)
HaveInputs(b, c) ==
    \A o \in Inputs[b] : o \in Outputs[b] \/ c[o] # Spent

(* A commitment tree is the set of the blocks whose notes it holds.  This   *)
(* is hashFinalSaplingRoot in the header of b.                              *)
FinalRoot(b) == Ancestors[b] \cap Shielded

EmptySapling == [root |-> {}, anchors |-> {}, nfs |-> {}]

(* The Sapling state that belongs to a chain ending in b.                   *)
SaplingOf(b) ==
    IF b = Null THEN EmptySapling
    ELSE [root    |-> FinalRoot(b),
          anchors |-> {FinalRoot(a) : a \in Ancestors[b]} \ {{}},
          nfs     |-> FinalRoot(b)]

(* GetSaplingAnchorAt(GetBestAnchor()) succeeds.                            *)
TreeKnown(s) == s.root = {} \/ s.root \in s.anchors

(* The Sapling checks of ConnectBlock, SetNullifiers and PushAnchor.        *)
ShieldedOK(b, s) ==
    /\ b \in Shielded => b \notin s.nfs
    /\ s.root \cup ({b} \cap Shielded) = FinalRoot(b)

ConnectSapling(b, s) ==
    LET root == s.root \cup ({b} \cap Shielded)
    IN  [root    |-> root,
         anchors |-> s.anchors \cup ({root} \ {s.root}),
         nfs     |-> s.nfs \cup ({b} \cap Shielded)]

(* SetNullifiers(tx, false) and PopAnchor in DisconnectBlock.               *)
DisconnectSapling(b, s) ==
    LET root == FinalRoot(Parent[b])
    IN  [root    |-> root,
         anchors |-> IF s.root = root THEN s.anchors ELSE s.anchors \ {s.root},
         nfs     |-> s.nfs \ {b}]

(* BringBestAnchorIntoCache asserts that the tree it leaves is there.       *)
PopAsserts(b, s) == s.root # FinalRoot(Parent[b]) /\ ~ TreeKnown(s)

-----------------------------------------------------------------------------
(* CCoinsViewDB::BatchWrite                                                 *)

OldTip == IF db.best # Null THEN db.best ELSE db.old

(* A batch of the loop over the coins.  The first one also takes the best   *)
(* block away and puts the two heads in its place.                          *)
PartialBatch(S) ==
    [coins |-> [o \in Outpoints |-> IF o \in S THEN coins[o] ELSE db.coins[o]],
     sap   |-> db.sap,
     best  |-> Null,
     new   |-> tip,
     old   |-> OldTip]

FinalBatch ==
    [coins |-> [o \in Outpoints |->
                   IF o \in pending THEN coins[o] ELSE db.coins[o]],
     sap   |-> sap,
     best  |-> tip,
     new   |-> Null,
     old   |-> Null]

(* The assertion on the heads, for hashBlock = t.                           *)
HeadsAgree(t) == db.best = Null /\ db.new # Null => db.new = t

(* Entered with hashBlock = t.                                              *)
OpenBatch(t) ==
    /\ pending' = IF HeadsAgree(t) THEN Outpoints ELSE {}
    /\ headsAsserted' = (headsAsserted /\ HeadsAgree(t))

-----------------------------------------------------------------------------
(* The node at work.  cs_main is held by each of these, and all through a   *)
(* flush: a flush is several steps only because a crash may come between    *)
(* them.                                                                    *)

(* LoadGenesisBlock adds the genesis block to an index that lacks it.       *)
Startup ==
    /\ phase \in {"down", "refused"}
    /\ memIndex' = diskIndex \cup {Genesis}
    /\ memUndo' = diskUndo
    /\ dirty' = {Genesis} \ diskIndex
    /\ coins' = db.coins
    /\ sap' = db.sap
    /\ tip' = Null
    /\ cur' = IF db.old = Null THEN Genesis ELSE db.old
    /\ phase' = IF db.new = Null THEN "load"
                ELSE IF {db.new, db.old} \subseteq memIndex' \cup {Null}
                     THEN "replay" ELSE "refused"
    /\ UNCHANGED <<diskVars, pending, headsAsserted, crashes>>

(* ReplayBlocks, rolling back: the walk from the old tip stops at the first *)
(* block of the new chain, LastCommonAncestor.                              *)
RollBack ==
    /\ phase = "replay"
    /\ cur \notin Ancestors[db.new]
    /\ IF cur \notin memIndex \/ memUndo[cur] = NoUndo
       THEN phase' = "refused" /\ UNCHANGED <<coins, sap, cur>>
       ELSE IF PopAsserts(cur, sap)
       THEN phase' = "down" /\ UNCHANGED <<coins, sap, cur>>
       ELSE /\ coins' = Disconnect(cur, coins, memUndo[cur])
            /\ sap' = DisconnectSapling(cur, sap)
            /\ cur' = Parent[cur]
            /\ UNCHANGED phase
    /\ UNCHANGED <<diskVars, tip, indexVars, pending, headsAsserted, crashes>>

(* RollforwardBlock: the coins of the block, and nothing of its Sapling     *)
(* part.                                                                    *)
RollForward ==
    /\ phase = "replay"
    /\ cur # db.new
    /\ \E b \in Ancestors[db.new] :
         /\ Parent[b] = cur
         /\ IF b \notin memIndex
            THEN phase' = "refused" /\ UNCHANGED <<coins, cur>>
            ELSE coins' = Connect(b, coins) /\ cur' = b /\ UNCHANGED phase
    /\ UNCHANGED <<diskVars, sap, tip, indexVars, pending, headsAsserted,
                   crashes>>

(* Nothing is left to roll back or forward.                                 *)
ReplayDone == cur = db.new

(* The end of ReplayBlocks: SetBestBlock and Flush.                         *)
ReplayFlush ==
    /\ phase = "replay"
    /\ ReplayDone
    /\ tip' = cur
    /\ phase' = "replayflush"
    /\ OpenBatch(cur)
    /\ UNCHANGED <<diskVars, coins, sap, indexVars, cur, crashes>>

(* A new pcoinsTip over the database.  An empty one has no tip to load:     *)
(* the chain is activated from the genesis block.                           *)
LoadChainTip ==
    /\ phase = "load"
    /\ phase' = IF db.best \in memIndex \cup {Null} THEN "run" ELSE "refused"
    /\ tip' = db.best
    /\ UNCHANGED <<diskVars, coins, sap, indexVars, cur, pending,
                   headsAsserted, crashes>>

(* AcceptBlock: the block is stored and indexed, its entry is dirty.        *)
AcceptBlock(b) ==
    /\ phase = "run"
    /\ tip # Null
    /\ b \notin memIndex
    /\ Parent[b] \in memIndex
    /\ memIndex' = memIndex \cup {b}
    /\ dirty' = dirty \cup {b}
    /\ UNCHANGED <<diskVars, phase, coins, sap, tip, memUndo, cur, pending,
                   headsAsserted, crashes>>

ConnectGenesis ==
    /\ phase = "run"
    /\ tip = Null
    /\ tip' = Genesis
    /\ UNCHANGED <<diskVars, phase, coins, sap, indexVars, cur, pending,
                   headsAsserted, crashes>>

(* ConnectTip.  Undo data is written once in the life of an index entry.    *)
ConnectTip(b) ==
    /\ phase = "run"
    /\ tip # Null
    /\ b \in memIndex
    /\ Parent[b] = tip
    /\ TreeKnown(sap)
    /\ HaveInputs(b, coins)
    /\ ShieldedOK(b, sap)
    /\ coins' = Connect(b, coins)
    /\ sap' = ConnectSapling(b, sap)
    /\ tip' = b
    /\ IF memUndo[b] = NoUndo
       THEN /\ memUndo' = [memUndo EXCEPT ![b] = UndoData(b, coins)]
            /\ dirty' = dirty \cup {b}
       ELSE UNCHANGED <<memUndo, dirty>>
    /\ UNCHANGED <<diskVars, phase, memIndex, cur, pending, headsAsserted,
                   crashes>>

DisconnectTip ==
    /\ phase = "run"
    /\ tip \notin {Null, Genesis}
    /\ memUndo[tip] # NoUndo
    /\ CleanDisconnect(tip, coins)
    /\ ~ PopAsserts(tip, sap)
    /\ coins' = Disconnect(tip, coins, memUndo[tip])
    /\ sap' = DisconnectSapling(tip, sap)
    /\ tip' = Parent[tip]
    /\ UNCHANGED <<diskVars, phase, indexVars, cur, pending, headsAsserted,
                   crashes>>

(* WriteBatchSync of the dirty index entries, after FlushBlockFile.         *)
WriteIndex ==
    /\ diskIndex' = diskIndex \cup dirty
    /\ diskUndo' = [b \in Blocks |-> IF b \in dirty THEN memUndo[b]
                                     ELSE diskUndo[b]]
    /\ dirty' = {}

(* FlushStateToDisk when only fPeriodicWrite is set.                        *)
PeriodicWrite ==
    /\ phase = "run"
    /\ WriteIndex
    /\ UNCHANGED <<db, synced, phase, coins, sap, tip, memIndex, memUndo, cur,
                   pending, headsAsserted, crashes>>

(* StartShutdown; Shutdown() then flushes.                                  *)
StartShutdown ==
    /\ phase = "run"
    /\ phase' = "stop"
    /\ UNCHANGED <<diskVars, coins, sap, tip, indexVars, cur, pending,
                   headsAsserted, crashes>>

(* The process is gone: what it had in memory means nothing any more.       *)
ProcessGone ==
    /\ phase' = "down"
    /\ coins' = db'.coins
    /\ sap' = db'.sap
    /\ tip' = Null
    /\ memIndex' = {}
    /\ memUndo' = [b \in Blocks |-> NoUndo]
    /\ dirty' = {}
    /\ cur' = Null
    /\ pending' = {}

(* FlushStateToDisk with a full flush: the index first, then the coins.     *)
(* BatchWrite's assertion ends the process when it fails.                   *)
FullFlush ==
    /\ phase \in {"run", "stop"}
    /\ tip # Null
    /\ WriteIndex
    /\ OpenBatch(tip)
    /\ db' = db
    /\ IF HeadsAgree(tip)
       THEN /\ phase' = IF phase = "run" THEN "flush" ELSE "stopflush"
            /\ UNCHANGED <<coins, sap, tip, memIndex, memUndo, cur>>
       ELSE ProcessGone
    /\ UNCHANGED <<synced, crashes>>

(* A shutdown before there is a tip: pcoinsTip's best block is null and     *)
(* only the index is written.                                               *)
ShutdownEmpty ==
    /\ phase = "stop"
    /\ tip = Null
    /\ WriteIndex
    /\ phase' = "down"
    /\ UNCHANGED <<db, synced, coins, sap, tip, memIndex, memUndo, cur,
                   pending, headsAsserted, crashes>>

WritePartial(S) ==
    /\ phase \in {"flush", "stopflush", "replayflush"}
    /\ S # {}
    /\ db' = PartialBatch(S)
    /\ pending' = pending \ S
    /\ UNCHANGED <<synced, diskIndex, diskUndo, phase, coins, sap, tip,
                   indexVars, cur, headsAsserted, crashes>>

AfterFlush == [flush |-> "run", stopflush |-> "down", replayflush |-> "load"]

WriteFinal ==
    /\ phase \in {"flush", "stopflush", "replayflush"}
    /\ db' = FinalBatch
    /\ pending' = {}
    /\ phase' = AfterFlush[phase]
    /\ UNCHANGED <<synced, diskIndex, diskUndo, coins, sap, tip, indexVars,
                   cur, headsAsserted, crashes>>

(* The process dies: every batch it wrote is in the operating system's      *)
(* hands.                                                                   *)
Crash ==
    /\ phase \notin {"down", "refused"}
    /\ crashes < MaxCrashes
    /\ crashes' = crashes + 1
    /\ db' = db
    /\ ProcessGone
    /\ UNCHANGED <<synced, diskIndex, diskUndo, headsAsserted>>

(* The machine dies: the batches since the last write-back are lost.  The   *)
(* index was written with fsync.                                            *)
PowerLoss ==
    /\ crashes < MaxCrashes
    /\ synced # db
    /\ crashes' = crashes + 1
    /\ db' = synced
    /\ ProcessGone
    /\ UNCHANGED <<synced, diskIndex, diskUndo, headsAsserted>>

WriteBack ==
    /\ synced # db
    /\ synced' = db
    /\ UNCHANGED <<db, diskIndex, diskUndo, memVars, headsAsserted, crashes>>

(* ConnectBlock and PopAnchor assert that the tree of the best anchor can   *)
(* be read.                                                                 *)
AnchorAssert ==
    /\ phase = "run"
    /\ tip # Null
    /\ ~ TreeKnown(sap)
    /\ db' = db
    /\ ProcessGone
    /\ UNCHANGED <<synced, diskIndex, diskUndo, headsAsserted, crashes>>

-----------------------------------------------------------------------------
(* A write that fails: CDBWrapper throws, and FlushStateToDisk returns an   *)
(* error after AbortNode.                                                   *)

(* AbortNode only requests the shutdown: the node goes on with the view it  *)
(* has until StartShutdown.  Shutdown() itself flushes twice.  ReplayBlocks *)
(* has no handler, and its initialisation ends.                             *)
AfterError ==
    [run |-> {"run"}, flush |-> {"run"}, stop |-> {"stop", "down"},
     stopflush |-> {"stop", "down"}, replayflush |-> {"down"}]

(* setDirtyBlockIndex was emptied while the batch was filled.               *)
IndexWriteFails ==
    /\ phase \in {"run", "stop"}
    /\ dirty' = {}
    /\ phase' \in AfterError[phase]
    /\ UNCHANGED <<diskVars, coins, sap, tip, memIndex, memUndo, cur, pending,
                   headsAsserted, crashes>>

(* BatchWrite erased each entry of the cache as it put it in the batch: a   *)
(* read of one of them now falls through to the database.                   *)
PartialWriteFails(S) ==
    /\ phase \in {"flush", "stopflush", "replayflush"}
    /\ S # {}
    /\ coins' = [o \in Outpoints |-> IF o \in S THEN db.coins[o] ELSE coins[o]]
    /\ phase' \in AfterError[phase]
    /\ pending' = {}
    /\ UNCHANGED <<diskVars, sap, tip, indexVars, cur, headsAsserted, crashes>>

(* The last batch also held the anchors and the nullifiers; the best anchor *)
(* is a member of the cache and stays.                                      *)
FinalWriteFails ==
    /\ phase \in {"flush", "stopflush", "replayflush"}
    /\ coins' = [o \in Outpoints |->
                    IF o \in pending THEN db.coins[o] ELSE coins[o]]
    /\ sap' = [db.sap EXCEPT !.root = sap.root]
    /\ phase' \in AfterError[phase]
    /\ pending' = {}
    /\ UNCHANGED <<diskVars, tip, indexVars, cur, headsAsserted, crashes>>

-----------------------------------------------------------------------------
EmptyDatabase ==
    [coins |-> Utxo[Null], sap |-> EmptySapling, best |-> Null, new |-> Null,
     old |-> Null]

Init ==
    /\ db = EmptyDatabase
    /\ synced = EmptyDatabase
    /\ diskIndex = {}
    /\ diskUndo = [b \in Blocks |-> NoUndo]
    /\ phase = "down"
    /\ coins = Utxo[Null]
    /\ sap = EmptySapling
    /\ tip = Null
    /\ memIndex = {}
    /\ memUndo = [b \in Blocks |-> NoUndo]
    /\ dirty = {}
    /\ cur = Null
    /\ pending = {}
    /\ headsAsserted = TRUE
    /\ crashes = 0

(* Starting, replaying and finishing a flush: nothing but a crash stops the *)
(* thread that does it.                                                     *)
NodeStep ==
    \/ Startup
    \/ RollBack
    \/ RollForward
    \/ ReplayFlush
    \/ LoadChainTip
    \/ WriteFinal

Next ==
    \/ NodeStep
    \/ \E b \in Blocks : AcceptBlock(b) \/ ConnectTip(b)
    \/ ConnectGenesis
    \/ DisconnectTip
    \/ PeriodicWrite
    \/ StartShutdown
    \/ FullFlush
    \/ ShutdownEmpty
    \/ \E S \in SUBSET pending : WritePartial(S)
    \/ Crash
    \/ PowerLoss
    \/ WriteBack
    \/ AnchorAssert

WriteError ==
    \/ IndexWriteFails
    \/ \E S \in SUBSET pending : PartialWriteFails(S)
    \/ FinalWriteFails

Spec == Init /\ [][Next]_vars

FairSpec == Spec /\ WF_vars(NodeStep)

ErrorSpec == Init /\ [][Next \/ WriteError]_vars

-----------------------------------------------------------------------------
(* Every variable has its type; the database holds a coin or nothing for    *)
(* every outpoint after each batch of BatchWrite.                           *)
TypeOK ==
    /\ db \in Database
    /\ synced \in Database
    /\ diskIndex \in SUBSET Blocks
    /\ diskUndo \in [Blocks -> CoinMap \cup {NoUndo}]
    /\ phase \in {"down", "refused", "load", "replay", "replayflush", "run",
                  "flush", "stop", "stopflush"}
    /\ coins \in CoinMap
    /\ sap \in Sapling
    /\ tip \in Blocks \cup {Null}
    /\ memIndex \in SUBSET Blocks
    /\ memUndo \in [Blocks -> CoinMap \cup {NoUndo}]
    /\ dirty \in SUBSET Blocks
    /\ cur \in Blocks \cup {Null}
    /\ pending \in SUBSET Outpoints
    /\ headsAsserted \in BOOLEAN
    /\ crashes \in 0 .. MaxCrashes

(* The comment in BatchWrite: the last batch marks the database as          *)
(* consistent with hashBlock.  Whatever crashed before, a database with a   *)
(* best block holds exactly the unspent coins of the chain up to it.        *)
BestBlockMeansItsCoins ==
    \A d \in {db, synced} : d.best # Null => d.coins = Utxo[d.best]

(* No crash leaves a disk that LoadBlockIndexDB, ReplayBlocks or            *)
(* LoadChainTip gives up on: the blocks the coin database names are in the  *)
(* index database with their undo data.                                     *)
NeverRefusesToStart == phase # "refused"

(* assert(old_heads[0] == hashBlock) in BatchWrite: a flush over an         *)
(* unfinished transition is always to the block that one was going to.      *)
HeadsMatch == headsAsserted

(* The coin view the node works with is the one of its tip, also after a    *)
(* replay over half-written coins.                                          *)
RunsOnItsTip == phase = "run" => coins = Utxo[tip]

(* A transition once begun on disk is only ever completed: the database     *)
(* never returns to the old tip or moves to a third block (a power loss     *)
(* aside, which undoes the last writes).                                    *)
TransitionsComplete ==
    [][db.new # Null /\ db'.new # db.new => db'.best = db.new \/ db' = synced]_vars

(* ReplayBlocks gets there: a database in the middle of a transition does   *)
(* not stay so, once crashes stop and the node is started again.            *)
InterruptedFlushIsFinished == db.new # Null ~> db.new = Null

(* ReplayBlocks: "Replay blocks that aren't fully applied to the database." *)
(* A database with a best block has the nullifiers and the anchors of that  *)
(* block's chain too.                                                       *)
BestBlockMeansItsSapling == db.best # Null => db.sap = SaplingOf(db.best)
=============================================================================
