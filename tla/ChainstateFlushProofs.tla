----------------------- MODULE ChainstateFlushProofs -----------------------
(***************************************************************************)
(* The safety of ChainstateFlush for every tree of blocks, every set of    *)
(* outpoints and any number of crashes.                                    *)
(*                                                                         *)
(* The argument.  While a transition from old to new is unfinished, every  *)
(* coin on disk has its value in Utxo[old] or in Utxo[new].  Rolling back  *)
(* and forward along the tree keeps every coin of the cache at its value   *)
(* in Utxo[cur] or in Utxo[new]: a block sets the coins it touches and     *)
(* leaves the others, which have the same value on both of its sides.      *)
(* When cur = new the two agree.                                           *)
(***************************************************************************)
EXTENDS ChainstateFlush, TLAPS

\* A leaf is proved by Zenon unless it cites another prover.
USE Zenon

(* Every coin of c has its value before or after a transition.              *)
Between(c, x, y) ==
    \A o \in Outpoints : c[o] = Utxo[x][o] \/ c[o] = Utxo[y][o]

(* The chain up to b can be read, and rolled back, from this index.         *)
Stored(b, index, undo) ==
    \A a \in Ancestors[b] :
        a \in index /\ (a # Genesis => undo[a] # NoUndo)

DatabaseOK(d, index, undo) ==
    /\ d.best # Null => d.new = Null /\ d.coins = Utxo[d.best]
    /\ d.best = Null /\ d.new = Null => d.coins = Utxo[Null]
    /\ d.new = Null => d.old = Null
    /\ d.new # Null => Between(d.coins, d.old, d.new)
    /\ \A b \in {d.best, d.new, d.old} \ {Null} : Stored(b, index, undo)

(* Undo data are the coins the block spent.                                 *)
UndoOK(undo) ==
    \A b \in Blocks : undo[b] # NoUndo =>
        /\ b # Genesis
        /\ \A o \in Inputs[b] \ Outputs[b] : undo[b][o] = Utxo[Parent[b]][o]

Alive == phase \notin {"down", "refused"}

(* An index entry in memory is on disk or dirty.                            *)
IndexOK ==
    Alive =>
        /\ Genesis \in memIndex
        /\ dirty \subseteq memIndex
        /\ diskIndex \subseteq memIndex
        /\ memIndex \subseteq diskIndex \cup dirty
        /\ \A b \in Blocks : memUndo[b] = diskUndo[b]
                             \/ (b \in dirty /\ diskUndo[b] = NoUndo)

ViewOK ==
    /\ phase = "load" => db.new = Null /\ coins = db.coins
    /\ phase = "replay" =>
         /\ db.new # Null
         /\ cur \in Blocks
         /\ Between(coins, cur, db.new)
         /\ cur \notin Ancestors[db.new] => Stored(cur, diskIndex, diskUndo)
    /\ phase \in {"run", "stop"} => db.new = Null
    /\ phase \in {"run", "stop", "flush", "stopflush"} =>
         coins = Utxo[tip] /\ (tip # Null => Stored(tip, memIndex, memUndo))
    /\ phase \in {"flush", "stopflush", "replayflush"} =>
         /\ tip # Null
         /\ coins = Utxo[tip]
         /\ Stored(tip, diskIndex, diskUndo)
         /\ db.new \in {Null, tip}
         /\ \A o \in Outpoints \ pending : db.coins[o] = coins[o]

IInv ==
    /\ TypeOK
    /\ DatabaseOK(db, diskIndex, diskUndo)
    /\ DatabaseOK(synced, diskIndex, diskUndo)
    /\ UndoOK(diskUndo)
    /\ UndoOK(memUndo)
    /\ IndexOK
    /\ ViewOK
    /\ phase # "refused"
    /\ headsAsserted = TRUE

-----------------------------------------------------------------------------
(* The tree, and what a block does to a half-written view.                  *)

(* A block is one of its ancestors, and its parent's ancestors are too.     *)
LEMMA TreeFacts ==
    ASSUME NEW b \in Blocks
    PROVE  /\ b \in Ancestors[b]
           /\ Ancestors[b] \subseteq Blocks
           /\ b # Genesis => /\ Parent[b] \in Blocks
                             /\ Ancestors[Parent[b]] \subseteq Ancestors[b]
BY TreeAssumption, SMT

(* Connecting or rolling forward a block takes a view that is between its   *)
(* parent and y to one between the block and y (RollforwardBlock over coins *)
(* that may already have been written).                                     *)
LEMMA ConnectBetween ==
    ASSUME NEW b \in Blocks \ {Genesis}, NEW y \in Blocks, NEW c \in CoinMap,
           Between(c, Parent[b], y)
    PROVE  Connect(b, c) \in CoinMap /\ Between(Connect(b, c), b, y)
<1>1. Connect(b, c) \in CoinMap
  BY DEF Connect, CoinMap
<1>2. ASSUME NEW o \in Outpoints
      PROVE  Connect(b, c)[o] = Utxo[b][o] \/ Connect(b, c)[o] = Utxo[y][o]
  BY UtxoAssumption, SMT DEF Connect, Between
<1> QED  BY <1>1, <1>2 DEF Between

(* On the coins of its parent a block gives its own.                        *)
LEMMA ConnectExact ==
    ASSUME NEW b \in Blocks \ {Genesis}
    PROVE  Connect(b, Utxo[Parent[b]]) = Utxo[b]
<1>1. Utxo[b] \in CoinMap
  BY UtxoAssumption
<1>2. \A o \in Outpoints : Connect(b, Utxo[Parent[b]])[o] = Utxo[b][o]
  BY UtxoAssumption DEF Connect
<1> QED  BY <1>1, <1>2 DEF Connect, CoinMap

(* Undoing a block takes a view between the block and y to one between its  *)
(* parent and y: DISCONNECT_UNCLEAN may be ignored by ReplayBlocks.         *)
LEMMA DisconnectBetween ==
    ASSUME NEW b \in Blocks \ {Genesis}, NEW y \in Blocks, NEW c \in CoinMap,
           NEW undo \in CoinMap,
           \A o \in Inputs[b] \ Outputs[b] : undo[o] = Utxo[Parent[b]][o],
           Between(c, b, y)
    PROVE  /\ Disconnect(b, c, undo) \in CoinMap
           /\ Between(Disconnect(b, c, undo), Parent[b], y)
<1>1. Disconnect(b, c, undo) \in CoinMap
  BY DEF Disconnect, CoinMap
<1>2. ASSUME NEW o \in Outpoints
      PROVE  \/ Disconnect(b, c, undo)[o] = Utxo[Parent[b]][o]
             \/ Disconnect(b, c, undo)[o] = Utxo[y][o]
  BY UtxoAssumption, SMT DEF Disconnect, Between
<1> QED  BY <1>1, <1>2 DEF Between

(* On its own coins, undoing a block gives those of its parent.             *)
LEMMA DisconnectExact ==
    ASSUME NEW b \in Blocks \ {Genesis}, NEW undo \in CoinMap,
           \A o \in Inputs[b] \ Outputs[b] : undo[o] = Utxo[Parent[b]][o]
    PROVE  Disconnect(b, Utxo[b], undo) = Utxo[Parent[b]]
<1>1. Utxo[Parent[b]] \in CoinMap
  BY UtxoAssumption, TreeFacts, SMT
<1>2. \A o \in Outpoints :
         Disconnect(b, Utxo[b], undo)[o] = Utxo[Parent[b]][o]
  BY UtxoAssumption, SMT DEF Disconnect
<1> QED  BY <1>1, <1>2 DEF Disconnect, CoinMap

(* A view between x and x is the view of x.                                 *)
LEMMA BetweenSame ==
    ASSUME NEW x \in Blocks \cup {Null}, NEW c \in CoinMap, Between(c, x, x)
    PROVE  c = Utxo[x]
BY UtxoAssumption, SMT DEF Between, CoinMap

-----------------------------------------------------------------------------
(* The index: nothing that was stored is lost by writing it.                *)

(* Writing the dirty entries leaves the index on disk equal to the one in   *)
(* memory (WriteBatchSync in FlushStateToDisk).                             *)
LEMMA WriteIndexStores ==
    ASSUME TypeOK, IndexOK, Alive, WriteIndex
    PROVE  /\ diskIndex' = memIndex
           /\ diskUndo' = memUndo
           /\ dirty' = {}
<1>1. diskIndex' = memIndex
  BY DEF IndexOK, WriteIndex
<1>2. \A b \in Blocks : diskUndo'[b] = memUndo[b]
  BY DEF IndexOK, WriteIndex, TypeOK
<1>3. diskUndo' = memUndo
  BY <1>2 DEF WriteIndex, TypeOK
<1> QED  BY <1>1, <1>3 DEF WriteIndex

(* What is stored on disk is stored in memory.                              *)
LEMMA DiskInMemory ==
    ASSUME TypeOK, IndexOK, Alive, NEW b \in Blocks,
           Stored(b, diskIndex, diskUndo)
    PROVE  Stored(b, memIndex, memUndo)
<1> SUFFICES ASSUME NEW a \in Ancestors[b]
             PROVE  a \in memIndex /\ (a # Genesis => memUndo[a] # NoUndo)
  BY DEF Stored
<1>1. a \in Blocks
  BY TreeAssumption
<1> QED  BY <1>1 DEF Stored, IndexOK

(* A database that is sound stays so when the index is written.             *)
LEMMA DatabaseKept ==
    ASSUME TypeOK, IndexOK, Alive, WriteIndex, NEW d \in Database,
           DatabaseOK(d, diskIndex, diskUndo)
    PROVE  DatabaseOK(d, diskIndex', diskUndo')
<1>1. diskIndex' = memIndex /\ diskUndo' = memUndo
  BY WriteIndexStores
<1>2. \A b \in {d.best, d.new, d.old} \ {Null} : Stored(b, diskIndex', diskUndo')
  BY <1>1, DiskInMemory DEF DatabaseOK, Database
<1> QED  BY <1>2 DEF DatabaseOK

-----------------------------------------------------------------------------
(* BatchWrite.                                                              *)

Flushing == phase \in {"flush", "stopflush", "replayflush"}

(* A partial batch leaves every coin on disk at its value before or after   *)
(* the transition that the two heads name.                                  *)
LEMMA PartialBatchOK ==
    ASSUME IInv, Flushing, NEW S \in SUBSET pending
    PROVE  /\ PartialBatch(S) \in Database
           /\ DatabaseOK(PartialBatch(S), diskIndex, diskUndo)
           /\ PartialBatch(S).new = tip
           /\ \A o \in Outpoints \ (pending \ S) :
                 PartialBatch(S).coins[o] = coins[o]
<1> DEFINE d == PartialBatch(S)
<1>1. /\ tip \in Blocks /\ tip # Null
      /\ coins = Utxo[tip]
      /\ Stored(tip, diskIndex, diskUndo)
      /\ db.new \in {Null, tip}
      /\ \A o \in Outpoints \ pending : db.coins[o] = coins[o]
  BY TreeAssumption DEF IInv, ViewOK, TypeOK, Flushing
<1>2. db \in Database /\ coins \in CoinMap /\ db.coins \in CoinMap
  BY DEF IInv, TypeOK, Database
<1>3. OldTip \in Blocks \cup {Null}
  BY DEF OldTip, IInv, TypeOK, Database
<1>4. d.coins \in CoinMap
  BY <1>2 DEF PartialBatch, CoinMap
<1>5. d \in Database
  BY <1>1, <1>2, <1>3, <1>4 DEF PartialBatch, Database
<1>6. Between(db.coins, OldTip, tip)
  <2>1. CASE db.best # Null
    BY <2>1 DEF IInv, DatabaseOK, OldTip, Between
  <2>2. CASE db.best = Null /\ db.new = Null
    BY <2>2 DEF IInv, DatabaseOK, OldTip, Between
  <2>3. CASE db.best = Null /\ db.new # Null
    BY <1>1, <2>3 DEF IInv, DatabaseOK, OldTip, Between
  <2> QED  BY <2>1, <2>2, <2>3
<1>7. Between(d.coins, OldTip, tip)
  BY <1>1, <1>6 DEF PartialBatch, Between
<1>8. OldTip # Null => Stored(OldTip, diskIndex, diskUndo)
  BY DEF IInv, DatabaseOK, OldTip
<1>9. DatabaseOK(d, diskIndex, diskUndo)
  BY <1>1, <1>7, <1>8 DEF DatabaseOK, PartialBatch
<1>10. \A o \in Outpoints \ (pending \ S) : d.coins[o] = coins[o]
  BY <1>1 DEF PartialBatch
<1> QED  BY <1>5, <1>9, <1>10 DEF PartialBatch

(* The last batch leaves exactly the coins of the new tip.                  *)
LEMMA FinalBatchOK ==
    ASSUME IInv, Flushing
    PROVE  /\ FinalBatch \in Database
           /\ DatabaseOK(FinalBatch, diskIndex, diskUndo)
           /\ FinalBatch.new = Null
           /\ FinalBatch.best = tip
           /\ FinalBatch.coins = coins
<1>1. /\ tip \in Blocks /\ tip # Null
      /\ coins = Utxo[tip]
      /\ Stored(tip, diskIndex, diskUndo)
      /\ \A o \in Outpoints \ pending : db.coins[o] = coins[o]
  BY TreeAssumption DEF IInv, ViewOK, TypeOK, Flushing
<1>2. coins \in CoinMap /\ sap \in Sapling
  BY DEF IInv, TypeOK
<1>3. FinalBatch.coins = coins
  BY <1>1, <1>2 DEF FinalBatch, CoinMap
<1>4. FinalBatch \in Database
  BY <1>1, <1>2, <1>3 DEF FinalBatch, Database
<1>5. DatabaseOK(FinalBatch, diskIndex, diskUndo)
  BY <1>1, <1>3 DEF FinalBatch, DatabaseOK
<1> QED  BY <1>3, <1>4, <1>5 DEF FinalBatch

-----------------------------------------------------------------------------
(* Sapling states keep their type.                                          *)

(* ConnectSapling and DisconnectSapling give Sapling states.                *)
LEMMA SaplingTypes ==
    ASSUME NEW b \in Blocks \ {Genesis}, NEW s \in Sapling
    PROVE  ConnectSapling(b, s) \in Sapling /\ DisconnectSapling(b, s) \in Sapling
<1>1. s.root \in SUBSET Blocks /\ s.nfs \in SUBSET Blocks
      /\ s.anchors \in SUBSET SUBSET Blocks
  BY DEF Sapling
<1>2. FinalRoot(Parent[b]) \in SUBSET Blocks
  BY TreeFacts, TreeAssumption DEF FinalRoot
<1>3. s.root \cup ({b} \cap Shielded) \in SUBSET Blocks
  BY <1>1, TreeAssumption
<1>4. s.anchors \cup ({s.root \cup ({b} \cap Shielded)} \ {s.root})
         \in SUBSET SUBSET Blocks
  BY <1>1, <1>3
<1>5. s.nfs \cup ({b} \cap Shielded) \in SUBSET Blocks
  BY <1>1
<1>6. ConnectSapling(b, s) \in Sapling
  BY <1>3, <1>4, <1>5 DEF ConnectSapling, Sapling
<1>7. (IF s.root = FinalRoot(Parent[b]) THEN s.anchors ELSE s.anchors \ {s.root})
         \in SUBSET SUBSET Blocks
  BY <1>1
<1>8. s.nfs \ {b} \in SUBSET Blocks
  BY <1>1
<1>9. DisconnectSapling(b, s) \in Sapling
  BY <1>2, <1>7, <1>8 DEF DisconnectSapling, Sapling
<1> QED  BY <1>6, <1>9

-----------------------------------------------------------------------------
(* One lemma per action.                                                    *)

(* Starting over any disk a crash may leave (LoadBlockIndexDB, and the      *)
(* beginning of ReplayBlocks).                                              *)
LEMMA StartupInv ==
    ASSUME IInv, Startup
    PROVE  IInv'
<1> USE DEF diskVars
<1>1. TypeOK'
  BY TreeAssumption DEF IInv, TypeOK, Startup, Database
<1>2. DatabaseOK(db, diskIndex, diskUndo)' /\ DatabaseOK(synced, diskIndex, diskUndo)'
  BY DEF IInv, Startup
<1>3. UndoOK(diskUndo)' /\ UndoOK(memUndo)'
  BY DEF IInv, Startup
<1>4. IndexOK'
  BY DEF IndexOK, Startup
<1>5. ASSUME NEW b \in {db.new, db.old} \ {Null}  PROVE b \in diskIndex
  <2>1. b \in Blocks /\ Stored(b, diskIndex, diskUndo)
    BY DEF IInv, DatabaseOK, TypeOK, Database
  <2> QED  BY <2>1, TreeFacts DEF Stored
<1>6. phase' \in {"load", "replay"} /\ (phase' = "load" <=> db.new = Null)
  BY <1>5 DEF Startup
<1>7. phase' = "replay" =>
         /\ cur' \in Blocks
         /\ Between(coins', cur', db.new)
         /\ cur' \notin Ancestors[db.new] => Stored(cur', diskIndex, diskUndo)
  <2> SUFFICES ASSUME db.new # Null
               PROVE  /\ cur' \in Blocks
                      /\ Between(coins', cur', db.new)
                      /\ cur' \notin Ancestors[db.new] =>
                           Stored(cur', diskIndex, diskUndo)
    BY <1>6
  <2>1. db.new \in Blocks /\ db.old \in Blocks \cup {Null}
    BY DEF IInv, TypeOK, Database
  <2>2. Between(db.coins, db.old, db.new)
    BY DEF IInv, DatabaseOK
  <2>3. CASE db.old = Null
    <3>1. cur' = Genesis /\ coins' = db.coins
      BY <2>3 DEF Startup
    <3>2. Genesis \in Ancestors[db.new]
      BY <2>1, TreeAssumption
    <3>3. Between(db.coins, Genesis, db.new)
      BY <2>2, <2>3, UtxoAssumption, SMT DEF Between
    <3> QED  BY <3>1, <3>2, <3>3, TreeAssumption
  <2>4. CASE db.old # Null
    BY <2>1, <2>2, <2>4 DEF Startup, IInv, DatabaseOK
  <2> QED  BY <2>3, <2>4
<1>8. ViewOK'
  BY <1>6, <1>7 DEF ViewOK, Startup
<1> QED  BY <1>1, <1>2, <1>3, <1>4, <1>6, <1>8 DEF IInv, Startup

(* Rolling back one block of the old branch in ReplayBlocks.                *)
LEMMA RollBackInv ==
    ASSUME IInv, RollBack
    PROVE  IInv'
<1> USE DEF diskVars, indexVars
<1>1. /\ db.new \in Blocks /\ cur \in Blocks /\ cur # Genesis
      /\ Stored(cur, diskIndex, diskUndo)
      /\ Between(coins, cur, db.new)
  <2>1. phase = "replay" /\ cur \notin Ancestors[db.new]
    BY DEF RollBack
  <2>2. /\ db.new # Null /\ cur \in Blocks
        /\ Stored(cur, diskIndex, diskUndo) /\ Between(coins, cur, db.new)
    BY <2>1 DEF IInv, ViewOK
  <2>3. db.new \in Blocks
    BY <2>2 DEF IInv, TypeOK, Database
  <2>4. cur # Genesis
    BY <2>1, <2>3, TreeAssumption, SMT
  <2> QED  BY <2>2, <2>3, <2>4
<1>2. cur \in memIndex /\ memUndo[cur] # NoUndo
  <2>1. Stored(cur, memIndex, memUndo)
    BY <1>1, DiskInMemory DEF IInv, RollBack, Alive
  <2> QED  BY <1>1, <2>1, TreeFacts DEF Stored
<1>3. CASE PopAsserts(cur, sap)
  <2>1. phase' = "down" /\ UNCHANGED <<coins, sap, cur>>
    BY <1>2, <1>3 DEF RollBack
  <2> QED  BY <2>1 DEF RollBack, IInv, TypeOK, IndexOK, ViewOK, Alive
<1>4. CASE ~ PopAsserts(cur, sap)
  <2>1. /\ coins' = Disconnect(cur, coins, memUndo[cur])
        /\ sap' = DisconnectSapling(cur, sap)
        /\ cur' = Parent[cur]
        /\ phase' = phase
    BY <1>2, <1>4 DEF RollBack
  <2>2. /\ memUndo[cur] \in CoinMap
        /\ \A o \in Inputs[cur] \ Outputs[cur] :
             memUndo[cur][o] = Utxo[Parent[cur]][o]
    BY <1>1, <1>2 DEF IInv, TypeOK, UndoOK
  <2>3. coins' \in CoinMap /\ Between(coins', cur', db.new)
    BY <1>1, <2>1, <2>2, DisconnectBetween DEF IInv, TypeOK
  <2>4. sap' \in Sapling
    BY <1>1, <2>1, SaplingTypes DEF IInv, TypeOK
  <2>5. cur' \in Blocks /\ Stored(cur', diskIndex, diskUndo)
    BY <1>1, <2>1, TreeFacts DEF Stored
  <2>6. TypeOK'
    BY <2>1, <2>3, <2>4, <2>5 DEF IInv, TypeOK, RollBack
  <2>7. ViewOK'
    BY <2>1, <2>3, <2>5 DEF IInv, ViewOK, RollBack
  <2> QED  BY <2>1, <2>6, <2>7 DEF IInv, RollBack, IndexOK, Alive
<1> QED  BY <1>3, <1>4

(* Rolling one block forward.                                               *)
LEMMA RollForwardInv ==
    ASSUME IInv, RollForward
    PROVE  IInv'
<1> USE DEF diskVars, indexVars
<1>1. PICK b \in Ancestors[db.new] :
         /\ Parent[b] = cur
         /\ IF b \notin memIndex
            THEN phase' = "refused" /\ UNCHANGED <<coins, cur>>
            ELSE coins' = Connect(b, coins) /\ cur' = b /\ UNCHANGED phase
  BY DEF RollForward
<1>2. /\ db.new \in Blocks /\ cur \in Blocks
      /\ Between(coins, cur, db.new)
      /\ Stored(db.new, diskIndex, diskUndo)
  BY TreeAssumption DEF IInv, ViewOK, RollForward, TypeOK, Database, DatabaseOK
<1>3. b \in Blocks \ {Genesis}
  BY <1>1, <1>2, TreeAssumption, SMT
<1>4. b \in memIndex
  BY <1>2 DEF Stored, IInv, IndexOK, Alive, RollForward
<1>5. coins' = Connect(b, coins) /\ cur' = b /\ phase' = phase
  BY <1>1, <1>4
<1>6. coins' \in CoinMap /\ Between(coins', cur', db.new)
  BY <1>1, <1>2, <1>3, <1>5, ConnectBetween DEF IInv, TypeOK
<1>7. TypeOK'
  BY <1>3, <1>5, <1>6 DEF IInv, TypeOK, RollForward
<1>8. ViewOK'
  BY <1>3, <1>5, <1>6 DEF IInv, ViewOK, RollForward
<1> QED  BY <1>5, <1>7, <1>8 DEF IInv, RollForward, IndexOK, Alive

(* BatchWrite's assertion holds when the database has no heads, or has the  *)
(* block being flushed as its first.                                        *)
LEMMA OpenBatchAsserts ==
    ASSUME IInv, NEW t, OpenBatch(t), db.new \in {Null, t}
    PROVE  HeadsAgree(t) /\ headsAsserted' = TRUE /\ pending' = Outpoints
<1>1. headsAsserted = TRUE
  BY DEF IInv
<1>2. HeadsAgree(t)
  BY DEF HeadsAgree
<1> QED  BY <1>1, <1>2 DEF OpenBatch

(* The end of ReplayBlocks: the cache is the view of the new tip.           *)
LEMMA ReplayFlushInv ==
    ASSUME IInv, ReplayFlush
    PROVE  IInv'
<1> USE DEF diskVars, indexVars
<1>1. cur = db.new /\ cur \in Blocks /\ cur # Null /\ Between(coins, cur, cur)
  BY TreeAssumption DEF IInv, ViewOK, ReplayFlush, ReplayDone
<1>2. coins = Utxo[cur]
  BY <1>1, BetweenSame DEF IInv, TypeOK
<1>3. headsAsserted' = TRUE /\ pending' = Outpoints
  BY <1>1, OpenBatchAsserts DEF ReplayFlush
<1>4. Stored(cur, diskIndex, diskUndo)
  BY <1>1 DEF IInv, DatabaseOK
<1>5. TypeOK'
  BY <1>1, <1>3 DEF IInv, TypeOK, ReplayFlush
<1>6. ViewOK'
  BY <1>1, <1>2, <1>3, <1>4 DEF ViewOK, ReplayFlush
<1> QED  BY <1>3, <1>5, <1>6 DEF IInv, ReplayFlush, IndexOK, Alive

(* LoadChainTip finds the best block in the index.                          *)
LEMMA LoadChainTipInv ==
    ASSUME IInv, LoadChainTip
    PROVE  IInv'
<1> USE DEF diskVars, indexVars
<1>1. db.best \in Blocks \cup {Null} /\ db.new = Null /\ coins = db.coins
  BY DEF IInv, TypeOK, Database, ViewOK, LoadChainTip
<1>2. db.best # Null => Stored(db.best, memIndex, memUndo)
  <2> SUFFICES ASSUME db.best # Null PROVE Stored(db.best, memIndex, memUndo)
    OBVIOUS
  <2>1. Stored(db.best, diskIndex, diskUndo)
    BY DEF IInv, DatabaseOK
  <2> QED  BY <1>1, <2>1, DiskInMemory DEF IInv, Alive, LoadChainTip
<1>3. db.best \in memIndex \cup {Null}
  BY <1>1, <1>2, TreeFacts DEF Stored
<1>4. coins = Utxo[db.best]
  BY <1>1 DEF IInv, DatabaseOK
<1>5. phase' = "run" /\ tip' = db.best
  BY <1>3 DEF LoadChainTip
<1>6. TypeOK'
  BY <1>1, <1>5 DEF IInv, TypeOK, LoadChainTip
<1>7. ViewOK'
  BY <1>1, <1>2, <1>4, <1>5 DEF ViewOK, LoadChainTip
<1> QED  BY <1>5, <1>6, <1>7 DEF IInv, LoadChainTip, IndexOK, Alive

(* AcceptBlock only adds to the index in memory.                            *)
LEMMA AcceptBlockInv ==
    ASSUME IInv, NEW b \in Blocks, AcceptBlock(b)
    PROVE  IInv'
<1> USE DEF diskVars
<1>1. TypeOK'
  BY DEF IInv, TypeOK, AcceptBlock
<1>2. IndexOK'
  BY DEF IInv, IndexOK, AcceptBlock, Alive
<1>3. ViewOK'
  BY DEF IInv, ViewOK, AcceptBlock, Stored
<1> QED  BY <1>1, <1>2, <1>3 DEF IInv, AcceptBlock

(* The genesis block changes no coin.                                       *)
LEMMA ConnectGenesisInv ==
    ASSUME IInv, ConnectGenesis
    PROVE  IInv'
<1> USE DEF diskVars, indexVars
<1>1. TypeOK'
  BY TreeAssumption DEF IInv, TypeOK, ConnectGenesis
<1>2. Genesis \in memIndex
  BY DEF IInv, IndexOK, Alive, ConnectGenesis
<1>3. Stored(Genesis, memIndex, memUndo)
  BY <1>2, TreeAssumption, SMT DEF Stored
<1>4. coins = Utxo[Genesis]
  BY UtxoAssumption DEF IInv, ViewOK, ConnectGenesis
<1>5. ViewOK'
  BY <1>3, <1>4 DEF IInv, ViewOK, ConnectGenesis
<1> QED  BY <1>1, <1>5 DEF IInv, ConnectGenesis, IndexOK, Alive

(* Connecting a block: the view becomes the block's, and its undo data are  *)
(* the coins it spent.                                                      *)
LEMMA ConnectTipInv ==
    ASSUME IInv, NEW b \in Blocks, ConnectTip(b)
    PROVE  IInv'
<1> USE DEF diskVars
<1>1. /\ phase = "run" /\ phase' = "run"
      /\ tip \in Blocks /\ tip = Parent[b] /\ b # Genesis
      /\ coins = Utxo[Parent[b]]
      /\ Stored(tip, memIndex, memUndo)
  BY TreeAssumption DEF IInv, TypeOK, ViewOK, ConnectTip
<1>2. coins' = Utxo[b] /\ coins' \in CoinMap
  BY <1>1, ConnectExact, UtxoAssumption, SMT DEF ConnectTip
<1>3. sap' \in Sapling
  BY <1>1, SaplingTypes DEF IInv, TypeOK, ConnectTip
<1>4. /\ UndoData(b, coins) \in CoinMap
      /\ \A o \in Inputs[b] \ Outputs[b] :
            UndoData(b, coins)[o] = Utxo[Parent[b]][o]
  BY <1>1, UtxoAssumption, SMT DEF UndoData, CoinMap, IInv, TypeOK
<1>5. UndoData(b, coins) # NoUndo
  BY <1>4, TreeAssumption
<1>6. /\ memUndo' \in [Blocks -> CoinMap \cup {NoUndo}]
      /\ memUndo'[b] # NoUndo
      /\ \A a \in Blocks \ {b} : memUndo'[a] = memUndo[a]
      /\ memUndo[b] # NoUndo => memUndo' = memUndo /\ dirty' = dirty
      /\ memUndo[b] = NoUndo => /\ memUndo'[b] = UndoData(b, coins)
                                /\ dirty' = dirty \cup {b}
  BY <1>4, <1>5 DEF ConnectTip, IInv, TypeOK
<1>7. TypeOK'
  BY <1>2, <1>3, <1>6 DEF IInv, TypeOK, ConnectTip
<1>8. UndoOK(memUndo)'
  <2> SUFFICES ASSUME NEW a \in Blocks, memUndo'[a] # NoUndo
               PROVE  /\ a # Genesis
                      /\ \A o \in Inputs[a] \ Outputs[a] :
                            memUndo'[a][o] = Utxo[Parent[a]][o]
    BY Zenon DEF UndoOK
  <2>1. CASE memUndo'[a] = memUndo[a]
    BY <2>1, SMT DEF IInv, UndoOK
  <2>2. CASE a = b /\ memUndo'[b] = UndoData(b, coins)
    BY <1>1, <1>4, <2>2
  <2> QED  BY <1>6, <2>1, <2>2
<1>9. IndexOK'
  <2>1. ASSUME NEW a \in Blocks
        PROVE  memUndo'[a] = diskUndo[a] \/ (a \in dirty' /\ diskUndo[a] = NoUndo)
    BY <1>1, <1>6 DEF IInv, IndexOK, Alive
  <2> QED  BY <1>1, <1>6, <2>1 DEF IInv, IndexOK, Alive, ConnectTip
<1>10. Stored(b, memIndex, memUndo')
  <2> SUFFICES ASSUME NEW a \in Ancestors[b]
               PROVE  a \in memIndex /\ (a # Genesis => memUndo'[a] # NoUndo)
    BY DEF Stored
  <2>1. a \in Blocks /\ (a = b \/ a \in Ancestors[tip])
    BY <1>1, TreeAssumption, SMT
  <2> QED  BY <1>1, <1>6, <2>1 DEF Stored, ConnectTip
<1>11. ViewOK'
  BY <1>1, <1>2, <1>10 DEF IInv, ViewOK, ConnectTip
<1> QED  BY <1>1, <1>7, <1>8, <1>9, <1>11 DEF IInv, ConnectTip

(* Disconnecting the tip: the view becomes its parent's.                    *)
LEMMA DisconnectTipInv ==
    ASSUME IInv, DisconnectTip
    PROVE  IInv'
<1> USE DEF diskVars, indexVars
<1>1. /\ phase = "run" /\ phase' = "run"
      /\ tip \in Blocks /\ tip # Genesis /\ tip' = Parent[tip]
      /\ coins = Utxo[tip]
      /\ Stored(tip, memIndex, memUndo)
  BY TreeAssumption DEF IInv, TypeOK, ViewOK, DisconnectTip
<1>2. /\ memUndo[tip] \in CoinMap
      /\ \A o \in Inputs[tip] \ Outputs[tip] :
            memUndo[tip][o] = Utxo[Parent[tip]][o]
  BY <1>1 DEF IInv, TypeOK, UndoOK, DisconnectTip
<1>3. coins' = Utxo[tip']
  BY <1>1, <1>2, DisconnectExact DEF DisconnectTip
<1>4. tip' \in Blocks /\ Ancestors[tip'] \subseteq Ancestors[tip]
  BY <1>1, TreeFacts
<1>5. Stored(tip', memIndex, memUndo)
  BY <1>1, <1>4 DEF Stored
<1>6. sap' \in Sapling
  BY <1>1, SaplingTypes DEF IInv, TypeOK, DisconnectTip
<1>7. coins' \in CoinMap
  BY <1>3, <1>4, UtxoAssumption
<1>8. TypeOK'
  BY <1>4, <1>6, <1>7 DEF IInv, TypeOK, DisconnectTip
<1>9. ViewOK'
  BY <1>1, <1>3, <1>5 DEF IInv, ViewOK, DisconnectTip
<1> QED  BY <1>1, <1>8, <1>9 DEF IInv, DisconnectTip, IndexOK, Alive

(* A write of the index keeps everything that does not speak of the phase.  *)
LEMMA WriteIndexInv ==
    ASSUME IInv, Alive, WriteIndex, UNCHANGED <<db, synced, memIndex, memUndo>>
    PROVE  /\ DatabaseOK(db, diskIndex, diskUndo)'
           /\ DatabaseOK(synced, diskIndex, diskUndo)'
           /\ UndoOK(diskUndo)' /\ UndoOK(memUndo)'
           /\ IndexOK'
           /\ diskIndex' = memIndex /\ diskUndo' = memUndo /\ dirty' = {}
<1>1. diskIndex' = memIndex /\ diskUndo' = memUndo /\ dirty' = {}
  BY WriteIndexStores DEF IInv
<1>2. DatabaseOK(db, diskIndex', diskUndo') /\ DatabaseOK(synced, diskIndex', diskUndo')
  BY DatabaseKept DEF IInv, TypeOK
<1>3. IndexOK'
  BY <1>1 DEF IInv, IndexOK
<1> QED  BY <1>1, <1>2, <1>3 DEF IInv

(* FlushStateToDisk with a periodic write only.                             *)
LEMMA PeriodicWriteInv ==
    ASSUME IInv, PeriodicWrite
    PROVE  IInv'
<1>1. phase = "run" /\ Alive
  BY DEF PeriodicWrite, Alive
<1>2. /\ DatabaseOK(db, diskIndex, diskUndo)'
      /\ DatabaseOK(synced, diskIndex, diskUndo)'
      /\ UndoOK(diskUndo)' /\ UndoOK(memUndo)' /\ IndexOK'
      /\ diskIndex' = memIndex /\ diskUndo' = memUndo /\ dirty' = {}
  BY <1>1, WriteIndexInv DEF PeriodicWrite
<1>3. TypeOK'
  BY <1>2 DEF IInv, TypeOK, PeriodicWrite
<1>4. ViewOK'
  BY <1>1 DEF IInv, ViewOK, PeriodicWrite
<1> QED  BY <1>2, <1>3, <1>4 DEF IInv, PeriodicWrite

(* FlushStateToDisk with a full flush: when BatchWrite begins, the new tip  *)
(* is stored.                                                               *)
LEMMA FullFlushInv ==
    ASSUME IInv, FullFlush
    PROVE  IInv'
<1>1. phase \in {"run", "stop"} /\ Alive /\ tip # Null
  BY DEF FullFlush, Alive
<1>2. HeadsAgree(tip) /\ headsAsserted' = TRUE /\ pending' = Outpoints
  BY <1>1, OpenBatchAsserts DEF FullFlush, IInv, ViewOK
<1>3. /\ WriteIndex /\ phase' \in {"flush", "stopflush"}
      /\ UNCHANGED <<db, synced, coins, sap, tip, memIndex, memUndo, cur, crashes>>
  BY <1>1, <1>2 DEF FullFlush
<1>4. /\ DatabaseOK(db, diskIndex, diskUndo)'
      /\ DatabaseOK(synced, diskIndex, diskUndo)'
      /\ UndoOK(diskUndo)' /\ UndoOK(memUndo)' /\ IndexOK'
      /\ diskIndex' = memIndex /\ diskUndo' = memUndo /\ dirty' = {}
  BY <1>1, <1>3, WriteIndexInv
<1>5. TypeOK'
  BY <1>2, <1>3, <1>4 DEF IInv, TypeOK
<1>6. ViewOK'
  BY <1>1, <1>2, <1>3, <1>4 DEF IInv, ViewOK
<1> QED  BY <1>2, <1>3, <1>4, <1>5, <1>6 DEF IInv

(* A shutdown before there is a tip.                                        *)
LEMMA ShutdownEmptyInv ==
    ASSUME IInv, ShutdownEmpty
    PROVE  IInv'
<1>1. phase = "stop" /\ Alive
  BY DEF ShutdownEmpty, Alive
<1>2. /\ DatabaseOK(db, diskIndex, diskUndo)'
      /\ DatabaseOK(synced, diskIndex, diskUndo)'
      /\ UndoOK(diskUndo)' /\ UndoOK(memUndo)' /\ IndexOK'
      /\ diskIndex' = memIndex /\ diskUndo' = memUndo /\ dirty' = {}
  BY <1>1, WriteIndexInv DEF ShutdownEmpty
<1>3. TypeOK'
  BY <1>2 DEF IInv, TypeOK, ShutdownEmpty
<1>4. ViewOK'
  BY DEF ViewOK, ShutdownEmpty
<1> QED  BY <1>2, <1>3, <1>4 DEF IInv, ShutdownEmpty

(* A shutdown that has not begun to flush changes only the phase.           *)
LEMMA StartShutdownInv ==
    ASSUME IInv, StartShutdown
    PROVE  IInv'
BY DEF IInv, StartShutdown, TypeOK, IndexOK, ViewOK, Alive, diskVars, indexVars

(* A partial batch.                                                         *)
LEMMA WritePartialInv ==
    ASSUME IInv, NEW S \in SUBSET pending, WritePartial(S)
    PROVE  IInv'
<1> USE DEF indexVars
<1>1. Flushing /\ phase' = phase /\ db' = PartialBatch(S)
  BY DEF WritePartial, Flushing
<1>2. /\ db' \in Database
      /\ DatabaseOK(db', diskIndex, diskUndo)
      /\ db'.new = tip
      /\ \A o \in Outpoints \ (pending \ S) : db'.coins[o] = coins[o]
  BY <1>1, PartialBatchOK
<1>3. TypeOK'
  BY <1>2 DEF IInv, TypeOK, WritePartial
<1>4. ViewOK'
  BY <1>1, <1>2 DEF IInv, ViewOK, WritePartial, Flushing
<1> QED  BY <1>1, <1>2, <1>3, <1>4 DEF IInv, WritePartial, IndexOK, Alive

(* The last batch.                                                          *)
LEMMA WriteFinalInv ==
    ASSUME IInv, WriteFinal
    PROVE  IInv'
<1> USE DEF indexVars
<1>1. /\ Flushing /\ db' = FinalBatch
      /\ phase' = CASE phase = "flush" -> "run"
                    [] phase = "stopflush" -> "down"
                    [] phase = "replayflush" -> "load"
  BY SMT DEF WriteFinal, Flushing, AfterFlush
<1>2. /\ db' \in Database
      /\ DatabaseOK(db', diskIndex, diskUndo)
      /\ db'.new = Null /\ db'.best = tip /\ db'.coins = coins
  BY <1>1, FinalBatchOK
<1>3. TypeOK'
  BY <1>1, <1>2 DEF IInv, TypeOK, WriteFinal, Flushing
<1>4. ViewOK'
  BY <1>1, <1>2 DEF IInv, ViewOK, WriteFinal, Flushing
<1> QED  BY <1>1, <1>2, <1>3, <1>4 DEF IInv, WriteFinal, IndexOK, Alive, Flushing

(* The process is gone, and the database is one that was sound.             *)
LEMMA ProcessGoneInv ==
    ASSUME IInv, ProcessGone, db' \in {db, synced},
           UNCHANGED <<synced, diskIndex, diskUndo, headsAsserted>>,
           crashes' \in 0 .. MaxCrashes
    PROVE  IInv'
<1>1. DatabaseOK(db', diskIndex, diskUndo) /\ db' \in Database
  BY DEF IInv, TypeOK
<1>2. TypeOK'
  BY <1>1 DEF IInv, TypeOK, ProcessGone, Database
<1>3. UndoOK(memUndo)'
  BY DEF UndoOK, ProcessGone
<1> QED  BY <1>1, <1>2, <1>3 DEF IInv, ProcessGone, IndexOK, ViewOK, Alive

(* Every step keeps the invariant.                                          *)
LEMMA StepInv ==
    ASSUME IInv, [Next]_vars
    PROVE  IInv'
<1>1. CASE Startup        BY <1>1, StartupInv
<1>2. CASE RollBack       BY <1>2, RollBackInv
<1>3. CASE RollForward    BY <1>3, RollForwardInv, SMT
<1>4. CASE ReplayFlush    BY <1>4, ReplayFlushInv, SMT
<1>5. CASE LoadChainTip   BY <1>5, LoadChainTipInv, SMT
<1>6. CASE WriteFinal     BY <1>6, WriteFinalInv, SMT
<1>7. ASSUME NEW b \in Blocks, AcceptBlock(b) \/ ConnectTip(b)  PROVE IInv'
  BY <1>7, AcceptBlockInv, ConnectTipInv
<1>8. CASE ConnectGenesis BY <1>8, ConnectGenesisInv, SMT
<1>9. CASE DisconnectTip  BY <1>9, DisconnectTipInv, SMT
<1>10. CASE PeriodicWrite BY <1>10, PeriodicWriteInv, SMT
<1>11. CASE StartShutdown BY <1>11, StartShutdownInv, SMT
<1>12. CASE FullFlush     BY <1>12, FullFlushInv, SMT
<1>13. CASE ShutdownEmpty BY <1>13, ShutdownEmptyInv, SMT
<1>14. ASSUME NEW S \in SUBSET pending, WritePartial(S)  PROVE IInv'
  BY <1>14, WritePartialInv
<1>15. CASE Crash
  <2>1. crashes' \in 0 .. MaxCrashes
    BY <1>15, TreeAssumption, SMT DEF Crash, IInv, TypeOK
  <2> QED  BY <1>15, <2>1, ProcessGoneInv DEF Crash
<1>16. CASE PowerLoss
  <2>1. crashes' \in 0 .. MaxCrashes
    BY <1>16, TreeAssumption, SMT DEF PowerLoss, IInv, TypeOK
  <2> QED  BY <1>16, <2>1, ProcessGoneInv DEF PowerLoss
<1>17. CASE WriteBack
  BY <1>17, SMT DEF WriteBack, IInv, TypeOK, IndexOK, ViewOK, Alive, memVars
<1>18. CASE AnchorAssert
  <2>1. crashes' \in 0 .. MaxCrashes
    BY <1>18 DEF AnchorAssert, IInv, TypeOK
  <2> QED  BY <1>18, <2>1, ProcessGoneInv DEF AnchorAssert
<1>19. CASE UNCHANGED vars
  BY <1>19, SMT DEF vars, diskVars, memVars, IInv, TypeOK, IndexOK, ViewOK, Alive
<1> QED  BY <1>1, <1>2, <1>3, <1>4, <1>5, <1>6, <1>7, <1>8, <1>9, <1>10,
            <1>11, <1>12, <1>13, <1>14, <1>15, <1>16, <1>17, <1>18, <1>19
         DEF Next, NodeStep

(* A new data directory.                                                    *)
LEMMA InitInv == Init => IInv
<1> SUFFICES ASSUME Init PROVE IInv
  OBVIOUS
<1>1. EmptySapling \in Sapling
  BY DEF EmptySapling, Sapling
<1>2. Utxo[Null] \in CoinMap
  BY UtxoAssumption
<1>3. EmptyDatabase \in Database
  BY <1>1, <1>2 DEF EmptyDatabase, Database
<1>4. DatabaseOK(EmptyDatabase, diskIndex, diskUndo)
  BY DEF EmptyDatabase, DatabaseOK
<1>5. TypeOK
  BY <1>1, <1>2, <1>3, TreeAssumption, SMT DEF Init, TypeOK
<1>6. UndoOK(diskUndo) /\ UndoOK(memUndo)
  BY DEF Init, UndoOK
<1> QED  BY <1>4, <1>5, <1>6 DEF Init, IInv, IndexOK, ViewOK, Alive

-----------------------------------------------------------------------------
(* The inductive invariant holds of every behaviour of the node, crashes    *)
(* and power losses included.                                               *)
THEOREM Invariance == Spec => []IInv
<1>1. IInv /\ [Next]_vars => IInv'
  BY StepInv
<1> QED  BY InitInv, <1>1, PTL DEF Spec

(* TypeOK of ChainstateFlush.                                               *)
THEOREM TypeCorrect == Spec => []TypeOK
<1>1. IInv => TypeOK
  BY DEF IInv
<1> QED  BY Invariance, <1>1, PTL

(* A coin database with a best block holds exactly that block's coins,      *)
(* after any sequence of flushes, crashes in the middle of a flush or of a  *)
(* replay, and replays.                                                     *)
THEOREM CrashConsistency == Spec => []BestBlockMeansItsCoins
<1>1. IInv => BestBlockMeansItsCoins
  BY DEF IInv, DatabaseOK, BestBlockMeansItsCoins
<1> QED  BY Invariance, <1>1, PTL

(* FlushStateToDisk's order of writing, blocks and undo data, then the      *)
(* index, then the coins, is enough for ReplayBlocks and LoadChainTip to    *)
(* find everything they need.                                               *)
THEOREM AlwaysStarts == Spec => []NeverRefusesToStart
<1>1. IInv => NeverRefusesToStart
  BY DEF IInv, NeverRefusesToStart
<1> QED  BY Invariance, <1>1, PTL

(* The assertion on the heads in BatchWrite never fails.                    *)
THEOREM HeadsAssertion == Spec => []HeadsMatch
<1>1. IInv => HeadsMatch
  BY DEF IInv, HeadsMatch
<1> QED  BY Invariance, <1>1, PTL

(* A running node's coin view is the one of its tip.                        *)
THEOREM ViewOfTheTip == Spec => []RunsOnItsTip
<1>1. IInv => RunsOnItsTip
  BY DEF IInv, ViewOK, RunsOnItsTip
<1> QED  BY Invariance, <1>1, PTL

-----------------------------------------------------------------------------
(* What stays true when writes fail.  After an error the coins, the undo    *)
(* data and the tip may disagree, and the node may have connected other     *)
(* blocks when it flushes again.  It is the assertion in BatchWrite that    *)
(* then keeps the heads in the database those of the flush under way.       *)

HeadsInv ==
    /\ TypeOK
    /\ \A d \in {db, synced} : d.new # Null => d.best = Null
    /\ phase = "replay" => db.new \in Blocks /\ cur \in Blocks
    /\ phase \in {"flush", "stopflush", "replayflush"} =>
         tip # Null /\ db.new \in {Null, tip}

(* ReplayBlocks keeps its types over any disk.                              *)
LEMMA HeadsReplay ==
    ASSUME HeadsInv, RollBack \/ RollForward
    PROVE  HeadsInv'
<1> USE DEF diskVars, indexVars
<1>1. phase = "replay" /\ db.new \in Blocks /\ cur \in Blocks /\ coins \in CoinMap
  BY DEF HeadsInv, TypeOK, RollBack, RollForward
<1>2. UNCHANGED <<db, synced, diskIndex, diskUndo, tip, memIndex, memUndo, dirty, pending,
                  headsAsserted, crashes>>
  BY DEF RollBack, RollForward
<1>3. coins' \in CoinMap /\ sap' \in Sapling /\ cur' \in Blocks
      /\ phase' \in {"replay", "refused", "down"}
  <2>1. CASE RollBack
    <3>1. cur \in Blocks \ {Genesis} /\ Parent[cur] \in Blocks
      <4>1. cur \notin Ancestors[db.new]
        BY <2>1 DEF RollBack
      <4>2. cur # Genesis
        BY <1>1, <4>1, TreeAssumption, SMT
      <4> QED  BY <1>1, <4>2, TreeFacts
    <3>2. sap \in Sapling /\ memUndo[cur] \in CoinMap \cup {NoUndo}
      BY <1>1 DEF HeadsInv, TypeOK
    <3>3. DisconnectSapling(cur, sap) \in Sapling
      BY <3>1, <3>2, SaplingTypes
    <3>4. memUndo[cur] # NoUndo => Disconnect(cur, coins, memUndo[cur]) \in CoinMap
      BY <1>1, <3>2 DEF Disconnect, CoinMap
    <3>5. \/ phase' \in {"refused", "down"} /\ UNCHANGED <<coins, sap, cur>>
          \/ /\ memUndo[cur] # NoUndo
             /\ coins' = Disconnect(cur, coins, memUndo[cur])
             /\ sap' = DisconnectSapling(cur, sap)
             /\ cur' = Parent[cur]
             /\ phase' = phase
      BY <2>1 DEF RollBack
    <3> QED  BY <1>1, <3>1, <3>2, <3>3, <3>4, <3>5
  <2>2. CASE RollForward
    <3>1. PICK b \in Ancestors[db.new] :
             IF b \notin memIndex
             THEN phase' = "refused" /\ UNCHANGED <<coins, cur>>
             ELSE coins' = Connect(b, coins) /\ cur' = b /\ UNCHANGED phase
      BY <2>2 DEF RollForward
    <3>2. b \in Blocks
      BY <1>1, TreeFacts
    <3>3. Connect(b, coins) \in CoinMap
      BY <1>1, <3>2 DEF Connect, CoinMap
    <3>4. sap' \in Sapling
      BY <2>2 DEF RollForward, HeadsInv, TypeOK
    <3> QED  BY <1>1, <3>1, <3>2, <3>3, <3>4
  <2> QED  BY <2>1, <2>2
<1>4. TypeOK'
  BY <1>2, <1>3 DEF HeadsInv, TypeOK
<1> QED  BY <1>1, <1>2, <1>3, <1>4 DEF HeadsInv

(* Connecting and disconnecting keep the types, whatever is in the view.    *)
LEMMA HeadsTip ==
    ASSUME HeadsInv, DisconnectTip \/ \E b \in Blocks : ConnectTip(b)
    PROVE  HeadsInv'
<1> USE DEF diskVars, indexVars
<1>1. /\ phase = "run" /\ phase' = "run"
      /\ coins \in CoinMap /\ sap \in Sapling
      /\ memUndo \in [Blocks -> CoinMap \cup {NoUndo}]
  BY DEF HeadsInv, TypeOK, ConnectTip, DisconnectTip
<1>2. UNCHANGED <<db, synced, diskIndex, diskUndo, memIndex, cur, pending, headsAsserted, crashes>>
  BY DEF ConnectTip, DisconnectTip
<1>3. /\ coins' \in CoinMap /\ sap' \in Sapling /\ tip' \in Blocks /\ dirty' \in SUBSET Blocks
      /\ memUndo' \in [Blocks -> CoinMap \cup {NoUndo}]
  <2>1. CASE DisconnectTip
    <3>1. tip \in Blocks \ {Genesis} /\ Parent[tip] \in Blocks
      BY <2>1, TreeFacts DEF DisconnectTip, HeadsInv, TypeOK
    <3>2. memUndo[tip] \in CoinMap
      BY <1>1, <2>1, <3>1 DEF DisconnectTip
    <3>3. Disconnect(tip, coins, memUndo[tip]) \in CoinMap
      BY <1>1, <3>2 DEF Disconnect, CoinMap
    <3>4. DisconnectSapling(tip, sap) \in Sapling
      BY <1>1, <3>1, SaplingTypes
    <3> QED  BY <1>1, <2>1, <3>1, <3>3, <3>4 DEF DisconnectTip, HeadsInv, TypeOK
  <2>2. ASSUME NEW b \in Blocks, ConnectTip(b)
        PROVE  /\ coins' \in CoinMap /\ sap' \in Sapling /\ tip' \in Blocks
               /\ dirty' \in SUBSET Blocks
               /\ memUndo' \in [Blocks -> CoinMap \cup {NoUndo}]
    <3>1. b \in Blocks \ {Genesis}
      BY <2>2, TreeAssumption DEF ConnectTip
    <3>2. Connect(b, coins) \in CoinMap /\ UndoData(b, coins) \in CoinMap
      <4>1. Connect(b, coins) \in CoinMap
        BY <1>1, <3>1 DEF Connect, CoinMap
      <4>2. UndoData(b, coins) \in CoinMap
        BY <1>1 DEF UndoData, CoinMap
      <4> QED  BY <4>1, <4>2
    <3>3. ConnectSapling(b, sap) \in Sapling
      BY <1>1, <3>1, SaplingTypes
    <3>4. dirty' \in SUBSET Blocks /\ memUndo' \in [Blocks -> CoinMap \cup {NoUndo}]
      <4>1. dirty \in SUBSET Blocks
        BY DEF HeadsInv, TypeOK
      <4>2. [memUndo EXCEPT ![b] = UndoData(b, coins)] \in [Blocks -> CoinMap \cup {NoUndo}]
        BY <1>1, <3>2
      <4>3. \/ /\ memUndo' = [memUndo EXCEPT ![b] = UndoData(b, coins)]
               /\ dirty' = dirty \cup {b}
            \/ UNCHANGED <<memUndo, dirty>>
        BY <2>2 DEF ConnectTip
      <4> QED  BY <1>1, <4>1, <4>2, <4>3
    <3> QED  BY <2>2, <3>2, <3>3, <3>4 DEF ConnectTip
  <2> QED  BY <2>1, <2>2
<1>4. TypeOK'
  BY <1>1, <1>2, <1>3 DEF HeadsInv, TypeOK
<1> QED  BY <1>1, <1>2, <1>4 DEF HeadsInv

(* Writing the index, and opening a batch after it.                         *)
LEMMA HeadsFlush ==
    ASSUME HeadsInv, PeriodicWrite \/ FullFlush \/ ShutdownEmpty \/ ReplayFlush
    PROVE  HeadsInv'
<1> USE DEF diskVars, indexVars
<1>1. WriteIndex => /\ diskIndex' \in SUBSET Blocks /\ dirty' \in SUBSET Blocks
                    /\ diskUndo' \in [Blocks -> CoinMap \cup {NoUndo}]
  <2> SUFFICES ASSUME WriteIndex
               PROVE  /\ diskIndex' \in SUBSET Blocks /\ dirty' \in SUBSET Blocks
                      /\ diskUndo' \in [Blocks -> CoinMap \cup {NoUndo}]
    OBVIOUS
  <2> QED  BY DEF WriteIndex, HeadsInv, TypeOK
<1>2. CASE PeriodicWrite \/ ShutdownEmpty
  <2>1. TypeOK'
    BY <1>1, <1>2 DEF PeriodicWrite, ShutdownEmpty, HeadsInv, TypeOK
  <2> QED  BY <1>2, <2>1 DEF PeriodicWrite, ShutdownEmpty, HeadsInv
<1>3. CASE FullFlush
  <2>1. /\ WriteIndex /\ UNCHANGED <<db, synced, crashes>> /\ tip # Null
        /\ pending' = IF HeadsAgree(tip) THEN Outpoints ELSE {}
        /\ headsAsserted' \in BOOLEAN
    BY <1>3 DEF FullFlush, OpenBatch
  <2>2. CASE HeadsAgree(tip)
    <3>1. /\ phase' \in {"flush", "stopflush"}
          /\ UNCHANGED <<coins, sap, tip, memIndex, memUndo, cur>>
      BY <1>3, <2>2 DEF FullFlush
    <3>2. db.new \in {Null, tip}
      BY <2>2 DEF HeadsAgree, HeadsInv
    <3>3. TypeOK'
      BY <1>1, <2>1, <2>2, <3>1 DEF HeadsInv, TypeOK
    <3> QED  BY <2>1, <3>1, <3>2, <3>3 DEF HeadsInv
  <2>3. CASE ~ HeadsAgree(tip)
    <3>1. ProcessGone
      BY <1>3, <2>3 DEF FullFlush
    <3>2. db'.coins \in CoinMap /\ db'.sap \in Sapling
      BY <2>1 DEF HeadsInv, TypeOK, Database
    <3>3. TypeOK'
      BY <1>1, <2>1, <3>1, <3>2 DEF ProcessGone, HeadsInv, TypeOK
    <3> QED  BY <2>1, <3>1, <3>3 DEF ProcessGone, HeadsInv
  <2> QED  BY <2>2, <2>3
<1>4. CASE ReplayFlush
  <2>1. tip' = db.new /\ tip' \in Blocks /\ phase' = "replayflush"
        /\ UNCHANGED <<db, synced>>
    BY <1>4 DEF ReplayFlush, ReplayDone, HeadsInv
  <2>2. pending' \in SUBSET Outpoints /\ headsAsserted' \in BOOLEAN
    BY <1>4 DEF ReplayFlush, OpenBatch
  <2>3. TypeOK'
    BY <1>4, <2>1, <2>2 DEF ReplayFlush, HeadsInv, TypeOK
  <2>4. tip' # Null
    BY <2>1, TreeAssumption
  <2> QED  BY <2>1, <2>3, <2>4 DEF HeadsInv
<1> QED  BY <1>2, <1>3, <1>4

(* A batch of BatchWrite is of the database's type and for the tip.         *)
LEMMA HeadsBatch ==
    ASSUME HeadsInv, Flushing
    PROVE  /\ \A S : /\ PartialBatch(S) \in Database
                   /\ PartialBatch(S).new = tip /\ PartialBatch(S).best = Null
           /\ FinalBatch \in Database /\ FinalBatch.new = Null /\ FinalBatch.best = tip
           /\ tip \in Blocks /\ db.new \in {Null, tip}
<1>1. /\ tip \in Blocks /\ db \in Database /\ coins \in CoinMap /\ sap \in Sapling
      /\ db.new \in {Null, tip}
  BY DEF HeadsInv, TypeOK, Flushing
<1>2. db.coins \in CoinMap /\ db.sap \in Sapling /\ OldTip \in Blocks \cup {Null}
  BY <1>1 DEF Database, OldTip
<1>3. ASSUME NEW S
      PROVE  [o \in Outpoints |-> IF o \in S THEN coins[o] ELSE db.coins[o]] \in CoinMap
  BY <1>1, <1>2 DEF CoinMap
<1>4. ASSUME NEW S
      PROVE  /\ PartialBatch(S) \in Database
             /\ PartialBatch(S).new = tip /\ PartialBatch(S).best = Null
  BY <1>1, <1>2, <1>3 DEF PartialBatch, Database
<1>5. FinalBatch \in Database /\ FinalBatch.new = Null /\ FinalBatch.best = tip
  BY <1>1, <1>3 DEF FinalBatch, Database
<1> QED  BY <1>1, <1>4, <1>5

(* The batches themselves.                                                  *)
LEMMA HeadsWrite ==
    ASSUME HeadsInv, WriteFinal \/ \E S \in SUBSET pending : WritePartial(S)
    PROVE  HeadsInv'
<1> USE DEF diskVars, indexVars
<1>0. Flushing
  BY DEF WriteFinal, WritePartial, Flushing
<1>1. CASE WriteFinal
  <2>1. phase' \in {"run", "down", "load"}
    BY <1>1, SMT DEF WriteFinal, AfterFlush
  <2>2. db' \in Database /\ db'.new = Null
    BY <1>0, <1>1, HeadsBatch DEF WriteFinal
  <2>3. TypeOK'
    BY <1>1, <2>1, <2>2 DEF WriteFinal, HeadsInv, TypeOK
  <2> QED  BY <1>1, <2>1, <2>2, <2>3 DEF WriteFinal, HeadsInv
<1>2. ASSUME NEW S \in SUBSET pending, WritePartial(S) PROVE HeadsInv'
  <2>1. db' \in Database /\ db'.new = tip /\ db'.best = Null
    BY <1>0, <1>2, HeadsBatch DEF WritePartial
  <2>2. TypeOK'
    BY <1>2, <2>1 DEF WritePartial, HeadsInv, TypeOK
  <2> QED  BY <1>2, <2>1, <2>2 DEF WritePartial, HeadsInv
<1> QED  BY <1>1, <1>2

(* A write that fails leaves the heads as they were, and ends the flush.    *)
LEMMA HeadsError == ASSUME HeadsInv, WriteError PROVE HeadsInv'
<1> USE DEF diskVars, indexVars
<1>1. CASE IndexWriteFails
  <2>1. phase' \in {"run", "stop", "down"}
    BY <1>1, SMT DEF IndexWriteFails, AfterError
  <2>2. TypeOK'
    BY <1>1, <2>1 DEF IndexWriteFails, HeadsInv, TypeOK
  <2> QED  BY <1>1, <2>1, <2>2 DEF IndexWriteFails, HeadsInv
<1>2. ASSUME \/ FinalWriteFails
             \/ \E S \in SUBSET pending : PartialWriteFails(S)
      PROVE  HeadsInv'
  <2>0. /\ phase \in {"flush", "stopflush", "replayflush"}
        /\ phase' \in AfterError[phase]
    BY <1>2 DEF FinalWriteFails, PartialWriteFails
  <2>1. /\ phase' \in {"run", "stop", "down"}
        /\ pending' = {}
        /\ UNCHANGED <<db, synced, diskIndex, diskUndo, tip, memIndex, memUndo, dirty, cur,
                       headsAsserted, crashes>>
    <3>1. phase' \in {"run", "stop", "down"}
      BY <2>0, SMT DEF AfterError
    <3> QED  BY <1>2, <3>1 DEF FinalWriteFails, PartialWriteFails
  <2>2. db.coins \in CoinMap /\ db.sap \in Sapling /\ coins \in CoinMap /\ sap \in Sapling
    BY DEF HeadsInv, TypeOK, Database
  <2>3. ASSUME NEW S
        PROVE  [o \in Outpoints |-> IF o \in S THEN db.coins[o] ELSE coins[o]] \in CoinMap
    BY <2>2 DEF CoinMap
  <2>4. [db.sap EXCEPT !.root = sap.root] \in Sapling
    BY <2>2 DEF Sapling
  <2>5. coins' \in CoinMap /\ sap' \in Sapling
    <3>1. CASE FinalWriteFails
      BY <2>3, <2>4, <3>1 DEF FinalWriteFails
    <3>2. ASSUME NEW S \in SUBSET pending, PartialWriteFails(S)
          PROVE  coins' \in CoinMap /\ sap' \in Sapling
      BY <2>2, <2>3, <3>2 DEF PartialWriteFails
    <3> QED  BY <1>2, <3>1, <3>2
  <2>6. TypeOK'
    BY <2>1, <2>5 DEF HeadsInv, TypeOK
  <2> QED  BY <2>1, <2>6 DEF HeadsInv
<1> QED  BY <1>1, <1>2 DEF WriteError

(* The process is gone.                                                     *)
LEMMA HeadsGone ==
    ASSUME HeadsInv, Crash \/ PowerLoss \/ AnchorAssert
    PROVE  HeadsInv'
<1>1. ProcessGone /\ db' \in {db, synced} /\ UNCHANGED <<synced, diskIndex, diskUndo, headsAsserted>>
  BY DEF Crash, PowerLoss, AnchorAssert
<1>2. crashes' \in 0 .. MaxCrashes
  <2>1. crashes \in 0 .. MaxCrashes
    BY DEF HeadsInv, TypeOK
  <2>2. crashes' = crashes \/ (crashes < MaxCrashes /\ crashes' = crashes + 1)
    BY DEF Crash, PowerLoss, AnchorAssert
  <2>3. MaxCrashes \in Nat
    BY TreeAssumption
  <2> QED  BY <2>1, <2>2, <2>3, SMT
<1>3. db' \in Database /\ db'.coins \in CoinMap /\ db'.sap \in Sapling
  BY <1>1 DEF HeadsInv, TypeOK, Database
<1>4. TypeOK'
  BY <1>1, <1>2, <1>3 DEF ProcessGone, HeadsInv, TypeOK
<1> QED  BY <1>1, <1>4 DEF ProcessGone, HeadsInv

(* Every step keeps this, errors included.                                  *)
LEMMA HeadsStep == ASSUME HeadsInv, [Next \/ WriteError]_vars PROVE HeadsInv'
<1> USE DEF diskVars, indexVars
<1>1. CASE Startup
  <2>1. /\ db.new \in Blocks \cup {Null} /\ db.old \in Blocks \cup {Null}
        /\ db.coins \in CoinMap /\ db.sap \in Sapling
    BY DEF HeadsInv, TypeOK, Database
  <2>2. cur' \in Blocks /\ phase' \in {"load", "replay", "refused"}
        /\ (phase' = "replay" => db.new \in Blocks)
    BY <1>1, <2>1, TreeAssumption DEF Startup
  <2>3. TypeOK'
    BY <1>1, <2>1, <2>2, TreeAssumption DEF Startup, HeadsInv, TypeOK
  <2> QED  BY <1>1, <2>2, <2>3 DEF Startup, HeadsInv
<1>2. CASE LoadChainTip
  <2>1. db.best \in Blocks \cup {Null} /\ phase' \in {"run", "refused"}
    BY <1>2 DEF LoadChainTip, HeadsInv, TypeOK, Database
  <2>2. TypeOK'
    BY <1>2, <2>1 DEF LoadChainTip, HeadsInv, TypeOK
  <2> QED  BY <1>2, <2>1, <2>2 DEF LoadChainTip, HeadsInv
<1>3. ASSUME NEW b \in Blocks, AcceptBlock(b) PROVE HeadsInv'
  <2>1. TypeOK'
    BY <1>3 DEF AcceptBlock, HeadsInv, TypeOK
  <2> QED  BY <1>3, <2>1 DEF AcceptBlock, HeadsInv
<1>4. CASE ConnectGenesis \/ StartShutdown
  <2>1. TypeOK'
    <3>1. CASE ConnectGenesis
      BY <3>1, TreeAssumption DEF ConnectGenesis, HeadsInv, TypeOK
    <3>2. CASE StartShutdown
      BY <3>2 DEF StartShutdown, HeadsInv, TypeOK
    <3> QED  BY <1>4, <3>1, <3>2
  <2> QED  BY <1>4, <2>1 DEF ConnectGenesis, StartShutdown, HeadsInv
<1>5. CASE WriteBack
  <2>1. TypeOK'
    BY <1>5 DEF WriteBack, memVars, HeadsInv, TypeOK
  <2> QED  BY <1>5, <2>1 DEF WriteBack, memVars, HeadsInv
<1>6. CASE UNCHANGED vars
  <2>1. TypeOK'
    BY <1>6 DEF vars, memVars, HeadsInv, TypeOK
  <2> QED  BY <1>6, <2>1 DEF vars, memVars, HeadsInv
<1>7. CASE RollBack \/ RollForward
  BY <1>7, HeadsReplay
<1>8. CASE DisconnectTip \/ \E b \in Blocks : ConnectTip(b)
  BY <1>8, HeadsTip
<1>9. CASE PeriodicWrite \/ FullFlush \/ ShutdownEmpty \/ ReplayFlush
  BY <1>9, HeadsFlush
<1>10. CASE WriteFinal \/ \E S \in SUBSET pending : WritePartial(S)
  BY <1>10, HeadsWrite
<1>11. CASE WriteError
  BY <1>11, HeadsError
<1>12. CASE Crash \/ PowerLoss \/ AnchorAssert
  BY <1>12, HeadsGone
<1> QED  BY <1>1, <1>2, <1>3, <1>4, <1>5, <1>6, <1>7, <1>8, <1>9, <1>10, <1>11, <1>12
         DEF Next, NodeStep

(* During a flush the heads in the database are those of that flush.        *)
LEMMA HeadsInvariance == ErrorSpec => []HeadsInv
<1>1. Init => HeadsInv
  <2>1. EmptyDatabase.new = Null
    BY DEF EmptyDatabase
  <2>2. Init => TypeOK
    BY InitInv DEF IInv
  <2>3. Init => phase = "down" /\ db.new = Null /\ synced.new = Null
    BY <2>1 DEF Init
  <2> QED  BY <2>2, <2>3 DEF HeadsInv
<1>2. HeadsInv /\ [Next \/ WriteError]_vars => HeadsInv'
  BY HeadsStep
<1> QED  BY <1>1, <1>2, PTL DEF ErrorSpec

(* Every variable keeps its type when writes of BatchWrite and of the index *)
(* fail.                                                                    *)
THEOREM TypeCorrectOnErrors == ErrorSpec => []TypeOK
<1>1. HeadsInv => TypeOK
  BY DEF HeadsInv
<1> QED  BY <1>1, HeadsInvariance, PTL

(* A transition begun on disk is completed to the block it was going to,    *)
(* also when writes fail and the node goes on to other blocks before it     *)
(* stops: only BatchWrite touches the heads, and its assertion ends the     *)
(* process when it is called for another block.                             *)
THEOREM TransitionsOnErrors == ErrorSpec => TransitionsComplete
<1> DEFINE Completes ==
        db.new # Null /\ db'.new # db.new => db'.best = db.new \/ db' = synced
<1>1. ASSUME HeadsInv, [Next \/ WriteError]_vars  PROVE Completes
  <2>1. CASE db' = db
    BY <2>1
  <2>2. CASE PowerLoss
    BY <2>2 DEF PowerLoss
  <2>3. ASSUME NEW S \in SUBSET pending, WritePartial(S)  PROVE Completes
    <3>1. Flushing /\ db' = PartialBatch(S)
      BY <2>3 DEF WritePartial, Flushing
    <3> QED  BY <1>1, <3>1, HeadsBatch
  <2>4. CASE WriteFinal
    <3>1. Flushing /\ db' = FinalBatch
      BY <2>4 DEF WriteFinal, Flushing
    <3> QED  BY <1>1, <3>1, HeadsBatch
  <2>5. db' = db \/ PowerLoss \/ WriteFinal
        \/ \E S \in SUBSET pending : WritePartial(S)
    BY <1>1 DEF Next, NodeStep, WriteError, vars, diskVars, Startup, RollBack, RollForward,
       ReplayFlush, LoadChainTip, AcceptBlock, ConnectTip, ConnectGenesis,
       DisconnectTip, PeriodicWrite, StartShutdown, FullFlush, ShutdownEmpty,
       Crash, WriteBack, AnchorAssert, IndexWriteFails, PartialWriteFails, FinalWriteFails
  <2> QED  BY <2>1, <2>2, <2>3, <2>4, <2>5
<1>2. HeadsInv /\ [Next \/ WriteError]_vars => [Completes]_vars
  BY <1>1
<1>3. ErrorSpec => [][Completes]_vars
  BY HeadsInvariance, <1>2, PTL DEF ErrorSpec
<1> QED  BY <1>3 DEF TransitionsComplete

(* A transition begun on disk is completed to the block it was going to:    *)
(* the behaviours without write errors are among those with them.           *)
THEOREM Transitions == Spec => TransitionsComplete
<1>1. [Next]_vars => [Next \/ WriteError]_vars
  OBVIOUS
<1>2. Spec => ErrorSpec
  BY <1>1, PTL DEF Spec, ErrorSpec
<1> QED  BY <1>2, TransitionsOnErrors
=============================================================================
