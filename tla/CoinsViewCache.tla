--------------------------- MODULE CoinsViewCache ---------------------------
(***************************************************************************)
(* The stack of coin views of a running node (coins.h, coins.cpp):         *)
(*                                                                         *)
(*    view   the CCoinsViewCache a block is applied to, one per ConnectTip *)
(*           or DisconnectTip, dropped or flushed at the end               *)
(*    tip    pcoinsTip, the CCoinsViewCache that lives as long as the node *)
(*    db     CCoinsViewDB, the chainstate database                         *)
(*                                                                         *)
(* A cache is a function from keys to entries; NoEntry is a key that is    *)
(* not in the map.  The block being applied is a session: it is opened,    *)
(* changes the view step by step, sets the anchor and the best block, and  *)
(* is flushed into the tip.  All of it happens under cs_main, so nothing   *)
(* but the session touches the tip while a session is open.                *)
(***************************************************************************)
EXTENDS Naturals

CONSTANTS
    Outpoints, Coins, Unspendable, Nullifiers, MaxRoot, BlockHashes, Genesis,
    Spent, Null,
    NoEntry       \* cacheCoins.find(o) == cacheCoins.end()

VARIABLES
    dbCoins, dbNfs, dbAnchors, dbRoot, dbBlock,
    tipCoins, tipNfs, tipAnchors, tipRoot, tipBlock,
    viewCoins, viewNfs, viewAnchors, viewRoot, viewBlock,
    session,      \* "idle", "connect", "disconnect" or "done"
    logicError    \* a std::logic_error was thrown or an assert failed

dbVars   == <<dbCoins, dbNfs, dbAnchors, dbRoot, dbBlock>>
tipVars  == <<tipCoins, tipNfs, tipAnchors, tipRoot, tipBlock>>
viewVars == <<viewCoins, viewNfs, viewAnchors, viewRoot, viewBlock>>
vars     == <<dbVars, tipVars, viewVars, session, logicError>>

Roots == 0 .. MaxRoot

EmptyRoot == 0

(* CCoinsCacheEntry; CNullifiersCacheEntry and CAnchorsSaplingCacheEntry.   *)
CoinEntry == [coin : Coins \cup {Spent}, dirty : BOOLEAN, fresh : BOOLEAN]
FlagEntry == [entered : BOOLEAN, dirty : BOOLEAN]

CoinCache   == [Outpoints -> CoinEntry \cup {NoEntry}]
NfCache     == [Nullifiers -> FlagEntry \cup {NoEntry}]
AnchorCache == [Roots -> FlagEntry \cup {NoEntry}]

ASSUME ConstantsAssumption ==
    /\ Unspendable \subseteq Coins
    /\ Spent \notin Coins
    /\ NoEntry \notin CoinEntry
    /\ NoEntry \notin FlagEntry
    /\ MaxRoot \in Nat
    /\ Null \notin Roots
    /\ Null \notin BlockHashes
    /\ Genesis \in BlockHashes

-----------------------------------------------------------------------------
(* Faulty variants of operators defined below.  Nothing uses them: each is  *)
(* a mistake that one of the properties is there to catch.                  *)

EntryOrSpent(cache, o) ==
    IF cache[o] = NoEntry THEN [coin |-> Spent, dirty |-> FALSE, fresh |-> FALSE]
    ELSE cache[o]

(* FRESH over a spent entry whose spentness is not yet in the base.         *)
AddCoinAlwaysFresh(cache, o, coin, possibleOverwrite) ==
    IF coin \in Unspendable THEN cache
    ELSE [cache EXCEPT ![o] =
            [coin |-> coin, dirty |-> TRUE,
             fresh |-> ~possibleOverwrite \/ EntryOrSpent(cache, o).fresh]]

(* The overwrite a disconnect allows is not allowed.                        *)
AddCoinThrowsOnOverwrite(cache, o, coin, possibleOverwrite) ==
    coin \notin Unspendable /\ EntryOrSpent(cache, o).coin # Spent

(* A popped tree that the next flush leaves behind.                         *)
PopAnchorClean(cache, currentRoot, newrt) ==
    IF currentRoot = newrt THEN cache
    ELSE [cache EXCEPT ![currentRoot] = [entered |-> FALSE, dirty |-> FALSE]]

(* A spent child erases the parent's entry, FRESH or not.                   *)
BatchWriteErasesSpent(parent, child) ==
    IF child = NoEntry \/ ~child.dirty THEN parent
    ELSE IF child.coin = Spent THEN NoEntry
    ELSE [coin |-> child.coin, dirty |-> TRUE,
          fresh |-> IF parent = NoEntry THEN child.fresh ELSE parent.fresh]

(* The database forgets to erase, or takes a null hash for a hash.          *)
DbWriteUnspentOnly(old, entry) ==
    IF entry # NoEntry /\ entry.dirty /\ entry.coin # Spent THEN entry.coin ELSE old

DbWriteAnyHash(old, hash) == hash

-----------------------------------------------------------------------------
(* One cache over a base.                                                   *)

(* FetchCoin: the base answers found and coin.                              *)
FetchCoin(cache, o, found, coin) ==
    IF cache[o] # NoEntry \/ ~found THEN cache
    ELSE [cache EXCEPT ![o] =
            [coin |-> coin, dirty |-> FALSE, fresh |-> coin = Spent]]

BlankEntry == [coin |-> Spent, dirty |-> FALSE, fresh |-> FALSE]

EntryOrBlank(cache, o) == IF cache[o] = NoEntry THEN BlankEntry ELSE cache[o]

(* AddCoin throws on an unspent entry unless the caller allows overwriting. *)
AddCoinThrows(cache, o, coin, possibleOverwrite) ==
    /\ coin \notin Unspendable
    /\ ~possibleOverwrite
    /\ EntryOrBlank(cache, o).coin # Spent

AddCoin(cache, o, coin, possibleOverwrite) ==
    IF coin \in Unspendable THEN cache
    ELSE LET e == EntryOrBlank(cache, o)
             fresh == ~possibleOverwrite /\ ~e.dirty
         IN  [cache EXCEPT ![o] =
                [coin |-> coin, dirty |-> TRUE, fresh |-> e.fresh \/ fresh]]

(* SpendCoin, after its FetchCoin.                                          *)
SpendCoin(cache, o) ==
    IF cache[o] = NoEntry THEN cache
    ELSE [cache EXCEPT ![o] =
            IF cache[o].fresh THEN NoEntry
            ELSE [coin |-> Spent, dirty |-> TRUE, fresh |-> FALSE]]

GetNullifier(cache, n, baseSpent) ==
    IF cache[n] # NoEntry THEN cache
    ELSE [cache EXCEPT ![n] = [entered |-> baseSpent, dirty |-> FALSE]]

SetNullifiers(cache, n, spent) ==
    [cache EXCEPT ![n] = [entered |-> spent, dirty |-> TRUE]]

(* GetSaplingAnchorAt caches what the base has, never what it lacks.        *)
GetSaplingAnchorAt(cache, r, baseHas) ==
    IF cache[r] # NoEntry \/ ~baseHas THEN cache
    ELSE [cache EXCEPT ![r] = [entered |-> TRUE, dirty |-> FALSE]]

PushAnchor(cache, currentRoot, newrt) ==
    IF currentRoot = newrt THEN cache
    ELSE [cache EXCEPT ![newrt] = [entered |-> TRUE, dirty |-> TRUE]]

(* PopAnchor, after BringBestAnchorIntoCache.                               *)
PopAnchor(cache, currentRoot, newrt) ==
    IF currentRoot = newrt THEN cache
    ELSE [cache EXCEPT ![currentRoot] = [entered |-> FALSE, dirty |-> TRUE]]

IsDirty(entry) == entry # NoEntry /\ entry.dirty

(* CCoinsViewCache::BatchWrite for one key: the parent's entry after the    *)
(* child's entry has been written to it.                                    *)
BatchWriteCoin(parent, child) ==
    IF ~IsDirty(child) THEN parent
    ELSE LET fresh == IF parent = NoEntry THEN child.fresh ELSE parent.fresh
         IN  IF fresh /\ child.coin = Spent THEN NoEntry
             ELSE [coin |-> child.coin, dirty |-> TRUE, fresh |-> fresh]

(* BatchWrite throws: FRESH in the child over spendable outputs.            *)
FreshMisapplied(parent, child) ==
    /\ IsDirty(child) /\ child.fresh
    /\ parent # NoEntry /\ parent.coin # Spent

(* BatchWriteAnchors and BatchWriteNullifiers for one key.                  *)
BatchWriteFlag(parent, child) ==
    IF ~IsDirty(child) \/ (parent # NoEntry /\ parent.entered = child.entered)
    THEN parent
    ELSE [entered |-> child.entered, dirty |-> TRUE]

(* CCoinsViewDB::BatchWrite for one key.                                    *)
DbWriteCoin(old, entry) == IF IsDirty(entry) THEN entry.coin ELSE old
DbWriteFlag(old, entry) == IF IsDirty(entry) THEN entry.entered ELSE old
DbWriteHash(old, hash)  == IF hash = Null THEN old ELSE hash

-----------------------------------------------------------------------------
(* What each level answers.                                                 *)

CoinIn(cache, base, o) == IF cache[o] = NoEntry THEN base[o] ELSE cache[o].coin
FlagIn(cache, base, k) == IF cache[k] = NoEntry THEN base[k] ELSE cache[k].entered
HashIn(hash, base) == IF hash = Null THEN base ELSE hash

DbAnchor   == [r \in Roots |-> r = EmptyRoot \/ dbAnchors[r]]
TipCoin    == [o \in Outpoints |-> CoinIn(tipCoins, dbCoins, o)]
TipNf      == [n \in Nullifiers |-> FlagIn(tipNfs, dbNfs, n)]
TipAnchor  == [r \in Roots |-> FlagIn(tipAnchors, DbAnchor, r)]
TipBestAnchor == HashIn(tipRoot, dbRoot)
TipBestBlock  == HashIn(tipBlock, dbBlock)
ViewCoin   == [o \in Outpoints |-> CoinIn(viewCoins, TipCoin, o)]
ViewNf     == [n \in Nullifiers |-> FlagIn(viewNfs, TipNf, n)]
ViewAnchor == [r \in Roots |-> FlagIn(viewAnchors, TipAnchor, r)]
ViewBestAnchor == HashIn(viewRoot, TipBestAnchor)
ViewBestBlock  == HashIn(viewBlock, TipBestBlock)

(* Reading through the tip fills the tip.                                   *)
TipFetchCoin(o)   == FetchCoin(tipCoins, o, dbCoins[o] # Spent, dbCoins[o])
TipFetchNf(n)     == GetNullifier(tipNfs, n, dbNfs[n])
TipFetchAnchor(r) == GetSaplingAnchorAt(tipAnchors, r, DbAnchor[r])

(* Reading through the view fills the view and, on a miss, the tip.         *)
TipFor(o)       == IF viewCoins[o] = NoEntry THEN TipFetchCoin(o) ELSE tipCoins
TipForNf(n)     == IF viewNfs[n] = NoEntry THEN TipFetchNf(n) ELSE tipNfs
TipForAnchor(r) == IF viewAnchors[r] = NoEntry THEN TipFetchAnchor(r) ELSE tipAnchors
ViewFetchCoin(o) ==
    LET t == TipFor(o) IN FetchCoin(viewCoins, o, t[o] # NoEntry, t[o].coin)
ViewFetchNf(n) == GetNullifier(viewNfs, n, TipNf[n])
ViewFetchAnchor(r) == GetSaplingAnchorAt(viewAnchors, r, TipAnchor[r])

-----------------------------------------------------------------------------
(* Opening and closing a session.                                           *)

EmptyCoins   == [o \in Outpoints |-> NoEntry]
EmptyNfs     == [n \in Nullifiers |-> NoEntry]
EmptyAnchors == [r \in Roots |-> NoEntry]

Init ==
    /\ dbCoins = [o \in Outpoints |-> Spent]
    /\ dbNfs = [n \in Nullifiers |-> FALSE]
    /\ dbAnchors = [r \in Roots |-> FALSE]
    /\ dbRoot = EmptyRoot
    /\ dbBlock = Null
    /\ tipCoins = EmptyCoins
    /\ tipNfs = EmptyNfs
    /\ tipAnchors = EmptyAnchors
    /\ tipRoot = Null
    /\ tipBlock = Null
    /\ viewCoins = EmptyCoins
    /\ viewNfs = EmptyNfs
    /\ viewAnchors = EmptyAnchors
    /\ viewRoot = Null
    /\ viewBlock = Null
    /\ session = "idle"
    /\ logicError = FALSE

(* ConnectBlock of the genesis block: no coin and no anchor is looked at.   *)
ConnectGenesis ==
    /\ session = "idle" /\ ~logicError
    /\ TipBestBlock = Null
    /\ viewBlock' = Genesis
    /\ session' = "done"
    /\ UNCHANGED <<dbVars, tipVars, viewCoins, viewNfs, viewAnchors, viewRoot, logicError>>

(* ConnectBlock up to its transaction loop: the best block is compared with *)
(* the block's parent, the best anchor's tree is read and must be there.    *)
OpenConnect ==
    /\ session = "idle" /\ ~logicError
    /\ TipBestBlock # Null
    /\ tipBlock' = TipBestBlock
    /\ viewBlock' = TipBestBlock
    /\ tipRoot' = TipBestAnchor
    /\ viewRoot' = TipBestAnchor
    /\ tipAnchors' = TipFetchAnchor(TipBestAnchor)
    /\ viewAnchors' = ViewFetchAnchor(TipBestAnchor)
    /\ logicError' = ~TipAnchor[TipBestAnchor]
    /\ session' = "connect"
    /\ UNCHANGED <<dbVars, tipCoins, tipNfs, viewCoins, viewNfs>>

(* DisconnectTip up to DisconnectBlock's loop: the tip's anchor is noted.   *)
OpenDisconnect ==
    /\ session = "idle" /\ ~logicError
    /\ TipBestBlock \notin {Null, Genesis}
    /\ tipRoot' = TipBestAnchor
    /\ tipBlock' = TipBestBlock
    /\ viewBlock' = TipBestBlock
    /\ session' = "disconnect"
    /\ UNCHANGED <<dbVars, tipCoins, tipNfs, tipAnchors, viewCoins, viewNfs,
                    viewAnchors, viewRoot, logicError>>

DestroyView ==
    /\ viewCoins' = EmptyCoins
    /\ viewNfs' = EmptyNfs
    /\ viewAnchors' = EmptyAnchors
    /\ viewRoot' = Null
    /\ viewBlock' = Null

(* Flush of the view into the tip.  The view is destroyed afterwards.       *)
FlushView ==
    /\ session = "done" /\ ~logicError
    /\ logicError' = \E o \in Outpoints : FreshMisapplied(tipCoins[o], viewCoins[o])
    /\ tipCoins' = [o \in Outpoints |-> BatchWriteCoin(tipCoins[o], viewCoins[o])]
    /\ tipNfs' = [n \in Nullifiers |-> BatchWriteFlag(tipNfs[n], viewNfs[n])]
    /\ tipAnchors' = [r \in Roots |-> BatchWriteFlag(tipAnchors[r], viewAnchors[r])]
    /\ tipRoot' = viewRoot
    /\ tipBlock' = viewBlock
    /\ DestroyView
    /\ session' = "idle"
    /\ UNCHANGED dbVars

(* A failed check, or a check-only call: the view is destroyed unflushed.   *)
Abandon ==
    /\ session # "idle" /\ ~logicError
    /\ DestroyView
    /\ session' = "idle"
    /\ UNCHANGED <<dbVars, tipVars, logicError>>

-----------------------------------------------------------------------------
(* Steps of a session.                                                      *)

InBlock == session \in {"connect", "disconnect"} /\ ~logicError

(* HaveInputs, AccessCoin, GetValueIn, ...: a read fills the caches.        *)
ViewAccessCoin(o) ==
    /\ InBlock
    /\ tipCoins' = TipFor(o)
    /\ viewCoins' = ViewFetchCoin(o)
    /\ UNCHANGED <<dbVars, tipNfs, tipAnchors, tipRoot, tipBlock,
                    viewNfs, viewAnchors, viewRoot, viewBlock, session, logicError>>

(* UpdateCoins spends an input that HaveInputs found; DisconnectBlock       *)
(* spends an output of the block whether or not it is there.                *)
ViewSpendCoin(o) ==
    /\ InBlock
    /\ session = "connect" => ViewCoin[o] # Spent
    /\ tipCoins' = TipFor(o)
    /\ viewCoins' = SpendCoin(ViewFetchCoin(o), o)
    /\ UNCHANGED <<dbVars, tipNfs, tipAnchors, tipRoot, tipBlock,
                    viewNfs, viewAnchors, viewRoot, viewBlock, session, logicError>>

(* AddCoins of a connected transaction (check = false): nothing is looked   *)
(* up, because no unspent output has the id of a new transaction.           *)
AddOutput(o, c) ==
    /\ session = "connect" /\ ~logicError
    /\ ViewCoin[o] = Spent
    /\ viewCoins' = AddCoin(viewCoins, o, c, FALSE)
    /\ logicError' = AddCoinThrows(viewCoins, o, c, FALSE)
    /\ UNCHANGED <<dbVars, tipVars, viewNfs, viewAnchors, viewRoot, viewBlock, session>>

(* ApplyTxInUndo: HaveCoin decides whether the restored coin overwrites.    *)
ApplyTxInUndo(o, c) ==
    /\ session = "disconnect" /\ ~logicError
    /\ LET cache == ViewFetchCoin(o)
           fClean == EntryOrBlank(cache, o).coin = Spent
       IN  /\ viewCoins' = AddCoin(cache, o, c, ~fClean)
           /\ logicError' = AddCoinThrows(cache, o, c, ~fClean)
    /\ tipCoins' = TipFor(o)
    /\ UNCHANGED <<dbVars, tipNfs, tipAnchors, tipRoot, tipBlock,
                    viewNfs, viewAnchors, viewRoot, viewBlock, session>>

(* HaveShieldedRequirements: an unspent nullifier and a known anchor, or    *)
(* the transaction is refused; either way the answers are cached.           *)
ShieldedReads(n, r) ==
    /\ tipNfs' = TipForNf(n)
    /\ tipAnchors' = IF ViewNf[n] THEN tipAnchors ELSE TipForAnchor(r)
    /\ viewAnchors' = IF ViewNf[n] THEN viewAnchors ELSE ViewFetchAnchor(r)
    /\ UNCHANGED <<dbVars, tipCoins, tipRoot, tipBlock, viewCoins, viewRoot,
                    viewBlock, session, logicError>>

HaveShieldedRequirements(n, r) == ~ViewNf[n] /\ ViewAnchor[r]

RefuseShielded(n, r) ==
    /\ session = "connect" /\ ~logicError
    /\ ~HaveShieldedRequirements(n, r)
    /\ viewNfs' = ViewFetchNf(n)
    /\ ShieldedReads(n, r)

SpendNote(n, r) ==
    /\ session = "connect" /\ ~logicError
    /\ HaveShieldedRequirements(n, r)
    /\ viewNfs' = SetNullifiers(ViewFetchNf(n), n, TRUE)
    /\ ShieldedReads(n, r)

UnspendNote(n) ==
    /\ session = "disconnect" /\ ~logicError
    /\ viewNfs' = SetNullifiers(viewNfs, n, FALSE)
    /\ UNCHANGED <<dbVars, tipVars, viewCoins, viewAnchors, viewRoot, viewBlock,
                    session, logicError>>

(* The end of ConnectBlock: the new tree, which only grows, and the block.  *)
FinishConnect(b, newrt) ==
    /\ session = "connect" /\ ~logicError
    /\ newrt >= ViewBestAnchor
    /\ viewAnchors' = PushAnchor(viewAnchors, ViewBestAnchor, newrt)
    /\ viewRoot' = newrt
    /\ viewBlock' = b
    /\ session' = "done"
    /\ UNCHANGED <<dbVars, tipVars, viewCoins, viewNfs, logicError>>

(* hashFinalSaplingRoot of the parent block: the same tree, if the block    *)
(* added no note, or else the last one before it.                           *)
IsParentRoot(r) ==
    /\ ViewAnchor[r] /\ r <= ViewBestAnchor
    /\ \A q \in Roots : ViewAnchor[q] /\ q < ViewBestAnchor => q <= r

(* The end of DisconnectBlock: the tree of the parent block, and its hash.  *)
FinishDisconnect(b, newrt) ==
    /\ session = "disconnect" /\ ~logicError
    /\ IsParentRoot(newrt)
    /\ LET currentRoot == ViewBestAnchor
           bring == currentRoot # newrt
       IN  /\ logicError' = (bring /\ ~ViewAnchor[currentRoot])
           /\ tipAnchors' = IF bring THEN TipForAnchor(currentRoot) ELSE tipAnchors
           /\ viewAnchors' = IF bring
                 THEN PopAnchor(ViewFetchAnchor(currentRoot), currentRoot, newrt)
                 ELSE viewAnchors
    /\ viewRoot' = newrt
    /\ viewBlock' = b
    /\ session' = "done"
    /\ UNCHANGED <<dbVars, tipCoins, tipNfs, tipRoot, tipBlock, viewCoins, viewNfs>>

-----------------------------------------------------------------------------
(* Between sessions.                                                        *)

(* AccessCoin, GetNullifier, GetSaplingAnchorAt and GetBestAnchor of        *)
(* pcoinsTip, from AcceptToMemoryPool, the wallet, the miner and RPC.       *)
TipRead ==
    /\ session = "idle" /\ ~logicError
    /\ \/ \E o \in Outpoints : tipCoins' = TipFetchCoin(o) /\ UNCHANGED <<tipNfs, tipAnchors, tipRoot>>
       \/ \E n \in Nullifiers : tipNfs' = TipFetchNf(n) /\ UNCHANGED <<tipCoins, tipAnchors, tipRoot>>
       \/ \E r \in Roots : tipAnchors' = TipFetchAnchor(r) /\ UNCHANGED <<tipCoins, tipNfs, tipRoot>>
       \/ tipRoot' = TipBestAnchor /\ UNCHANGED <<tipCoins, tipNfs, tipAnchors>>
    /\ UNCHANGED <<dbVars, tipBlock, viewVars, session, logicError>>

Uncache(o) ==
    /\ session = "idle" /\ ~logicError
    /\ tipCoins[o] # NoEntry
    /\ ~tipCoins[o].dirty /\ ~tipCoins[o].fresh
    /\ tipCoins' = [tipCoins EXCEPT ![o] = NoEntry]
    /\ UNCHANGED <<dbVars, tipNfs, tipAnchors, tipRoot, tipBlock, viewVars, session, logicError>>

(* FlushStateToDisk with a full flush: pcoinsTip->Flush() into the database *)
(* empties the maps and keeps the two hashes.                               *)
FlushTip ==
    /\ session = "idle" /\ ~logicError
    /\ TipBestBlock # Null
    /\ dbCoins' = [o \in Outpoints |-> DbWriteCoin(dbCoins[o], tipCoins[o])]
    /\ dbNfs' = [n \in Nullifiers |-> DbWriteFlag(dbNfs[n], tipNfs[n])]
    /\ dbAnchors' = [r \in Roots |-> r # EmptyRoot /\ DbWriteFlag(dbAnchors[r], tipAnchors[r])]
    /\ dbRoot' = DbWriteHash(dbRoot, tipRoot)
    /\ dbBlock' = TipBestBlock
    /\ tipCoins' = EmptyCoins
    /\ tipNfs' = EmptyNfs
    /\ tipAnchors' = EmptyAnchors
    /\ tipBlock' = TipBestBlock
    /\ UNCHANGED <<tipRoot, viewVars, session, logicError>>

Next ==
    \/ ConnectGenesis
    \/ OpenConnect
    \/ OpenDisconnect
    \/ \E o \in Outpoints : ViewAccessCoin(o) \/ ViewSpendCoin(o) \/ Uncache(o)
    \/ \E o \in Outpoints, c \in Coins : AddOutput(o, c) \/ ApplyTxInUndo(o, c)
    \/ \E n \in Nullifiers, r \in Roots : RefuseShielded(n, r) \/ SpendNote(n, r)
    \/ \E n \in Nullifiers : UnspendNote(n)
    \/ \E b \in BlockHashes \ {Genesis}, r \in Roots : FinishConnect(b, r)
    \/ \E b \in BlockHashes, r \in Roots : FinishDisconnect(b, r)
    \/ FlushView
    \/ Abandon
    \/ TipRead
    \/ FlushTip

Spec == Init /\ [][Next]_vars
-----------------------------------------------------------------------------
(* Properties.                                                              *)

(* Every variable has its type: no flush of CCoinsViewCache or write of     *)
(* CCoinsViewDB leaves an entry, a root or a best block out of its range.   *)
TypeOK ==
    /\ dbCoins \in [Outpoints -> Coins \cup {Spent}]
    /\ dbNfs \in [Nullifiers -> BOOLEAN]
    /\ dbAnchors \in [Roots -> BOOLEAN]
    /\ dbRoot \in Roots
    /\ dbBlock \in BlockHashes \cup {Null}
    /\ tipCoins \in CoinCache /\ viewCoins \in CoinCache
    /\ tipNfs \in NfCache /\ viewNfs \in NfCache
    /\ tipAnchors \in AnchorCache /\ viewAnchors \in AnchorCache
    /\ tipRoot \in Roots \cup {Null} /\ viewRoot \in Roots \cup {Null}
    /\ tipBlock \in BlockHashes \cup {Null} /\ viewBlock \in BlockHashes \cup {Null}
    /\ session \in {"idle", "connect", "disconnect", "done"}
    /\ logicError \in BOOLEAN

CoinFlagsSound(cache, base) ==
    \A o \in Outpoints : cache[o] # NoEntry =>
        /\ cache[o].fresh => base[o] = Spent
        /\ ~cache[o].dirty => cache[o].coin = base[o]

FlagsSound(cache, base) ==
    \A k \in DOMAIN cache : cache[k] # NoEntry =>
        (~cache[k].dirty => cache[k].entered = base[k])

(* The two flags mean what coins.h says of them, at both levels and for     *)
(* coins, nullifiers and anchors alike: an entry without DIRTY equals the   *)
(* parent's version, and an entry with FRESH has no unspent coin in the     *)
(* parent view.  AddCoin, SpendCoin, Uncache and BatchWrite all skip work   *)
(* on the strength of these flags.                                          *)
FlagsMeanWhatTheySay ==
    /\ CoinFlagsSound(tipCoins, dbCoins) /\ CoinFlagsSound(viewCoins, TipCoin)
    /\ FlagsSound(tipNfs, dbNfs) /\ FlagsSound(viewNfs, TipNf)
    /\ FlagsSound(tipAnchors, DbAnchor) /\ FlagsSound(viewAnchors, TipAnchor)

(* No session makes AddCoin or BatchWrite throw its logic_error, and the    *)
(* asserts that the best anchor's tree can be read never fail.              *)
NoLogicError == ~logicError

(* The tree of a disconnected block is never an anchor any more: whatever   *)
(* the caches hold, the anchors a transaction may refer to are those of the *)
(* current chain, the best one included.                                    *)
AnchorsFollowTheChain ==
    /\ ViewAnchor[ViewBestAnchor]
    /\ \A r \in Roots : ViewAnchor[r] => r <= ViewBestAnchor

Committed ==
    [coins |-> TipCoin, nfs |-> TipNf, anchors |-> TipAnchor,
     root |-> TipBestAnchor, best |-> TipBestBlock]

Working ==
    [coins |-> ViewCoin, nfs |-> ViewNf, anchors |-> ViewAnchor,
     root |-> ViewBestAnchor, best |-> ViewBestBlock]

Stored ==
    [coins |-> dbCoins, nfs |-> dbNfs, anchors |-> DbAnchor,
     root |-> dbRoot, best |-> dbBlock]

(* A flush of pcoinsTip leaves in the database exactly the state the node   *)
(* was working with, and nothing else ever changes the database.            *)
FlushStoresTheTip == [][dbVars' # dbVars => Stored' = Committed]_vars

Abs == INSTANCE UtxoSet WITH committed <- Committed, working <- Working

(* The caches are invisible: the stack of views implements the plain maps   *)
(* of UtxoSet.  Reads, evictions and flushes to disk change nothing, a      *)
(* flushed view commits exactly what was done to it, an abandoned view      *)
(* leaves no trace in pcoinsTip.                                            *)
ImplementsUtxoSet == Abs!ASpec
=============================================================================
