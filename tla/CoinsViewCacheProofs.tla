------------------------ MODULE CoinsViewCacheProofs ------------------------
(***************************************************************************)
(* Proofs about CoinsViewCache, for every set of outpoints, coins,         *)
(* nullifiers and block hashes and every bound on the Sapling tree.        *)
(***************************************************************************)
EXTENDS CoinsViewCache, TLAPS

\* A leaf is proved by Zenon unless it cites another prover.
USE Zenon

-----------------------------------------------------------------------------
(* One cache of coins over a base.                                          *)

CoinBase == [Outpoints -> Coins \cup {Spent}]

SoundEntry(e, baseCoin) ==
    e # NoEntry => /\ e.fresh => baseCoin = Spent
                   /\ ~e.dirty => e.coin = baseCoin

(* new is a sound cache that answers coin for o, and for the other          *)
(* outpoints what cache answers.                                            *)
Answers(new, cache, base, o, coin) ==
    /\ new \in CoinCache
    /\ CoinFlagsSound(new, base)
    /\ CoinIn(new, base, o) = coin
    /\ \A p \in Outpoints : p # o => CoinIn(new, base, p) = CoinIn(cache, base, p)

(* Replacing one entry of a sound cache by a sound entry.                   *)
LEMMA PutEntrySound ==
    ASSUME NEW cache \in CoinCache, NEW base \in CoinBase, NEW o \in Outpoints,
           NEW e, e \in CoinEntry \/ e = NoEntry,
           CoinFlagsSound(cache, base),
           SoundEntry(e, base[o]),
           NEW coin, coin = IF e = NoEntry THEN base[o] ELSE e.coin
    PROVE  Answers([cache EXCEPT ![o] = e], cache, base, o, coin)
  <1> DEFINE new == [cache EXCEPT ![o] = e]
  <1>1. new \in CoinCache
    BY DEF CoinCache
  <1>2. \A p \in Outpoints : new[p] = IF p = o THEN e ELSE cache[p]
    BY DEF CoinCache
  <1> HIDE DEF new
  <1>3. CoinFlagsSound(new, base)
    BY <1>2 DEF CoinFlagsSound, SoundEntry
  <1>4. /\ CoinIn(new, base, o) = coin
        /\ \A p \in Outpoints : p # o => CoinIn(new, base, p) = CoinIn(cache, base, p)
    BY <1>2 DEF CoinIn
  <1> QED
    BY <1>1, <1>3, <1>4 DEF Answers, new

(* FetchCoin keeps a sound cache sound and changes no answer; an outpoint   *)
(* still missing afterwards has no coin in the base.                        *)
LEMMA FetchCoinSound ==
    ASSUME NEW cache \in CoinCache, NEW base \in CoinBase, NEW o \in Outpoints,
           NEW found \in BOOLEAN, NEW coin,
           CoinFlagsSound(cache, base),
           found => coin = base[o],
           ~found => base[o] = Spent
    PROVE  /\ Answers(FetchCoin(cache, o, found, coin), cache, base, o, CoinIn(cache, base, o))
           /\ FetchCoin(cache, o, found, coin)[o] = NoEntry => base[o] = Spent
  <1>1. CASE cache[o] # NoEntry \/ ~found
    BY <1>1 DEF FetchCoin, Answers
  <1>2. CASE cache[o] = NoEntry /\ found
    <2> DEFINE e == [coin |-> base[o], dirty |-> FALSE, fresh |-> base[o] = Spent]
    <2>1. FetchCoin(cache, o, found, coin) = [cache EXCEPT ![o] = e]
      BY <1>2 DEF FetchCoin
    <2>2. e \in CoinEntry
      BY DEF CoinEntry, CoinBase
    <2>3. e # NoEntry /\ SoundEntry(e, base[o]) /\ e.coin = base[o]
      BY <2>2, ConstantsAssumption DEF SoundEntry
    <2>4. CoinIn(cache, base, o) = base[o]
      BY <1>2 DEF CoinIn
    <2>5. [cache EXCEPT ![o] = e][o] = e
      BY DEF CoinCache
    <2> HIDE DEF e
    <2>6. Answers([cache EXCEPT ![o] = e], cache, base, o, base[o])
      BY <2>2, <2>3, PutEntrySound
    <2> QED
      BY <2>1, <2>3, <2>4, <2>5, <2>6
  <1> QED
    BY <1>1, <1>2

(* AddCoin keeps a sound cache sound and sets one answer, provided the      *)
(* caller that denies an overwrite is right that there is no coin.          *)
LEMMA AddCoinSound ==
    ASSUME NEW cache \in CoinCache, NEW base \in CoinBase, NEW o \in Outpoints,
           NEW coin \in Coins \ Unspendable, NEW overwrite \in BOOLEAN,
           CoinFlagsSound(cache, base),
           ~overwrite => CoinIn(cache, base, o) = Spent
    PROVE  /\ Answers(AddCoin(cache, o, coin, overwrite), cache, base, o, coin)
           /\ ~AddCoinThrows(cache, o, coin, overwrite)
  <1> DEFINE old == EntryOrBlank(cache, o)
             e == [coin |-> coin, dirty |-> TRUE,
                   fresh |-> old.fresh \/ (~overwrite /\ ~old.dirty)]
  <1>1. old \in CoinEntry
    BY DEF EntryOrBlank, BlankEntry, CoinEntry, CoinCache
  <1>2. AddCoin(cache, o, coin, overwrite) = [cache EXCEPT ![o] = e]
    BY DEF AddCoin
  <1>3. old.fresh => base[o] = Spent
    BY DEF EntryOrBlank, BlankEntry, CoinFlagsSound
  <1>4. ~overwrite => old.coin = Spent
    BY DEF EntryOrBlank, BlankEntry, CoinIn
  <1>5. ~overwrite /\ ~old.dirty => base[o] = Spent
    BY DEF EntryOrBlank, BlankEntry, CoinIn, CoinFlagsSound
  <1>6. e \in CoinEntry
    BY <1>1 DEF CoinEntry
  <1>7. e # NoEntry /\ SoundEntry(e, base[o]) /\ e.coin = coin
    BY <1>3, <1>5, <1>6, ConstantsAssumption DEF SoundEntry
  <1>8. ~AddCoinThrows(cache, o, coin, overwrite)
    BY <1>4 DEF AddCoinThrows
  <1> HIDE DEF e
  <1>9. Answers([cache EXCEPT ![o] = e], cache, base, o, coin)
    BY <1>6, <1>7, PutEntrySound
  <1> QED
    BY <1>2, <1>8, <1>9

(* SpendCoin, on a cache that has fetched the outpoint, empties one answer. *)
LEMMA SpendCoinSound ==
    ASSUME NEW cache \in CoinCache, NEW base \in CoinBase, NEW o \in Outpoints,
           CoinFlagsSound(cache, base),
           cache[o] = NoEntry => base[o] = Spent
    PROVE  Answers(SpendCoin(cache, o), cache, base, o, Spent)
  <1>1. CASE cache[o] = NoEntry
    BY <1>1 DEF SpendCoin, CoinIn, Answers
  <1>2. CASE cache[o] # NoEntry
    <2> DEFINE s == [coin |-> Spent, dirty |-> TRUE, fresh |-> FALSE]
               e == IF cache[o].fresh THEN NoEntry ELSE s
    <2>1. SpendCoin(cache, o) = [cache EXCEPT ![o] = e]
      BY <1>2 DEF SpendCoin
    <2> s \in CoinEntry
      BY DEF CoinEntry
    <2>2. s # NoEntry
      BY ConstantsAssumption
    <2>3. (e \in CoinEntry \/ e = NoEntry) /\ SoundEntry(e, base[o])
      BY <2>2 DEF SoundEntry
    <2>4. Spent = IF e = NoEntry THEN base[o] ELSE e.coin
      BY <1>2, <2>2 DEF CoinFlagsSound
    <2> HIDE DEF e
    <2>5. Answers([cache EXCEPT ![o] = e], cache, base, o, Spent)
      BY <2>3, <2>4, PutEntrySound
    <2> QED
      BY <2>1, <2>5
  <1> QED
    BY <1>1, <1>2

(* What BatchWrite makes of a parent's coins and its child's.               *)
Flushed(parent, child) == [o \in Outpoints |-> BatchWriteCoin(parent[o], child[o])]

(* Writing a sound child to its sound parent never meets a misapplied       *)
(* FRESH, leaves the parent sound, and gives it the child's answers.        *)
LEMMA BatchWriteSound ==
    ASSUME NEW parent \in CoinCache, NEW child \in CoinCache, NEW base \in CoinBase,
           NEW mid \in CoinBase,
           \A o \in Outpoints : mid[o] = CoinIn(parent, base, o),
           CoinFlagsSound(parent, base),
           CoinFlagsSound(child, mid)
    PROVE  /\ Flushed(parent, child) \in CoinCache
           /\ CoinFlagsSound(Flushed(parent, child), base)
           /\ \A o \in Outpoints :
                CoinIn(Flushed(parent, child), base, o) = CoinIn(child, mid, o)
           /\ \A o \in Outpoints : ~FreshMisapplied(parent[o], child[o])
  <1> DEFINE new == Flushed(parent, child)
  <1>0. new = [o \in Outpoints |-> BatchWriteCoin(parent[o], child[o])]
    BY DEF Flushed
  <1> HIDE DEF new
  <1> SUFFICES ASSUME NEW o \in Outpoints
               PROVE  /\ new[o] \in CoinEntry \cup {NoEntry}
                      /\ SoundEntry(new[o], base[o])
                      /\ CoinIn(new, base, o) = CoinIn(child, mid, o)
                      /\ ~FreshMisapplied(parent[o], child[o])
    BY <1>0 DEF CoinCache, CoinFlagsSound, SoundEntry, new
  <1>1. /\ parent[o] \in CoinEntry \cup {NoEntry} /\ SoundEntry(parent[o], base[o])
        /\ child[o] \in CoinEntry \cup {NoEntry} /\ SoundEntry(child[o], mid[o])
        /\ mid[o] = IF parent[o] = NoEntry THEN base[o] ELSE parent[o].coin
    BY DEF CoinCache, CoinFlagsSound, SoundEntry, CoinIn
  <1>2. new[o] = BatchWriteCoin(parent[o], child[o])
    BY <1>0
  <1> DEFINE fresh == IF parent[o] = NoEntry THEN child[o].fresh ELSE parent[o].fresh
             e == [coin |-> child[o].coin, dirty |-> TRUE, fresh |-> fresh]
  <1>3. CASE ~IsDirty(child[o])
    BY <1>1, <1>2, <1>3 DEF BatchWriteCoin, IsDirty, SoundEntry, CoinIn, FreshMisapplied
  <1>4. CASE IsDirty(child[o])
    <2>1. child[o] \in CoinEntry /\ fresh \in BOOLEAN /\ child[o] # NoEntry
      BY <1>1, <1>4 DEF CoinEntry, IsDirty
    <2> e \in CoinEntry
      BY <2>1 DEF CoinEntry
    <2>2. e # NoEntry
      BY ConstantsAssumption
    <2>3. fresh => base[o] = Spent
      BY <1>1, <1>4 DEF IsDirty, SoundEntry
    <2>4. new[o] = IF fresh /\ child[o].coin = Spent THEN NoEntry ELSE e
      BY <1>2, <1>4 DEF BatchWriteCoin
    <2>5. ~FreshMisapplied(parent[o], child[o])
      BY <1>1 DEF FreshMisapplied, IsDirty, SoundEntry
    <2> HIDE DEF fresh
    <2> QED
      BY <2>1, <2>2, <2>3, <2>4, <2>5, SMT DEF SoundEntry, CoinIn
  <1> QED
    BY <1>3, <1>4

-----------------------------------------------------------------------------
(* One cache of nullifiers or anchors over a base; K is its set of keys.    *)

FlagCache(K) == [K -> FlagEntry \cup {NoEntry}]

FlagAnswers(new, cache, base, K, k, entered) ==
    /\ new \in FlagCache(K)
    /\ FlagsSound(new, base)
    /\ FlagIn(new, base, k) = entered
    /\ \A p \in K : p # k => FlagIn(new, base, p) = FlagIn(cache, base, p)

LEMMA PutFlagSound ==
    ASSUME NEW K, NEW cache \in FlagCache(K), NEW base \in [K -> BOOLEAN], NEW k \in K,
           NEW e \in FlagEntry,
           FlagsSound(cache, base),
           ~e.dirty => e.entered = base[k]
    PROVE  FlagAnswers([cache EXCEPT ![k] = e], cache, base, K, k, e.entered)
  <1> DEFINE new == [cache EXCEPT ![k] = e]
  <1>1. new \in FlagCache(K) /\ DOMAIN new = K /\ DOMAIN cache = K
    BY DEF FlagCache
  <1>2. \A p \in K : new[p] = IF p = k THEN e ELSE cache[p]
    BY DEF FlagCache
  <1>3. e # NoEntry
    BY ConstantsAssumption
  <1> HIDE DEF new
  <1>4. FlagsSound(new, base)
    BY <1>1, <1>2 DEF FlagsSound
  <1>5. /\ FlagIn(new, base, k) = e.entered
        /\ \A p \in K : p # k => FlagIn(new, base, p) = FlagIn(cache, base, p)
    BY <1>2, <1>3 DEF FlagIn
  <1> QED
    BY <1>1, <1>4, <1>5 DEF FlagAnswers, new

(* Reading a nullifier changes no answer.                                   *)
LEMMA GetNullifierSound ==
    ASSUME NEW K, NEW cache \in FlagCache(K), NEW base \in [K -> BOOLEAN], NEW k \in K,
           FlagsSound(cache, base)
    PROVE  FlagAnswers(GetNullifier(cache, k, base[k]), cache, base, K, k, FlagIn(cache, base, k))
  <1> DEFINE e == [entered |-> base[k], dirty |-> FALSE]
  <1>1. e \in FlagEntry /\ e.entered = base[k]
    BY DEF FlagEntry
  <1> HIDE DEF e
  <1>2. FlagAnswers([cache EXCEPT ![k] = e], cache, base, K, k, base[k])
    BY <1>1, PutFlagSound
  <1>3. CASE cache[k] # NoEntry
    BY <1>3 DEF GetNullifier, FlagAnswers
  <1>4. CASE cache[k] = NoEntry
    BY <1>2, <1>4 DEF GetNullifier, FlagIn, e
  <1> QED
    BY <1>3, <1>4

LEMMA SetNullifiersSound ==
    ASSUME NEW K, NEW cache \in FlagCache(K), NEW base \in [K -> BOOLEAN], NEW k \in K,
           FlagsSound(cache, base), NEW spent \in BOOLEAN
    PROVE  FlagAnswers(SetNullifiers(cache, k, spent), cache, base, K, k, spent)
  <1> DEFINE e == [entered |-> spent, dirty |-> TRUE]
  <1>1. e \in FlagEntry /\ e.entered = spent /\ e.dirty
    BY DEF FlagEntry
  <1> HIDE DEF e
  <1>2. FlagAnswers([cache EXCEPT ![k] = e], cache, base, K, k, spent)
    BY <1>1, PutFlagSound
  <1> QED
    BY <1>2 DEF SetNullifiers, e

(* Reading an anchor changes no answer, and one found is in the cache.      *)
LEMMA GetAnchorSound ==
    ASSUME NEW K, NEW cache \in FlagCache(K), NEW base \in [K -> BOOLEAN], NEW k \in K,
           FlagsSound(cache, base)
    PROVE  FlagAnswers(GetSaplingAnchorAt(cache, k, base[k]), cache, base, K, k,
                       FlagIn(cache, base, k))
  <1> DEFINE e == [entered |-> TRUE, dirty |-> FALSE]
  <1>1. e \in FlagEntry /\ e.entered = TRUE
    BY DEF FlagEntry
  <1> HIDE DEF e
  <1>2. base[k] => FlagAnswers([cache EXCEPT ![k] = e], cache, base, K, k, e.entered)
    BY <1>1, PutFlagSound
  <1>3. CASE cache[k] # NoEntry \/ ~base[k]
    BY <1>3 DEF GetSaplingAnchorAt, FlagAnswers
  <1>4. CASE cache[k] = NoEntry /\ base[k]
    BY <1>1, <1>2, <1>4 DEF GetSaplingAnchorAt, FlagAnswers, FlagIn, e
  <1> QED
    BY <1>3, <1>4

LEMMA PushAnchorSound ==
    ASSUME NEW K, NEW cache \in FlagCache(K), NEW base \in [K -> BOOLEAN],
           NEW old \in K, NEW k \in K,
           FlagsSound(cache, base), FlagIn(cache, base, old) = TRUE
    PROVE  FlagAnswers(PushAnchor(cache, old, k), cache, base, K, k, TRUE)
  <1> DEFINE e == [entered |-> TRUE, dirty |-> TRUE]
  <1>1. e \in FlagEntry /\ e.entered = TRUE /\ e.dirty
    BY DEF FlagEntry
  <1> HIDE DEF e
  <1>2. FlagAnswers([cache EXCEPT ![k] = e], cache, base, K, k, e.entered)
    BY <1>1, PutFlagSound
  <1>3. CASE old = k
    BY <1>3 DEF PushAnchor, FlagAnswers
  <1>4. CASE old # k
    BY <1>1, <1>2, <1>4 DEF PushAnchor, FlagAnswers, e
  <1> QED
    BY <1>3, <1>4

LEMMA PopAnchorSound ==
    ASSUME NEW K, NEW cache \in FlagCache(K), NEW base \in [K -> BOOLEAN],
           NEW old \in K, NEW k \in K, old # k,
           FlagsSound(cache, base)
    PROVE  FlagAnswers(PopAnchor(cache, old, k), cache, base, K, old, FALSE)
  <1> DEFINE e == [entered |-> FALSE, dirty |-> TRUE]
  <1>1. e \in FlagEntry /\ e.entered = FALSE /\ e.dirty
    BY DEF FlagEntry
  <1> HIDE DEF e
  <1>2. FlagAnswers([cache EXCEPT ![old] = e], cache, base, K, old, e.entered)
    BY <1>1, PutFlagSound
  <1> QED
    BY <1>1, <1>2 DEF PopAnchor, FlagAnswers, e

(* And of their nullifiers or anchors, for the keys K.                      *)
FlushedFlags(K, parent, child) == [k \in K |-> BatchWriteFlag(parent[k], child[k])]

LEMMA BatchWriteFlagSound ==
    ASSUME NEW K, NEW parent \in FlagCache(K), NEW child \in FlagCache(K),
           NEW base \in [K -> BOOLEAN], NEW mid \in [K -> BOOLEAN],
           \A k \in K : mid[k] = FlagIn(parent, base, k),
           FlagsSound(parent, base),
           FlagsSound(child, mid)
    PROVE  /\ FlushedFlags(K, parent, child) \in FlagCache(K)
           /\ FlagsSound(FlushedFlags(K, parent, child), base)
           /\ \A k \in K : FlagIn(FlushedFlags(K, parent, child), base, k) = FlagIn(child, mid, k)
  <1> DEFINE new == FlushedFlags(K, parent, child)
  <1>0. new = [k \in K |-> BatchWriteFlag(parent[k], child[k])]
    BY DEF FlushedFlags
  <1> HIDE DEF new
  <1> SUFFICES ASSUME NEW k \in K
               PROVE  /\ new[k] \in FlagEntry \cup {NoEntry}
                      /\ new[k] # NoEntry => (~new[k].dirty => new[k].entered = base[k])
                      /\ FlagIn(new, base, k) = FlagIn(child, mid, k)
    BY <1>0 DEF FlagCache, FlagsSound, new
  <1>1. /\ parent[k] \in FlagEntry \cup {NoEntry} /\ child[k] \in FlagEntry \cup {NoEntry}
        /\ parent[k] # NoEntry => (~parent[k].dirty => parent[k].entered = base[k])
        /\ child[k] # NoEntry => (~child[k].dirty => child[k].entered = mid[k])
        /\ mid[k] = IF parent[k] = NoEntry THEN base[k] ELSE parent[k].entered
    BY DEF FlagCache, FlagsSound, FlagIn
  <1>2. new[k] = BatchWriteFlag(parent[k], child[k])
    BY <1>0
  <1> DEFINE e == [entered |-> child[k].entered, dirty |-> TRUE]
  <1>3. CASE ~IsDirty(child[k]) \/ (parent[k] # NoEntry /\ parent[k].entered = child[k].entered)
    BY <1>1, <1>2, <1>3 DEF BatchWriteFlag, IsDirty, FlagIn
  <1>4. CASE ~(~IsDirty(child[k]) \/ (parent[k] # NoEntry /\ parent[k].entered = child[k].entered))
    <2>1. child[k] \in FlagEntry /\ child[k] # NoEntry
      BY <1>1, <1>4 DEF IsDirty
    <2> e \in FlagEntry
      BY <2>1 DEF FlagEntry
    <2>2. e # NoEntry
      BY ConstantsAssumption
    <2>3. new[k] = e
      BY <1>2, <1>4 DEF BatchWriteFlag
    <2> QED
      BY <2>1, <2>2, <2>3, SMT DEF FlagIn
  <1> QED
    BY <1>3, <1>4

-----------------------------------------------------------------------------
(* The coins of the three levels, step by step.                             *)

CoinsOK ==
    /\ dbCoins \in CoinBase /\ tipCoins \in CoinCache /\ viewCoins \in CoinCache
    /\ CoinFlagsSound(tipCoins, dbCoins)
    /\ CoinFlagsSound(viewCoins, TipCoin)

LEMMA CoinType ==
    ASSUME NEW cache \in CoinCache, NEW base \in CoinBase
    PROVE  [o \in Outpoints |-> CoinIn(cache, base, o)] \in CoinBase
  <1> SUFFICES ASSUME NEW o \in Outpoints
               PROVE  CoinIn(cache, base, o) \in Coins \cup {Spent}
    BY DEF CoinBase
  <1>1. cache[o] \in CoinEntry \cup {NoEntry} /\ base[o] \in Coins \cup {Spent}
    BY DEF CoinCache, CoinBase
  <1> QED
    BY <1>1 DEF CoinIn, CoinEntry

LEMMA TipCoinType ==
    ASSUME CoinsOK
    PROVE  TipCoin \in CoinBase /\ ViewCoin \in CoinBase
  BY CoinType DEF CoinsOK, TipCoin, ViewCoin

LEMMA TipFetchSound ==
    ASSUME CoinsOK, NEW o \in Outpoints
    PROVE  /\ Answers(TipFetchCoin(o), tipCoins, dbCoins, o, TipCoin[o])
           /\ TipFetchCoin(o)[o] = NoEntry => dbCoins[o] = Spent
  <1>1. TipCoin[o] = CoinIn(tipCoins, dbCoins, o)
    BY DEF TipCoin
  <1> QED
    BY <1>1, FetchCoinSound DEF CoinsOK, TipFetchCoin

LEMMA ViewFetchSound ==
    ASSUME CoinsOK, NEW o \in Outpoints
    PROVE  /\ Answers(TipFor(o), tipCoins, dbCoins, o, TipCoin[o])
           /\ Answers(ViewFetchCoin(o), viewCoins, TipCoin, o, ViewCoin[o])
           /\ ViewFetchCoin(o)[o] = NoEntry => TipCoin[o] = Spent
  <1>1. TipCoin \in CoinBase
    BY TipCoinType
  <1>2. /\ TipCoin[o] = CoinIn(tipCoins, dbCoins, o)
        /\ ViewCoin[o] = CoinIn(viewCoins, TipCoin, o)
    BY DEF TipCoin, ViewCoin
  <1>3. Answers(tipCoins, tipCoins, dbCoins, o, TipCoin[o])
    BY <1>2 DEF Answers, CoinsOK
  <1>4. Answers(TipFor(o), tipCoins, dbCoins, o, TipCoin[o])
    BY <1>3, TipFetchSound DEF TipFor
  <1>5. CASE viewCoins[o] # NoEntry
    <2>1. ViewFetchCoin(o) = viewCoins
      BY <1>5 DEF ViewFetchCoin, FetchCoin
    <2> QED
      BY <1>2, <1>4, <1>5, <2>1 DEF Answers, CoinsOK
  <1>6. CASE viewCoins[o] = NoEntry
    <2> DEFINE t == TipFetchCoin(o)
    <2>1. TipFor(o) = t
      BY <1>6 DEF TipFor
    <2>2. /\ t[o] = NoEntry => TipCoin[o] = Spent
          /\ t[o] # NoEntry => t[o].coin = TipCoin[o]
      BY TipFetchSound DEF Answers, CoinIn
    <2>3. ViewFetchCoin(o) = FetchCoin(viewCoins, o, t[o] # NoEntry, t[o].coin)
      BY <2>1 DEF ViewFetchCoin
    <2> DEFINE found == t[o] # NoEntry
               coin == t[o].coin
    <2>4. /\ found \in BOOLEAN
          /\ found => coin = TipCoin[o]
          /\ ~found => TipCoin[o] = Spent
          /\ ViewFetchCoin(o) = FetchCoin(viewCoins, o, found, coin)
      BY <2>2, <2>3
    <2>5. viewCoins \in CoinCache /\ CoinFlagsSound(viewCoins, TipCoin)
      BY DEF CoinsOK
    <2> HIDE DEF t, found, coin
    <2>6. /\ Answers(ViewFetchCoin(o), viewCoins, TipCoin, o, CoinIn(viewCoins, TipCoin, o))
          /\ ViewFetchCoin(o)[o] = NoEntry => TipCoin[o] = Spent
      BY <1>1, <2>4, <2>5, FetchCoinSound
    <2> QED
      BY <1>2, <1>4, <2>6
  <1> QED
    BY <1>5, <1>6

(* Answers composes.                                                        *)
LEMMA AnswersTrans ==
    ASSUME NEW c0, NEW c1, NEW c2, NEW base, NEW o, NEW x, NEW y,
           Answers(c1, c0, base, o, x), Answers(c2, c1, base, o, y)
    PROVE  Answers(c2, c0, base, o, y)
  BY DEF Answers

(* A step that keeps the tip's answers and sets one answer of the view.     *)
LEMMA CoinsStep ==
    ASSUME CoinsOK, NEW o \in Outpoints, NEW c,
           dbCoins' = dbCoins,
           Answers(tipCoins', tipCoins, dbCoins, o, TipCoin[o]),
           Answers(viewCoins', viewCoins, TipCoin, o, c)
    PROVE  CoinsOK' /\ TipCoin' = TipCoin /\ ViewCoin' = [ViewCoin EXCEPT ![o] = c]
  <1>1. \A p \in Outpoints : CoinIn(tipCoins', dbCoins, p) = CoinIn(tipCoins, dbCoins, p)
    BY DEF Answers, TipCoin
  <1>2. TipCoin' = TipCoin
    BY <1>1 DEF TipCoin
  <1>3. ViewCoin' = [p \in Outpoints |-> CoinIn(viewCoins', TipCoin, p)]
    BY <1>2 DEF ViewCoin
  <1>4. ViewCoin' = [ViewCoin EXCEPT ![o] = c]
    BY <1>3 DEF ViewCoin, Answers
  <1> QED
    BY <1>2, <1>4 DEF CoinsOK, Answers

LEMMA CoinsUnchanged ==
    ASSUME CoinsOK, UNCHANGED <<dbCoins, tipCoins, viewCoins>>
    PROVE  CoinsOK' /\ TipCoin' = TipCoin /\ ViewCoin' = ViewCoin
  BY DEF CoinsOK, TipCoin, ViewCoin

LEMMA AccessCoinStep ==
    ASSUME CoinsOK, NEW o \in Outpoints, ViewAccessCoin(o)
    PROVE  CoinsOK' /\ TipCoin' = TipCoin /\ ViewCoin' = ViewCoin
  <1>1. CoinsOK' /\ TipCoin' = TipCoin /\ ViewCoin' = [ViewCoin EXCEPT ![o] = ViewCoin[o]]
    BY CoinsStep, ViewFetchSound DEF ViewAccessCoin, dbVars
  <1> QED
    BY <1>1, TipCoinType DEF CoinBase

LEMMA SpendCoinStep ==
    ASSUME CoinsOK, NEW o \in Outpoints, ViewSpendCoin(o)
    PROVE  CoinsOK' /\ TipCoin' = TipCoin /\ ViewCoin' = [ViewCoin EXCEPT ![o] = Spent]
  <1> DEFINE v == ViewFetchCoin(o)
  <1>1. v \in CoinCache /\ CoinFlagsSound(v, TipCoin) /\ (v[o] = NoEntry => TipCoin[o] = Spent)
    BY ViewFetchSound DEF Answers
  <1>2. Answers(SpendCoin(v, o), v, TipCoin, o, Spent)
    BY <1>1, SpendCoinSound, TipCoinType
  <1>3. Answers(SpendCoin(v, o), viewCoins, TipCoin, o, Spent)
    BY <1>2, ViewFetchSound, AnswersTrans
  <1> QED
    BY <1>3, CoinsStep, ViewFetchSound DEF ViewSpendCoin, dbVars

(* A connected output: an unspendable one is ignored, and no output makes   *)
(* AddCoin throw.                                                           *)
LEMMA AddOutputStep ==
    ASSUME CoinsOK, NEW o \in Outpoints, NEW c \in Coins, AddOutput(o, c)
    PROVE  /\ CoinsOK' /\ TipCoin' = TipCoin
           /\ ViewCoin' = IF c \in Unspendable THEN ViewCoin ELSE [ViewCoin EXCEPT ![o] = c]
           /\ logicError' = FALSE
  <1>1. CASE c \in Unspendable
    <2>1. UNCHANGED <<dbCoins, tipCoins, viewCoins>> /\ logicError' = FALSE
      BY <1>1 DEF AddOutput, AddCoin, AddCoinThrows, dbVars, tipVars
    <2> QED
      BY <1>1, <2>1, CoinsUnchanged
  <1>2. CASE c \notin Unspendable
    <2>1. CoinIn(viewCoins, TipCoin, o) = Spent
      BY DEF AddOutput, ViewCoin
    <2>2. /\ Answers(AddCoin(viewCoins, o, c, FALSE), viewCoins, TipCoin, o, c)
          /\ ~AddCoinThrows(viewCoins, o, c, FALSE)
      BY <1>2, <2>1, AddCoinSound, TipCoinType DEF CoinsOK
    <2>3. Answers(tipCoins, tipCoins, dbCoins, o, TipCoin[o])
      BY DEF Answers, CoinsOK, TipCoin
    <2>4. /\ dbCoins' = dbCoins /\ tipCoins' = tipCoins
          /\ viewCoins' = AddCoin(viewCoins, o, c, FALSE)
      BY DEF AddOutput, dbVars, tipVars
    <2>5. logicError' = FALSE
      BY <2>2 DEF AddOutput, AddCoinThrows
    <2> QED
      BY <1>2, <2>2, <2>3, <2>4, <2>5, CoinsStep
  <1> QED
    BY <1>1, <1>2

LEMMA ApplyTxInUndoStep ==
    ASSUME CoinsOK, NEW o \in Outpoints, NEW c \in Coins, ApplyTxInUndo(o, c)
    PROVE  /\ CoinsOK' /\ TipCoin' = TipCoin
           /\ ViewCoin' = IF c \in Unspendable THEN ViewCoin ELSE [ViewCoin EXCEPT ![o] = c]
           /\ logicError' = FALSE
  <1> DEFINE v == ViewFetchCoin(o)
             overwrite == EntryOrBlank(v, o).coin # Spent
  <1>1. v \in CoinCache /\ CoinFlagsSound(v, TipCoin) /\ (v[o] = NoEntry => TipCoin[o] = Spent)
    BY ViewFetchSound DEF Answers
  <1>2. /\ dbCoins' = dbCoins /\ tipCoins' = TipFor(o)
        /\ viewCoins' = AddCoin(v, o, c, overwrite)
        /\ logicError' = AddCoinThrows(v, o, c, overwrite)
    BY DEF ApplyTxInUndo, dbVars
  <1>3. CASE c \in Unspendable
    <2>1. viewCoins' = v /\ logicError' = FALSE
      BY <1>2, <1>3 DEF AddCoin, AddCoinThrows
    <2>2. CoinsOK' /\ TipCoin' = TipCoin /\ ViewCoin' = [ViewCoin EXCEPT ![o] = ViewCoin[o]]
      BY <1>2, <2>1, CoinsStep, ViewFetchSound, SMT
    <2> QED
      BY <1>3, <2>1, <2>2, TipCoinType DEF CoinBase
  <1>4. CASE c \notin Unspendable
    <2>1. ~overwrite => CoinIn(v, TipCoin, o) = Spent
      BY <1>1 DEF EntryOrBlank, CoinIn
    <2>2. overwrite \in BOOLEAN
      OBVIOUS
    <2> HIDE DEF v, overwrite
    <2>3. /\ Answers(AddCoin(v, o, c, overwrite), v, TipCoin, o, c)
          /\ ~AddCoinThrows(v, o, c, overwrite)
      BY <1>1, <1>4, <2>1, <2>2, AddCoinSound, TipCoinType
    <2>4. Answers(AddCoin(v, o, c, overwrite), viewCoins, TipCoin, o, c)
      BY <2>3, ViewFetchSound, AnswersTrans DEF v
    <2>5. logicError' = FALSE
      BY <1>2, <2>3, SMT
    <2> QED
      BY <1>2, <1>4, <2>4, <2>5, CoinsStep, ViewFetchSound
  <1> QED
    BY <1>3, <1>4

(* An empty view answers what the tip answers, whatever the tip does.       *)
LEMMA EmptyViewCoins ==
    ASSUME CoinsOK, viewCoins' = EmptyCoins,
           dbCoins' \in CoinBase, tipCoins' \in CoinCache,
           CoinFlagsSound(tipCoins', dbCoins'),
           \A o \in Outpoints : CoinIn(tipCoins', dbCoins', o) = TipCoin[o]
    PROVE  CoinsOK' /\ TipCoin' = TipCoin /\ ViewCoin' = TipCoin
  <1>1. TipCoin' = TipCoin
    BY DEF TipCoin
  <1>2. ViewCoin' = TipCoin
    BY <1>1 DEF ViewCoin, EmptyCoins, CoinIn, TipCoin
  <1>3. viewCoins' \in CoinCache /\ CoinFlagsSound(viewCoins', TipCoin')
    BY DEF EmptyCoins, CoinCache, CoinFlagsSound
  <1> QED
    BY <1>1, <1>2, <1>3 DEF CoinsOK

LEMMA FlushViewCoins ==
    ASSUME CoinsOK, FlushView
    PROVE  /\ CoinsOK' /\ TipCoin' = ViewCoin /\ ViewCoin' = ViewCoin
           /\ logicError' = FALSE
  <1>1. /\ dbCoins' = dbCoins /\ viewCoins' = EmptyCoins
        /\ tipCoins' = [o \in Outpoints |-> BatchWriteCoin(tipCoins[o], viewCoins[o])]
        /\ logicError' = \E o \in Outpoints : FreshMisapplied(tipCoins[o], viewCoins[o])
    BY DEF FlushView, DestroyView, dbVars
  <1>2. \A o \in Outpoints : TipCoin[o] = CoinIn(tipCoins, dbCoins, o)
    BY DEF TipCoin
  <1>3. /\ tipCoins' \in CoinCache
        /\ CoinFlagsSound(tipCoins', dbCoins)
        /\ \A o \in Outpoints : CoinIn(tipCoins', dbCoins, o) = CoinIn(viewCoins, TipCoin, o)
        /\ \A o \in Outpoints : ~FreshMisapplied(tipCoins[o], viewCoins[o])
    <2>1. /\ tipCoins \in CoinCache /\ viewCoins \in CoinCache /\ dbCoins \in CoinBase
          /\ CoinFlagsSound(tipCoins, dbCoins) /\ CoinFlagsSound(viewCoins, TipCoin)
      BY DEF CoinsOK
    <2>2. TipCoin \in CoinBase
      BY TipCoinType
    <2>3. tipCoins' = Flushed(tipCoins, viewCoins)
      BY <1>1 DEF Flushed
    <2> QED
      BY <1>2, <2>1, <2>2, <2>3, BatchWriteSound, SMT
  <1>4. logicError' = FALSE
    BY <1>1, <1>3
  <1>5. TipCoin' = ViewCoin
    BY <1>1, <1>3 DEF TipCoin, ViewCoin
  <1>6. ViewCoin' = ViewCoin
    BY <1>1, <1>5 DEF ViewCoin, EmptyCoins, CoinIn
  <1>7. viewCoins' \in CoinCache /\ CoinFlagsSound(viewCoins', TipCoin')
    BY <1>1 DEF EmptyCoins, CoinCache, CoinFlagsSound
  <1> QED
    BY <1>1, <1>3, <1>4, <1>5, <1>6, <1>7 DEF CoinsOK

LEMMA UncacheStep ==
    ASSUME CoinsOK, NEW o \in Outpoints, Uncache(o), viewCoins = EmptyCoins
    PROVE  CoinsOK' /\ TipCoin' = TipCoin /\ ViewCoin' = TipCoin
  <1>1. /\ dbCoins' = dbCoins /\ viewCoins' = EmptyCoins
        /\ tipCoins' = [tipCoins EXCEPT ![o] = NoEntry]
    BY DEF Uncache, dbVars, viewVars
  <1>2. dbCoins[o] = TipCoin[o]
    BY DEF Uncache, CoinsOK, CoinFlagsSound, TipCoin, CoinIn
  <1>3. Answers(tipCoins', tipCoins, dbCoins, o, dbCoins[o])
    BY <1>1, PutEntrySound DEF CoinsOK, SoundEntry
  <1>4. \A p \in Outpoints : CoinIn(tipCoins', dbCoins', p) = TipCoin[p]
    BY <1>1, <1>2, <1>3 DEF Answers, TipCoin
  <1> QED
    BY <1>1, <1>3, <1>4, EmptyViewCoins DEF Answers, CoinsOK

LEMMA TipReadCoins ==
    ASSUME CoinsOK, viewCoins = EmptyCoins, UNCHANGED <<dbCoins, viewCoins>>,
           NEW o \in Outpoints, tipCoins' = TipFetchCoin(o)
    PROVE  CoinsOK' /\ TipCoin' = TipCoin /\ ViewCoin' = TipCoin
  <1>1. Answers(tipCoins', tipCoins, dbCoins, o, TipCoin[o])
    BY TipFetchSound
  <1>2. \A p \in Outpoints : CoinIn(tipCoins', dbCoins', p) = TipCoin[p]
    BY <1>1 DEF Answers, TipCoin
  <1> QED
    BY <1>1, <1>2, EmptyViewCoins DEF Answers, CoinsOK

(* A flush writes every answer of the tip to the database.                  *)
LEMMA FlushTipCoins ==
    ASSUME CoinsOK, FlushTip, viewCoins = EmptyCoins
    PROVE  CoinsOK' /\ dbCoins' = TipCoin /\ TipCoin' = TipCoin /\ ViewCoin' = TipCoin
  <1>1. /\ viewCoins' = EmptyCoins /\ tipCoins' = EmptyCoins
        /\ dbCoins' = [o \in Outpoints |-> DbWriteCoin(dbCoins[o], tipCoins[o])]
    BY DEF FlushTip, viewVars
  <1>2. \A o \in Outpoints : DbWriteCoin(dbCoins[o], tipCoins[o]) = CoinIn(tipCoins, dbCoins, o)
    BY DEF CoinsOK, CoinFlagsSound, DbWriteCoin, IsDirty, CoinIn
  <1>3. dbCoins' = TipCoin
    BY <1>1, <1>2 DEF TipCoin
  <1>4. /\ tipCoins' \in CoinCache /\ CoinFlagsSound(tipCoins', dbCoins')
        /\ \A o \in Outpoints : CoinIn(tipCoins', dbCoins', o) = TipCoin[o]
    BY <1>1, <1>3 DEF EmptyCoins, CoinCache, CoinFlagsSound, CoinIn
  <1> QED
    BY <1>1, <1>3, <1>4, EmptyViewCoins, TipCoinType

-----------------------------------------------------------------------------
(* The nullifiers of the three levels, step by step.                        *)

NfsOK ==
    /\ dbNfs \in [Nullifiers -> BOOLEAN]
    /\ tipNfs \in FlagCache(Nullifiers) /\ viewNfs \in FlagCache(Nullifiers)
    /\ FlagsSound(tipNfs, dbNfs)
    /\ FlagsSound(viewNfs, TipNf)

LEMMA FlagType ==
    ASSUME NEW K, NEW cache \in FlagCache(K), NEW base \in [K -> BOOLEAN]
    PROVE  [k \in K |-> FlagIn(cache, base, k)] \in [K -> BOOLEAN]
  <1> SUFFICES ASSUME NEW k \in K
               PROVE  FlagIn(cache, base, k) \in BOOLEAN
    OBVIOUS
  <1>1. cache[k] \in FlagEntry \cup {NoEntry} /\ base[k] \in BOOLEAN
    BY DEF FlagCache
  <1> QED
    BY <1>1 DEF FlagIn, FlagEntry

LEMMA TipNfType ==
    ASSUME NfsOK
    PROVE  TipNf \in [Nullifiers -> BOOLEAN] /\ ViewNf \in [Nullifiers -> BOOLEAN]
  BY FlagType, SMT DEF NfsOK, TipNf, ViewNf

LEMMA NfsUnchanged ==
    ASSUME NfsOK, UNCHANGED <<dbNfs, tipNfs, viewNfs>>
    PROVE  NfsOK' /\ TipNf' = TipNf /\ ViewNf' = ViewNf
  BY DEF NfsOK, TipNf, ViewNf

LEMMA NfsStep ==
    ASSUME NfsOK, NEW n \in Nullifiers, NEW spent,
           dbNfs' = dbNfs,
           FlagAnswers(tipNfs', tipNfs, dbNfs, Nullifiers, n, TipNf[n]),
           FlagAnswers(viewNfs', viewNfs, TipNf, Nullifiers, n, spent)
    PROVE  NfsOK' /\ TipNf' = TipNf /\ ViewNf' = [ViewNf EXCEPT ![n] = spent]
  <1>1. \A p \in Nullifiers : FlagIn(tipNfs', dbNfs, p) = FlagIn(tipNfs, dbNfs, p)
    BY DEF FlagAnswers, TipNf
  <1>2. TipNf' = TipNf
    BY <1>1 DEF TipNf
  <1>3. ViewNf' = [p \in Nullifiers |-> FlagIn(viewNfs', TipNf, p)]
    BY <1>2 DEF ViewNf
  <1>4. ViewNf' = [ViewNf EXCEPT ![n] = spent]
    BY <1>3 DEF ViewNf, FlagAnswers
  <1> QED
    BY <1>2, <1>4 DEF NfsOK, FlagAnswers

LEMMA ViewFetchNfSound ==
    ASSUME NfsOK, NEW n \in Nullifiers
    PROVE  /\ FlagAnswers(TipForNf(n), tipNfs, dbNfs, Nullifiers, n, TipNf[n])
           /\ FlagAnswers(ViewFetchNf(n), viewNfs, TipNf, Nullifiers, n, ViewNf[n])
  <1>1. /\ TipNf[n] = FlagIn(tipNfs, dbNfs, n)
        /\ ViewNf[n] = FlagIn(viewNfs, TipNf, n)
    BY SMT DEF TipNf, ViewNf
  <1>2. FlagAnswers(TipFetchNf(n), tipNfs, dbNfs, Nullifiers, n, TipNf[n])
    BY <1>1, GetNullifierSound DEF NfsOK, TipFetchNf
  <1>3. FlagAnswers(tipNfs, tipNfs, dbNfs, Nullifiers, n, TipNf[n])
    BY <1>1 DEF FlagAnswers, NfsOK
  <1>4. FlagAnswers(ViewFetchNf(n), viewNfs, TipNf, Nullifiers, n, ViewNf[n])
    BY <1>1, GetNullifierSound, TipNfType DEF NfsOK, ViewFetchNf
  <1> QED
    BY <1>2, <1>3, <1>4 DEF TipForNf

LEMMA FlagAnswersTrans ==
    ASSUME NEW c0, NEW c1, NEW c2, NEW base, NEW K, NEW k, NEW x, NEW y,
           FlagAnswers(c1, c0, base, K, k, x), FlagAnswers(c2, c1, base, K, k, y)
    PROVE  FlagAnswers(c2, c0, base, K, k, y)
  BY DEF FlagAnswers

LEMMA RefuseShieldedNfs ==
    ASSUME NfsOK, NEW n \in Nullifiers, NEW r \in Roots, RefuseShielded(n, r)
    PROVE  NfsOK' /\ TipNf' = TipNf /\ ViewNf' = ViewNf
  <1>1. NfsOK' /\ TipNf' = TipNf /\ ViewNf' = [ViewNf EXCEPT ![n] = ViewNf[n]]
    BY NfsStep, ViewFetchNfSound DEF RefuseShielded, ShieldedReads, dbVars
  <1> QED
    BY <1>1, TipNfType

LEMMA SpendNoteNfs ==
    ASSUME NfsOK, NEW n \in Nullifiers, NEW r \in Roots, SpendNote(n, r)
    PROVE  NfsOK' /\ TipNf' = TipNf /\ ViewNf' = [ViewNf EXCEPT ![n] = TRUE]
  <1> DEFINE v == ViewFetchNf(n)
  <1>1. v \in FlagCache(Nullifiers) /\ FlagsSound(v, TipNf)
    BY ViewFetchNfSound DEF FlagAnswers
  <1> SUFFICES ASSUME NEW spent, spent = TRUE
               PROVE  NfsOK' /\ TipNf' = TipNf /\ ViewNf' = [ViewNf EXCEPT ![n] = spent]
    OBVIOUS
  <1>2. FlagAnswers(SetNullifiers(v, n, spent), v, TipNf, Nullifiers, n, spent)
    BY <1>1, SetNullifiersSound, TipNfType
  <1>3. FlagAnswers(SetNullifiers(v, n, spent), viewNfs, TipNf, Nullifiers, n, spent)
    BY <1>2, ViewFetchNfSound, FlagAnswersTrans
  <1>4. /\ dbNfs' = dbNfs /\ tipNfs' = TipForNf(n)
        /\ viewNfs' = SetNullifiers(v, n, spent)
    BY DEF SpendNote, ShieldedReads, dbVars
  <1> QED
    BY <1>3, <1>4, NfsStep, ViewFetchNfSound

LEMMA UnspendNoteNfs ==
    ASSUME NfsOK, NEW n \in Nullifiers, UnspendNote(n)
    PROVE  NfsOK' /\ TipNf' = TipNf /\ ViewNf' = [ViewNf EXCEPT ![n] = FALSE]
  <1> SUFFICES ASSUME NEW spent, spent = FALSE
               PROVE  NfsOK' /\ TipNf' = TipNf /\ ViewNf' = [ViewNf EXCEPT ![n] = spent]
    OBVIOUS
  <1>1. FlagAnswers(SetNullifiers(viewNfs, n, spent), viewNfs, TipNf, Nullifiers, n, spent)
    BY SetNullifiersSound, TipNfType DEF NfsOK
  <1>2. FlagAnswers(tipNfs, tipNfs, dbNfs, Nullifiers, n, TipNf[n])
    BY DEF FlagAnswers, NfsOK, TipNf
  <1>3. /\ dbNfs' = dbNfs /\ tipNfs' = tipNfs
        /\ viewNfs' = SetNullifiers(viewNfs, n, spent)
    BY DEF UnspendNote, dbVars, tipVars
  <1> QED
    BY <1>1, <1>2, <1>3, NfsStep

LEMMA EmptyViewNfs ==
    ASSUME NfsOK, viewNfs' = EmptyNfs,
           dbNfs' \in [Nullifiers -> BOOLEAN], tipNfs' \in FlagCache(Nullifiers),
           FlagsSound(tipNfs', dbNfs'),
           \A n \in Nullifiers : FlagIn(tipNfs', dbNfs', n) = TipNf[n]
    PROVE  NfsOK' /\ TipNf' = TipNf /\ ViewNf' = TipNf
  <1>1. TipNf' = TipNf
    BY DEF TipNf
  <1>2. ViewNf' = TipNf
    BY <1>1 DEF ViewNf, EmptyNfs, FlagIn, TipNf
  <1>3. viewNfs' \in FlagCache(Nullifiers) /\ FlagsSound(viewNfs', TipNf')
    BY DEF EmptyNfs, FlagCache, FlagsSound
  <1> QED
    BY <1>1, <1>2, <1>3 DEF NfsOK

LEMMA FlushViewNfs ==
    ASSUME NfsOK, FlushView
    PROVE  NfsOK' /\ TipNf' = ViewNf /\ ViewNf' = ViewNf
  <1>1. /\ dbNfs' = dbNfs /\ viewNfs' = EmptyNfs
        /\ tipNfs' = [n \in Nullifiers |-> BatchWriteFlag(tipNfs[n], viewNfs[n])]
    BY DEF FlushView, DestroyView, dbVars
  <1>2. \A n \in Nullifiers : TipNf[n] = FlagIn(tipNfs, dbNfs, n)
    BY SMT DEF TipNf
  <1>3. /\ tipNfs' \in FlagCache(Nullifiers)
        /\ FlagsSound(tipNfs', dbNfs)
        /\ \A n \in Nullifiers : FlagIn(tipNfs', dbNfs, n) = FlagIn(viewNfs, TipNf, n)
    <2>1. /\ tipNfs \in FlagCache(Nullifiers) /\ viewNfs \in FlagCache(Nullifiers)
          /\ dbNfs \in [Nullifiers -> BOOLEAN] /\ TipNf \in [Nullifiers -> BOOLEAN]
          /\ FlagsSound(tipNfs, dbNfs) /\ FlagsSound(viewNfs, TipNf)
      BY TipNfType DEF NfsOK
    <2>2. tipNfs' = FlushedFlags(Nullifiers, tipNfs, viewNfs)
      BY <1>1 DEF FlushedFlags
    <2> QED
      BY <1>2, <2>1, <2>2, BatchWriteFlagSound, SMT
  <1>4. TipNf' = ViewNf
    BY <1>1, <1>3 DEF TipNf, ViewNf
  <1>5. ViewNf' = ViewNf
    BY <1>1, <1>4 DEF ViewNf, EmptyNfs, FlagIn
  <1>6. viewNfs' \in FlagCache(Nullifiers) /\ FlagsSound(viewNfs', TipNf')
    BY <1>1 DEF EmptyNfs, FlagCache, FlagsSound
  <1> QED
    BY <1>1, <1>3, <1>4, <1>5, <1>6 DEF NfsOK

LEMMA TipReadNfs ==
    ASSUME NfsOK, viewNfs = EmptyNfs, UNCHANGED <<dbNfs, viewNfs>>,
           NEW n \in Nullifiers, tipNfs' = TipFetchNf(n)
    PROVE  NfsOK' /\ TipNf' = TipNf /\ ViewNf' = TipNf
  <1>1. viewNfs[n] = NoEntry
    BY DEF EmptyNfs
  <1>2. FlagAnswers(tipNfs', tipNfs, dbNfs, Nullifiers, n, TipNf[n])
    BY <1>1, ViewFetchNfSound DEF TipForNf
  <1>3. \A p \in Nullifiers : FlagIn(tipNfs', dbNfs', p) = TipNf[p]
    BY <1>2 DEF FlagAnswers, TipNf
  <1> QED
    BY <1>2, <1>3, EmptyViewNfs DEF FlagAnswers, NfsOK

LEMMA FlushTipNfs ==
    ASSUME NfsOK, FlushTip, viewNfs = EmptyNfs
    PROVE  NfsOK' /\ dbNfs' = TipNf /\ TipNf' = TipNf /\ ViewNf' = TipNf
  <1>1. /\ viewNfs' = EmptyNfs /\ tipNfs' = EmptyNfs
        /\ dbNfs' = [n \in Nullifiers |-> DbWriteFlag(dbNfs[n], tipNfs[n])]
    BY DEF FlushTip, viewVars
  <1>2. \A n \in Nullifiers : DbWriteFlag(dbNfs[n], tipNfs[n]) = FlagIn(tipNfs, dbNfs, n)
    BY DEF NfsOK, FlagCache, FlagsSound, DbWriteFlag, IsDirty, FlagIn
  <1>3. dbNfs' = TipNf
    BY <1>1, <1>2, SMT DEF TipNf
  <1>4. /\ tipNfs' \in FlagCache(Nullifiers) /\ FlagsSound(tipNfs', dbNfs')
        /\ \A n \in Nullifiers : FlagIn(tipNfs', dbNfs', n) = TipNf[n]
    BY <1>1, <1>3 DEF EmptyNfs, FlagCache, FlagsSound, FlagIn
  <1> QED
    BY <1>1, <1>3, <1>4, EmptyViewNfs, TipNfType

-----------------------------------------------------------------------------
(* The anchors of the three levels, step by step.                           *)

AnchorsOK ==
    /\ dbAnchors \in [Roots -> BOOLEAN]
    /\ tipAnchors \in FlagCache(Roots) /\ viewAnchors \in FlagCache(Roots)
    /\ FlagsSound(tipAnchors, DbAnchor)
    /\ FlagsSound(viewAnchors, TipAnchor)

LEMMA TipAnchorType ==
    ASSUME AnchorsOK
    PROVE  /\ DbAnchor \in [Roots -> BOOLEAN]
           /\ TipAnchor \in [Roots -> BOOLEAN]
           /\ ViewAnchor \in [Roots -> BOOLEAN]
  <1>1. DbAnchor \in [Roots -> BOOLEAN]
    BY DEF DbAnchor, AnchorsOK
  <1>2. TipAnchor \in [Roots -> BOOLEAN]
    BY <1>1, FlagType, SMT DEF AnchorsOK, TipAnchor
  <1> QED
    BY <1>1, <1>2, FlagType, SMT DEF AnchorsOK, ViewAnchor

LEMMA AnchorsUnchanged ==
    ASSUME AnchorsOK, UNCHANGED <<dbAnchors, tipAnchors, viewAnchors>>
    PROVE  AnchorsOK' /\ TipAnchor' = TipAnchor /\ ViewAnchor' = ViewAnchor
  BY DEF AnchorsOK, TipAnchor, ViewAnchor, DbAnchor

LEMMA AnchorsStep ==
    ASSUME AnchorsOK, NEW r \in Roots, NEW q \in Roots, NEW entered,
           dbAnchors' = dbAnchors,
           FlagAnswers(tipAnchors', tipAnchors, DbAnchor, Roots, q, TipAnchor[q]),
           FlagAnswers(viewAnchors', viewAnchors, TipAnchor, Roots, r, entered)
    PROVE  AnchorsOK' /\ TipAnchor' = TipAnchor /\ ViewAnchor' = [ViewAnchor EXCEPT ![r] = entered]
  <1>1. DbAnchor' = DbAnchor
    BY DEF DbAnchor
  <1>2. \A p \in Roots : FlagIn(tipAnchors', DbAnchor, p) = FlagIn(tipAnchors, DbAnchor, p)
    BY DEF FlagAnswers, TipAnchor
  <1>3. TipAnchor' = TipAnchor
    BY <1>1, <1>2 DEF TipAnchor
  <1>4. ViewAnchor' = [p \in Roots |-> FlagIn(viewAnchors', TipAnchor, p)]
    BY <1>3 DEF ViewAnchor
  <1>5. ViewAnchor' = [ViewAnchor EXCEPT ![r] = entered]
    BY <1>4 DEF ViewAnchor, FlagAnswers
  <1> QED
    BY <1>1, <1>3, <1>5 DEF AnchorsOK, FlagAnswers

LEMMA ViewFetchAnchorSound ==
    ASSUME AnchorsOK, NEW r \in Roots
    PROVE  /\ FlagAnswers(tipAnchors, tipAnchors, DbAnchor, Roots, r, TipAnchor[r])
           /\ FlagAnswers(TipFetchAnchor(r), tipAnchors, DbAnchor, Roots, r, TipAnchor[r])
           /\ FlagAnswers(TipForAnchor(r), tipAnchors, DbAnchor, Roots, r, TipAnchor[r])
           /\ FlagAnswers(viewAnchors, viewAnchors, TipAnchor, Roots, r, ViewAnchor[r])
           /\ FlagAnswers(ViewFetchAnchor(r), viewAnchors, TipAnchor, Roots, r, ViewAnchor[r])
  <1>1. /\ TipAnchor[r] = FlagIn(tipAnchors, DbAnchor, r)
        /\ ViewAnchor[r] = FlagIn(viewAnchors, TipAnchor, r)
    BY DEF TipAnchor, ViewAnchor
  <1>2. FlagAnswers(TipFetchAnchor(r), tipAnchors, DbAnchor, Roots, r, TipAnchor[r])
    BY <1>1, GetAnchorSound, TipAnchorType DEF AnchorsOK, TipFetchAnchor
  <1>3. FlagAnswers(tipAnchors, tipAnchors, DbAnchor, Roots, r, TipAnchor[r])
    BY <1>1 DEF FlagAnswers, AnchorsOK
  <1>4. FlagAnswers(ViewFetchAnchor(r), viewAnchors, TipAnchor, Roots, r, ViewAnchor[r])
    BY <1>1, GetAnchorSound, TipAnchorType DEF AnchorsOK, ViewFetchAnchor
  <1>5. FlagAnswers(viewAnchors, viewAnchors, TipAnchor, Roots, r, ViewAnchor[r])
    BY <1>1 DEF FlagAnswers, AnchorsOK
  <1> QED
    BY <1>2, <1>3, <1>4, <1>5 DEF TipForAnchor

LEMMA AnchorsReread ==
    ASSUME AnchorsOK, NEW r \in Roots, dbAnchors' = dbAnchors,
           tipAnchors' \in {tipAnchors, TipFetchAnchor(r), TipForAnchor(r)},
           viewAnchors' \in {viewAnchors, ViewFetchAnchor(r)}
    PROVE  AnchorsOK' /\ TipAnchor' = TipAnchor /\ ViewAnchor' = ViewAnchor
  <1>1. /\ FlagAnswers(tipAnchors', tipAnchors, DbAnchor, Roots, r, TipAnchor[r])
        /\ FlagAnswers(viewAnchors', viewAnchors, TipAnchor, Roots, r, ViewAnchor[r])
    BY ViewFetchAnchorSound
  <1>2. AnchorsOK' /\ TipAnchor' = TipAnchor /\ ViewAnchor' = [ViewAnchor EXCEPT ![r] = ViewAnchor[r]]
    BY <1>1, AnchorsStep
  <1> QED
    BY <1>2, TipAnchorType

LEMMA PushAnchorStep ==
    ASSUME AnchorsOK, UNCHANGED <<dbAnchors, tipAnchors>>,
           NEW old \in Roots, NEW r \in Roots, ViewAnchor[old],
           viewAnchors' = PushAnchor(viewAnchors, old, r)
    PROVE  AnchorsOK' /\ TipAnchor' = TipAnchor /\ ViewAnchor' = [ViewAnchor EXCEPT ![r] = TRUE]
  <1>1. FlagIn(viewAnchors, TipAnchor, old) = TRUE
    BY TipAnchorType DEF ViewAnchor
  <1> SUFFICES ASSUME NEW entered, entered = TRUE
               PROVE  AnchorsOK' /\ TipAnchor' = TipAnchor /\ ViewAnchor' = [ViewAnchor EXCEPT ![r] = entered]
    OBVIOUS
  <1>2. FlagAnswers(viewAnchors', viewAnchors, TipAnchor, Roots, r, entered)
    <2>1. FlagAnswers(viewAnchors', viewAnchors, TipAnchor, Roots, r, TRUE)
      BY <1>1, PushAnchorSound, TipAnchorType DEF AnchorsOK
    <2> QED
      BY <2>1 DEF FlagAnswers
  <1>3. FlagAnswers(tipAnchors', tipAnchors, DbAnchor, Roots, r, TipAnchor[r])
    BY ViewFetchAnchorSound
  <1> QED
    BY <1>2, <1>3, AnchorsStep

LEMMA PopAnchorStep ==
    ASSUME AnchorsOK, dbAnchors' = dbAnchors,
           NEW old \in Roots, NEW r \in Roots, old # r,
           tipAnchors' = TipForAnchor(old),
           viewAnchors' = PopAnchor(ViewFetchAnchor(old), old, r)
    PROVE  AnchorsOK' /\ TipAnchor' = TipAnchor /\ ViewAnchor' = [ViewAnchor EXCEPT ![old] = FALSE]
  <1> DEFINE v == ViewFetchAnchor(old)
  <1>1. v \in FlagCache(Roots) /\ FlagsSound(v, TipAnchor)
    BY ViewFetchAnchorSound DEF FlagAnswers
  <1>2. FlagAnswers(viewAnchors', v, TipAnchor, Roots, old, FALSE)
    BY <1>1, PopAnchorSound, TipAnchorType
  <1> SUFFICES ASSUME NEW entered, entered = FALSE
               PROVE  AnchorsOK' /\ TipAnchor' = TipAnchor /\ ViewAnchor' = [ViewAnchor EXCEPT ![old] = entered]
    OBVIOUS
  <1>3. FlagAnswers(viewAnchors', v, TipAnchor, Roots, old, entered)
    BY <1>2 DEF FlagAnswers
  <1>4. FlagAnswers(viewAnchors', viewAnchors, TipAnchor, Roots, old, entered)
    BY <1>3, ViewFetchAnchorSound, FlagAnswersTrans
  <1>5. FlagAnswers(tipAnchors', tipAnchors, DbAnchor, Roots, old, TipAnchor[old])
    BY ViewFetchAnchorSound
  <1> QED
    BY <1>4, <1>5, AnchorsStep

LEMMA EmptyViewAnchors ==
    ASSUME AnchorsOK, viewAnchors' = EmptyAnchors,
           dbAnchors' \in [Roots -> BOOLEAN], tipAnchors' \in FlagCache(Roots),
           FlagsSound(tipAnchors', DbAnchor'),
           \A r \in Roots : FlagIn(tipAnchors', DbAnchor', r) = TipAnchor[r]
    PROVE  AnchorsOK' /\ TipAnchor' = TipAnchor /\ ViewAnchor' = TipAnchor
  <1>1. TipAnchor' = TipAnchor
    BY DEF TipAnchor
  <1>2. ViewAnchor' = TipAnchor
    BY <1>1 DEF ViewAnchor, EmptyAnchors, FlagIn, TipAnchor
  <1>3. viewAnchors' \in FlagCache(Roots) /\ FlagsSound(viewAnchors', TipAnchor')
    BY DEF EmptyAnchors, FlagCache, FlagsSound
  <1> QED
    BY <1>1, <1>2, <1>3 DEF AnchorsOK

LEMMA FlushViewAnchors ==
    ASSUME AnchorsOK, FlushView
    PROVE  AnchorsOK' /\ TipAnchor' = ViewAnchor /\ ViewAnchor' = ViewAnchor
  <1>1. /\ dbAnchors' = dbAnchors /\ viewAnchors' = EmptyAnchors
        /\ tipAnchors' = [r \in Roots |-> BatchWriteFlag(tipAnchors[r], viewAnchors[r])]
    BY DEF FlushView, DestroyView, dbVars
  <1>2. DbAnchor' = DbAnchor
    BY <1>1 DEF DbAnchor
  <1>3. \A r \in Roots : TipAnchor[r] = FlagIn(tipAnchors, DbAnchor, r)
    BY DEF TipAnchor
  <1>4. /\ tipAnchors' \in FlagCache(Roots)
        /\ FlagsSound(tipAnchors', DbAnchor)
        /\ \A r \in Roots : FlagIn(tipAnchors', DbAnchor, r) = FlagIn(viewAnchors, TipAnchor, r)
    <2>1. /\ tipAnchors \in FlagCache(Roots) /\ viewAnchors \in FlagCache(Roots)
          /\ DbAnchor \in [Roots -> BOOLEAN] /\ TipAnchor \in [Roots -> BOOLEAN]
          /\ FlagsSound(tipAnchors, DbAnchor) /\ FlagsSound(viewAnchors, TipAnchor)
      BY TipAnchorType DEF AnchorsOK
    <2>2. tipAnchors' = FlushedFlags(Roots, tipAnchors, viewAnchors)
      BY <1>1 DEF FlushedFlags
    <2> QED
      BY <1>3, <2>1, <2>2, BatchWriteFlagSound, SMT
  <1>5. TipAnchor' = ViewAnchor
    BY <1>2, <1>4 DEF TipAnchor, ViewAnchor
  <1>6. ViewAnchor' = ViewAnchor
    BY <1>1, <1>5 DEF ViewAnchor, EmptyAnchors, FlagIn
  <1>7. viewAnchors' \in FlagCache(Roots) /\ FlagsSound(viewAnchors', TipAnchor')
    BY <1>1 DEF EmptyAnchors, FlagCache, FlagsSound
  <1> QED
    BY <1>1, <1>2, <1>4, <1>5, <1>6, <1>7 DEF AnchorsOK

LEMMA TipReadAnchors ==
    ASSUME AnchorsOK, viewAnchors = EmptyAnchors, UNCHANGED <<dbAnchors, viewAnchors>>,
           NEW r \in Roots, tipAnchors' = TipFetchAnchor(r)
    PROVE  AnchorsOK' /\ TipAnchor' = TipAnchor /\ ViewAnchor' = ViewAnchor
  BY AnchorsReread

(* The tree of size zero is never stored, and need not be.                  *)
LEMMA FlushTipAnchors ==
    ASSUME AnchorsOK, FlushTip, viewAnchors = EmptyAnchors, TipAnchor[EmptyRoot]
    PROVE  AnchorsOK' /\ DbAnchor' = TipAnchor /\ TipAnchor' = TipAnchor /\ ViewAnchor' = TipAnchor
  <1>1. /\ viewAnchors' = EmptyAnchors /\ tipAnchors' = EmptyAnchors
        /\ dbAnchors' = [r \in Roots |-> r # EmptyRoot /\ DbWriteFlag(dbAnchors[r], tipAnchors[r])]
    BY DEF FlushTip, viewVars
  <1>2. \A r \in Roots : r # EmptyRoot =>
            DbWriteFlag(dbAnchors[r], tipAnchors[r]) = FlagIn(tipAnchors, DbAnchor, r)
    BY SMT DEF AnchorsOK, FlagCache, FlagsSound, DbWriteFlag, IsDirty, FlagIn, DbAnchor
  <1>3. \A r \in Roots : r # EmptyRoot => dbAnchors'[r] = TipAnchor[r]
    BY <1>1, <1>2, TipAnchorType DEF TipAnchor
  <1>4. dbAnchors' \in [Roots -> BOOLEAN]
    BY <1>1
  <1>5. DbAnchor' = TipAnchor
    <2>1. \A r \in Roots : DbAnchor'[r] = TipAnchor[r]
      BY <1>3, TipAnchorType DEF DbAnchor
    <2>2. DbAnchor' = [r \in Roots |-> DbAnchor'[r]]
      BY DEF DbAnchor
    <2>3. TipAnchor = [r \in Roots |-> TipAnchor[r]]
      BY DEF TipAnchor
    <2> QED
      BY <2>1, <2>2, <2>3
  <1>6. /\ tipAnchors' \in FlagCache(Roots) /\ FlagsSound(tipAnchors', DbAnchor')
        /\ \A r \in Roots : FlagIn(tipAnchors', DbAnchor', r) = TipAnchor[r]
    BY <1>1, <1>5 DEF EmptyAnchors, FlagCache, FlagsSound, FlagIn
  <1> QED
    BY <1>1, <1>4, <1>5, <1>6, EmptyViewAnchors

-----------------------------------------------------------------------------
(* The inductive invariant, and what each action does to it and to the      *)
(* abstract state.                                                          *)

HashesOK ==
    /\ dbRoot \in Roots /\ tipRoot \in Roots \cup {Null} /\ viewRoot \in Roots \cup {Null}
    /\ dbBlock \in BlockHashes \cup {Null}
    /\ tipBlock \in BlockHashes \cup {Null} /\ viewBlock \in BlockHashes \cup {Null}
    /\ session \in {"idle", "connect", "disconnect", "done"}
    /\ logicError = FALSE
    /\ session # "idle" => viewBlock # Null
    /\ session = "connect" => viewRoot # Null
    /\ session = "done" => viewRoot # Null \/ TipBestAnchor = dbRoot
    /\ tipBlock = Null => TipBestAnchor = dbRoot

IdleView ==
    session = "idle" =>
        /\ viewCoins = EmptyCoins /\ viewNfs = EmptyNfs /\ viewAnchors = EmptyAnchors
        /\ viewRoot = Null /\ viewBlock = Null

(* The anchors are trees up to the best one, from the empty one.            *)
AnchorsTo(anchors, root) ==
    /\ anchors[EmptyRoot] /\ anchors[root]
    /\ \A r \in Roots : anchors[r] => r <= root

TreesOK ==
    /\ AnchorsTo(TipAnchor, TipBestAnchor)
    /\ AnchorsTo(ViewAnchor, ViewBestAnchor)

IInv == CoinsOK /\ NfsOK /\ AnchorsOK /\ HashesOK /\ IdleView /\ TreesOK

AStep == Abs!ANext \/ UNCHANGED <<Committed, Working, session>>

LEMMA RootFacts ==
    /\ EmptyRoot \in Roots /\ Roots \subseteq Nat /\ Null \notin Roots
    /\ Null \notin BlockHashes /\ Genesis \in BlockHashes /\ Genesis # Null
  BY ConstantsAssumption, SMT DEF Roots, EmptyRoot

LEMMA BestTypes ==
    ASSUME HashesOK
    PROVE  TipBestAnchor \in Roots /\ ViewBestAnchor \in Roots
  BY DEF HashesOK, TipBestAnchor, ViewBestAnchor, HashIn

(* What holds of the initial state.                                         *)
LEMMA InitInv ==
    ASSUME Init
    PROVE  IInv /\ Abs!AInit
  <1>1. TipCoin = dbCoins /\ ViewCoin = dbCoins /\ CoinsOK
    BY DEF Init, TipCoin, ViewCoin, CoinIn, EmptyCoins, CoinsOK, CoinBase, CoinCache, CoinFlagsSound
  <1>2. TipNf = dbNfs /\ ViewNf = dbNfs /\ NfsOK
    BY DEF Init, TipNf, ViewNf, FlagIn, EmptyNfs, NfsOK, FlagCache, FlagsSound
  <1>3. /\ TipAnchor = DbAnchor /\ ViewAnchor = DbAnchor /\ AnchorsOK
        /\ DbAnchor = [r \in Roots |-> r = EmptyRoot]
    BY DEF Init, TipAnchor, ViewAnchor, DbAnchor, FlagIn, EmptyAnchors, AnchorsOK, FlagCache, FlagsSound
  <1>4. TipBestAnchor = EmptyRoot /\ ViewBestAnchor = EmptyRoot /\ TipBestBlock = Null /\ ViewBestBlock = Null
    BY DEF Init, TipBestAnchor, ViewBestAnchor, TipBestBlock, ViewBestBlock, HashIn
  <1>5. HashesOK /\ IdleView
    BY <1>4, RootFacts DEF Init, HashesOK, IdleView
  <1>6. TreesOK
    <2>1. \A r \in Roots : DbAnchor[r] <=> r = EmptyRoot
      BY <1>3
    <2>2. AnchorsTo(DbAnchor, EmptyRoot)
      BY <2>1, RootFacts, SMT DEF AnchorsTo, EmptyRoot
    <2> QED
      BY <1>3, <1>4, <2>2 DEF TreesOK
  <1>7. Abs!AInit
    BY <1>1, <1>2, <1>3, <1>4
       DEF Init, Abs!AInit, Abs!EmptyState, Abs!Roots, Abs!EmptyRoot, Roots, EmptyRoot, Committed, Working
  <1> QED
    BY <1>1, <1>2, <1>3, <1>5, <1>6, <1>7 DEF IInv

(* A step of a session that leaves the trees and the hashes alone.          *)
LEMMA QuietStep ==
    ASSUME IInv, session # "idle", logicError' = FALSE,
           UNCHANGED <<dbRoot, dbBlock, tipRoot, tipBlock, viewRoot, viewBlock, session>>,
           TipAnchor' = TipAnchor, ViewAnchor' = ViewAnchor
    PROVE  /\ HashesOK' /\ IdleView' /\ TreesOK'
           /\ TipBestAnchor' = TipBestAnchor /\ ViewBestAnchor' = ViewBestAnchor
           /\ TipBestBlock' = TipBestBlock /\ ViewBestBlock' = ViewBestBlock
  <1>1. /\ TipBestAnchor' = TipBestAnchor /\ ViewBestAnchor' = ViewBestAnchor
        /\ TipBestBlock' = TipBestBlock /\ ViewBestBlock' = ViewBestBlock
    BY DEF TipBestAnchor, ViewBestAnchor, TipBestBlock, ViewBestBlock, HashIn
  <1> QED
    BY <1>1 DEF IInv, HashesOK, IdleView, TreesOK, AnchorsTo

LEMMA ViewAccessCoinInv ==
    ASSUME IInv, NEW o \in Outpoints, ViewAccessCoin(o)
    PROVE  IInv' /\ AStep
  <1>1. CoinsOK' /\ TipCoin' = TipCoin /\ ViewCoin' = ViewCoin
    BY AccessCoinStep DEF IInv
  <1>2. NfsOK' /\ TipNf' = TipNf /\ ViewNf' = ViewNf
    BY NfsUnchanged DEF IInv, ViewAccessCoin, dbVars
  <1>3. AnchorsOK' /\ TipAnchor' = TipAnchor /\ ViewAnchor' = ViewAnchor
    BY AnchorsUnchanged DEF IInv, ViewAccessCoin, dbVars
  <1>4. /\ UNCHANGED <<dbRoot, dbBlock, tipRoot, tipBlock, viewRoot, viewBlock, session>>
        /\ session # "idle" /\ logicError' = FALSE
    BY DEF ViewAccessCoin, InBlock, dbVars, IInv, HashesOK
  <1>5. /\ HashesOK' /\ IdleView' /\ TreesOK'
        /\ TipBestAnchor' = TipBestAnchor /\ ViewBestAnchor' = ViewBestAnchor
        /\ TipBestBlock' = TipBestBlock /\ ViewBestBlock' = ViewBestBlock
    BY <1>3, <1>4, QuietStep
  <1> QED
    BY <1>1, <1>2, <1>3, <1>4, <1>5 DEF IInv, AStep, Committed, Working

LEMMA ViewSpendCoinInv ==
    ASSUME IInv, NEW o \in Outpoints, ViewSpendCoin(o)
    PROVE  IInv' /\ AStep
  <1>1. CoinsOK' /\ TipCoin' = TipCoin /\ ViewCoin' = [ViewCoin EXCEPT ![o] = Spent]
    BY SpendCoinStep DEF IInv
  <1>2. NfsOK' /\ TipNf' = TipNf /\ ViewNf' = ViewNf
    BY NfsUnchanged DEF IInv, ViewSpendCoin, dbVars
  <1>3. AnchorsOK' /\ TipAnchor' = TipAnchor /\ ViewAnchor' = ViewAnchor
    BY AnchorsUnchanged DEF IInv, ViewSpendCoin, dbVars
  <1>4. /\ UNCHANGED <<dbRoot, dbBlock, tipRoot, tipBlock, viewRoot, viewBlock, session>>
        /\ session \in {"connect", "disconnect"} /\ logicError' = FALSE
    BY DEF ViewSpendCoin, InBlock, dbVars, IInv, HashesOK
  <1>5. /\ HashesOK' /\ IdleView' /\ TreesOK'
        /\ TipBestAnchor' = TipBestAnchor /\ ViewBestAnchor' = ViewBestAnchor
        /\ TipBestBlock' = TipBestBlock /\ ViewBestBlock' = ViewBestBlock
    BY <1>3, <1>4, QuietStep
  <1>6. Abs!ASetCoin(o, Spent)
    BY <1>1, <1>2, <1>3, <1>4, <1>5, SMT DEF Abs!ASetCoin, Committed, Working
  <1> QED
    BY <1>1, <1>2, <1>3, <1>5, <1>6 DEF IInv, AStep, Abs!ANext

LEMMA AddCoinInv ==
    ASSUME IInv, NEW o \in Outpoints, NEW c \in Coins,
           AddOutput(o, c) \/ ApplyTxInUndo(o, c)
    PROVE  IInv' /\ AStep
  <1>1. /\ CoinsOK' /\ TipCoin' = TipCoin /\ logicError' = FALSE
        /\ ViewCoin' = IF c \in Unspendable THEN ViewCoin ELSE [ViewCoin EXCEPT ![o] = c]
    BY AddOutputStep, ApplyTxInUndoStep DEF IInv
  <1>2. NfsOK' /\ TipNf' = TipNf /\ ViewNf' = ViewNf
    BY NfsUnchanged DEF IInv, AddOutput, ApplyTxInUndo, dbVars, tipVars
  <1>3. AnchorsOK' /\ TipAnchor' = TipAnchor /\ ViewAnchor' = ViewAnchor
    BY AnchorsUnchanged DEF IInv, AddOutput, ApplyTxInUndo, dbVars, tipVars
  <1>4. /\ UNCHANGED <<dbRoot, dbBlock, tipRoot, tipBlock, viewRoot, viewBlock, session>>
        /\ session \in {"connect", "disconnect"}
    BY DEF AddOutput, ApplyTxInUndo, dbVars, tipVars
  <1>5. /\ HashesOK' /\ IdleView' /\ TreesOK'
        /\ TipBestAnchor' = TipBestAnchor /\ ViewBestAnchor' = ViewBestAnchor
        /\ TipBestBlock' = TipBestBlock /\ ViewBestBlock' = ViewBestBlock
    BY <1>1, <1>3, <1>4, QuietStep
  <1>6. IInv'
    BY <1>1, <1>2, <1>3, <1>5 DEF IInv
  <1>7. CASE c \in Unspendable
    BY <1>1, <1>2, <1>3, <1>4, <1>5, <1>6, <1>7 DEF AStep, Committed, Working
  <1>8. CASE c \notin Unspendable
    <2>1. Abs!ASetCoin(o, c)
      BY <1>1, <1>2, <1>3, <1>4, <1>5, <1>8, SMT DEF Abs!ASetCoin, Committed, Working
    <2> QED
      BY <1>6, <2>1 DEF AStep, Abs!ANext
  <1> QED
    BY <1>7, <1>8

LEMMA ShieldedReadsAnchors ==
    ASSUME IInv, NEW n \in Nullifiers, NEW r \in Roots, ShieldedReads(n, r)
    PROVE  AnchorsOK' /\ TipAnchor' = TipAnchor /\ ViewAnchor' = ViewAnchor
  BY AnchorsReread DEF IInv, ShieldedReads, dbVars

LEMMA RefuseShieldedInv ==
    ASSUME IInv, NEW n \in Nullifiers, NEW r \in Roots, RefuseShielded(n, r)
    PROVE  IInv' /\ AStep
  <1>1. CoinsOK' /\ TipCoin' = TipCoin /\ ViewCoin' = ViewCoin
    BY CoinsUnchanged DEF IInv, RefuseShielded, ShieldedReads, dbVars
  <1>2. NfsOK' /\ TipNf' = TipNf /\ ViewNf' = ViewNf
    BY RefuseShieldedNfs DEF IInv
  <1>3. AnchorsOK' /\ TipAnchor' = TipAnchor /\ ViewAnchor' = ViewAnchor
    BY ShieldedReadsAnchors DEF RefuseShielded
  <1>4. /\ UNCHANGED <<dbRoot, dbBlock, tipRoot, tipBlock, viewRoot, viewBlock, session>>
        /\ session # "idle" /\ logicError' = FALSE
    BY DEF RefuseShielded, ShieldedReads, dbVars, IInv, HashesOK
  <1>5. /\ HashesOK' /\ IdleView' /\ TreesOK'
        /\ TipBestAnchor' = TipBestAnchor /\ ViewBestAnchor' = ViewBestAnchor
        /\ TipBestBlock' = TipBestBlock /\ ViewBestBlock' = ViewBestBlock
    BY <1>3, <1>4, QuietStep
  <1> QED
    BY <1>1, <1>2, <1>3, <1>4, <1>5 DEF IInv, AStep, Committed, Working

LEMMA SpendNoteInv ==
    ASSUME IInv, NEW n \in Nullifiers, NEW r \in Roots, SpendNote(n, r)
    PROVE  IInv' /\ AStep
  <1>1. CoinsOK' /\ TipCoin' = TipCoin /\ ViewCoin' = ViewCoin
    BY CoinsUnchanged DEF IInv, SpendNote, ShieldedReads, dbVars
  <1>2. NfsOK' /\ TipNf' = TipNf /\ ViewNf' = [ViewNf EXCEPT ![n] = TRUE]
    BY SpendNoteNfs DEF IInv
  <1>3. AnchorsOK' /\ TipAnchor' = TipAnchor /\ ViewAnchor' = ViewAnchor
    BY ShieldedReadsAnchors DEF SpendNote
  <1>4. /\ UNCHANGED <<dbRoot, dbBlock, tipRoot, tipBlock, viewRoot, viewBlock, session>>
        /\ session = "connect" /\ logicError' = FALSE /\ ~ViewNf[n]
    BY DEF SpendNote, HaveShieldedRequirements, ShieldedReads, dbVars, IInv, HashesOK
  <1>5. /\ HashesOK' /\ IdleView' /\ TreesOK'
        /\ TipBestAnchor' = TipBestAnchor /\ ViewBestAnchor' = ViewBestAnchor
        /\ TipBestBlock' = TipBestBlock /\ ViewBestBlock' = ViewBestBlock
    BY <1>3, <1>4, QuietStep
  <1>6. PICK spent \in BOOLEAN : spent = TRUE
    OBVIOUS
  <1>7. ViewNf' = [ViewNf EXCEPT ![n] = spent]
    BY <1>2, <1>6
  <1>8. Abs!ASetNullifier(n, spent)
    <2>1. Working' = [Working EXCEPT !.nfs[n] = spent]
      BY <1>1, <1>3, <1>5, <1>7, SMT DEF Working
    <2>2. Committed' = Committed /\ Working.nfs = ViewNf
      BY <1>1, <1>2, <1>3, <1>5 DEF Committed, Working
    <2> QED
      BY <1>4, <1>6, <2>1, <2>2 DEF Abs!ASetNullifier
  <1> QED
    BY <1>1, <1>2, <1>3, <1>5, <1>8 DEF IInv, AStep, Abs!ANext

LEMMA UnspendNoteInv ==
    ASSUME IInv, NEW n \in Nullifiers, UnspendNote(n)
    PROVE  IInv' /\ AStep
  <1>1. CoinsOK' /\ TipCoin' = TipCoin /\ ViewCoin' = ViewCoin
    BY CoinsUnchanged DEF IInv, UnspendNote, dbVars, tipVars
  <1>2. NfsOK' /\ TipNf' = TipNf /\ ViewNf' = [ViewNf EXCEPT ![n] = FALSE]
    BY UnspendNoteNfs DEF IInv
  <1>3. AnchorsOK' /\ TipAnchor' = TipAnchor /\ ViewAnchor' = ViewAnchor
    BY AnchorsUnchanged DEF IInv, UnspendNote, dbVars, tipVars
  <1>4. /\ UNCHANGED <<dbRoot, dbBlock, tipRoot, tipBlock, viewRoot, viewBlock, session>>
        /\ session = "disconnect" /\ logicError' = FALSE
    BY DEF UnspendNote, dbVars, tipVars, IInv, HashesOK
  <1>5. /\ HashesOK' /\ IdleView' /\ TreesOK'
        /\ TipBestAnchor' = TipBestAnchor /\ ViewBestAnchor' = ViewBestAnchor
        /\ TipBestBlock' = TipBestBlock /\ ViewBestBlock' = ViewBestBlock
    BY <1>3, <1>4, QuietStep
  <1>6. PICK spent \in BOOLEAN : spent = FALSE
    OBVIOUS
  <1>7. ViewNf' = [ViewNf EXCEPT ![n] = spent]
    BY <1>2, <1>6
  <1>8. Abs!ASetNullifier(n, spent)
    <2>1. Working' = [Working EXCEPT !.nfs[n] = spent]
      BY <1>1, <1>3, <1>5, <1>7, SMT DEF Working
    <2>2. Committed' = Committed /\ Working.nfs = ViewNf
      BY <1>1, <1>2, <1>3, <1>5 DEF Committed, Working
    <2> QED
      BY <1>4, <1>6, <2>1, <2>2 DEF Abs!ASetNullifier
  <1> QED
    BY <1>1, <1>2, <1>3, <1>5, <1>8 DEF IInv, AStep, Abs!ANext

LEMMA FinishConnectInv ==
    ASSUME IInv, NEW b \in BlockHashes, NEW r \in Roots, FinishConnect(b, r)
    PROVE  IInv' /\ AStep
  <1>1. CoinsOK' /\ TipCoin' = TipCoin /\ ViewCoin' = ViewCoin
    BY CoinsUnchanged DEF IInv, FinishConnect, dbVars, tipVars
  <1>2. NfsOK' /\ TipNf' = TipNf /\ ViewNf' = ViewNf
    BY NfsUnchanged DEF IInv, FinishConnect, dbVars, tipVars
  <1>3. ViewBestAnchor \in Roots /\ ViewAnchor[ViewBestAnchor]
    BY BestTypes DEF IInv, TreesOK, AnchorsTo
  <1>4. AnchorsOK' /\ TipAnchor' = TipAnchor /\ ViewAnchor' = [ViewAnchor EXCEPT ![r] = TRUE]
    BY <1>3, PushAnchorStep DEF IInv, FinishConnect, dbVars, tipVars
  <1>5. /\ TipBestAnchor' = TipBestAnchor /\ TipBestBlock' = TipBestBlock
        /\ ViewBestAnchor' = r /\ ViewBestBlock' = b
    BY RootFacts DEF FinishConnect, dbVars, tipVars, TipBestAnchor, TipBestBlock,
                     ViewBestAnchor, ViewBestBlock, HashIn
  <1>6. HashesOK' /\ IdleView'
    BY <1>5, RootFacts DEF IInv, HashesOK, IdleView, FinishConnect, dbVars, tipVars
  <1>7. TreesOK'
    <2>1. AnchorsTo(TipAnchor', TipBestAnchor')
      BY <1>4, <1>5 DEF IInv, TreesOK
    <2>2. ViewAnchor \in [Roots -> BOOLEAN]
      BY TipAnchorType DEF IInv
    <2>3. r >= ViewBestAnchor
      BY DEF FinishConnect
    <2>4. AnchorsTo([ViewAnchor EXCEPT ![r] = TRUE], r)
      <3>1. ViewAnchor[EmptyRoot] /\ \A s \in Roots : ViewAnchor[s] => s <= ViewBestAnchor
        BY DEF IInv, TreesOK, AnchorsTo
      <3>2. \A s \in Roots : s = r \/ ViewAnchor[s] => s <= r
        BY <1>3, <2>3, <3>1, RootFacts, SMT
      <3> QED
        BY <2>2, <3>1, <3>2, RootFacts DEF AnchorsTo
    <2> QED
      BY <1>4, <1>5, <2>1, <2>4 DEF TreesOK
  <1>8. Abs!AFinishConnect(b, r)
    <2>1. /\ Working.coins = ViewCoin /\ Working.nfs = ViewNf
          /\ Working.anchors = ViewAnchor /\ Working.root = ViewBestAnchor
      BY DEF Working
    <2>2. Working' = [coins |-> Working.coins, nfs |-> Working.nfs,
                      anchors |-> [Working.anchors EXCEPT ![r] = TRUE], root |-> r, best |-> b]
      BY <1>1, <1>2, <1>4, <1>5, <2>1 DEF Working
    <2>3. Committed' = Committed
      BY <1>1, <1>2, <1>4, <1>5 DEF Committed
    <2> QED
      BY <2>1, <2>2, <2>3 DEF Abs!AFinishConnect, FinishConnect
  <1>9. r \in Abs!Roots
    BY DEF Roots, Abs!Roots
  <1> QED
    BY <1>1, <1>2, <1>4, <1>6, <1>7, <1>8, <1>9 DEF IInv, AStep, Abs!ANext

LEMMA FinishDisconnectInv ==
    ASSUME IInv, NEW b \in BlockHashes, NEW r \in Roots, FinishDisconnect(b, r)
    PROVE  IInv' /\ AStep
  <1> DEFINE old == ViewBestAnchor
  <1>1. CoinsOK' /\ TipCoin' = TipCoin /\ ViewCoin' = ViewCoin
    BY CoinsUnchanged DEF IInv, FinishDisconnect, dbVars
  <1>2. NfsOK' /\ TipNf' = TipNf /\ ViewNf' = ViewNf
    BY NfsUnchanged DEF IInv, FinishDisconnect, dbVars
  <1>3. /\ old \in Roots /\ ViewAnchor[old] /\ ViewAnchor[EmptyRoot]
        /\ \A q \in Roots : ViewAnchor[q] => q <= old
        /\ ViewAnchor \in [Roots -> BOOLEAN]
    BY BestTypes, TipAnchorType DEF IInv, TreesOK, AnchorsTo
  <1>4. /\ ViewAnchor[r] /\ r <= old
        /\ \A q \in Roots : ViewAnchor[q] /\ q < old => q <= r
    BY DEF FinishDisconnect, IsParentRoot
  <1>5. /\ AnchorsOK' /\ TipAnchor' = TipAnchor
        /\ ViewAnchor' = IF old = r THEN ViewAnchor ELSE [ViewAnchor EXCEPT ![old] = FALSE]
    <2>1. CASE old = r
      BY <2>1, AnchorsUnchanged DEF IInv, FinishDisconnect, dbVars
    <2>2. CASE old # r
      BY <1>3, <2>2, PopAnchorStep DEF IInv, FinishDisconnect, dbVars
    <2> QED
      BY <2>1, <2>2
  <1>6. /\ TipBestAnchor' = TipBestAnchor /\ TipBestBlock' = TipBestBlock
        /\ ViewBestAnchor' = r /\ ViewBestBlock' = b
    BY RootFacts DEF FinishDisconnect, dbVars, TipBestAnchor, TipBestBlock,
                     ViewBestAnchor, ViewBestBlock, HashIn
  <1>7. logicError' = FALSE
    BY <1>3 DEF FinishDisconnect
  <1>8. HashesOK' /\ IdleView'
    BY <1>6, <1>7, RootFacts DEF IInv, HashesOK, IdleView, FinishDisconnect, dbVars
  <1>9. ViewAnchor' = [q \in Roots |-> ViewAnchor[q] /\ (q = old => q = r)]
    <2> HIDE DEF old
    <2> QED
      BY <1>3, <1>5
  <1>10. TreesOK'
    <2>1. AnchorsTo(TipAnchor', TipBestAnchor')
      BY <1>5, <1>6 DEF IInv, TreesOK
    <2> HIDE DEF old
    <2>2. \A q \in Roots : ViewAnchor'[q] <=> ViewAnchor[q] /\ (q = old => q = r)
      BY <1>9
    <2>3. EmptyRoot = old => EmptyRoot = r
      BY <1>4, RootFacts, SMT DEF EmptyRoot
    <2>4. \A q \in Roots : ViewAnchor'[q] => q <= r
      BY <1>3, <1>4, <2>2, RootFacts, SMT
    <2>5. ViewAnchor'[EmptyRoot] /\ ViewAnchor'[r]
      BY <1>3, <1>4, <2>2, <2>3, RootFacts
    <2> QED
      BY <1>6, <2>1, <2>4, <2>5 DEF TreesOK, AnchorsTo
  <1>11. Abs!AFinishDisconnect(b, r)
    <2>1. /\ Working.coins = ViewCoin /\ Working.nfs = ViewNf
          /\ Working.anchors = ViewAnchor /\ Working.root = old /\ Abs!Roots = Roots
      BY DEF Working, Abs!Roots, Roots
    <2>2. Working' =
            [coins |-> Working.coins, nfs |-> Working.nfs,
             anchors |-> [q \in Abs!Roots |-> Working.anchors[q] /\ (q = Working.root => q = r)],
             root |-> r, best |-> b]
      BY <1>1, <1>2, <1>6, <1>9, <2>1 DEF Working
    <2>3. Committed' = Committed
      BY <1>1, <1>2, <1>5, <1>6 DEF Committed
    <2>4. /\ Working.anchors[r] /\ r <= Working.root
          /\ \A q \in Abs!Roots : Working.anchors[q] /\ q < Working.root => q <= r
      BY <1>4, <2>1
    <2> QED
      BY <2>2, <2>3, <2>4 DEF Abs!AFinishDisconnect, FinishDisconnect
  <1>12. r \in Abs!Roots
    BY SMT DEF Roots, Abs!Roots
  <1> QED
    BY <1>1, <1>2, <1>5, <1>8, <1>10, <1>11, <1>12 DEF IInv, AStep, Abs!ANext

(* Between sessions the view adds nothing to the tip.                       *)
LEMMA IdleViews ==
    ASSUME IInv, session = "idle"
    PROVE  /\ ViewCoin = TipCoin /\ ViewNf = TipNf /\ ViewAnchor = TipAnchor
           /\ ViewBestAnchor = TipBestAnchor /\ ViewBestBlock = TipBestBlock
  <1>1. ViewCoin = TipCoin
    BY TipCoinType DEF IInv, IdleView, ViewCoin, CoinIn, EmptyCoins, CoinBase
  <1>2. ViewNf = TipNf
    BY TipNfType DEF IInv, IdleView, ViewNf, FlagIn, EmptyNfs
  <1>3. ViewAnchor = TipAnchor
    BY TipAnchorType DEF IInv, IdleView, ViewAnchor, FlagIn, EmptyAnchors
  <1>4. ViewBestAnchor = TipBestAnchor /\ ViewBestBlock = TipBestBlock
    BY DEF IInv, IdleView, ViewBestAnchor, ViewBestBlock, HashIn
  <1> QED
    BY <1>1, <1>2, <1>3, <1>4

LEMMA ConnectGenesisInv ==
    ASSUME IInv, ConnectGenesis
    PROVE  IInv' /\ AStep
  <1>1. CoinsOK' /\ TipCoin' = TipCoin /\ ViewCoin' = TipCoin
    BY CoinsUnchanged, IdleViews DEF IInv, ConnectGenesis, dbVars, tipVars
  <1>2. NfsOK' /\ TipNf' = TipNf /\ ViewNf' = TipNf
    BY NfsUnchanged, IdleViews DEF IInv, ConnectGenesis, dbVars, tipVars
  <1>3. AnchorsOK' /\ TipAnchor' = TipAnchor /\ ViewAnchor' = TipAnchor
    BY AnchorsUnchanged, IdleViews DEF IInv, ConnectGenesis, dbVars, tipVars
  <1>4. tipBlock = Null /\ viewRoot = Null /\ session = "idle"
    BY DEF ConnectGenesis, TipBestBlock, HashIn, IInv, IdleView
  <1>5. /\ TipBestAnchor' = TipBestAnchor /\ TipBestBlock' = TipBestBlock
        /\ ViewBestAnchor' = TipBestAnchor /\ ViewBestBlock' = Genesis
    BY <1>4, RootFacts DEF ConnectGenesis, dbVars, tipVars, TipBestAnchor, TipBestBlock,
                           ViewBestAnchor, ViewBestBlock, HashIn
  <1>6. HashesOK' /\ IdleView'
    BY <1>4, <1>5, RootFacts DEF IInv, HashesOK, IdleView, ConnectGenesis, dbVars, tipVars
  <1>7. TreesOK'
    BY <1>3, <1>5 DEF IInv, TreesOK
  <1>8. Abs!AConnectGenesis
    BY <1>1, <1>2, <1>3, <1>5, SMT DEF Abs!AConnectGenesis, Committed, Working, ConnectGenesis
  <1> QED
    BY <1>1, <1>2, <1>3, <1>6, <1>7, <1>8 DEF IInv, AStep, Abs!ANext

LEMMA OpenConnectInv ==
    ASSUME IInv, OpenConnect
    PROVE  IInv' /\ AStep
  <1>1. CoinsOK' /\ TipCoin' = TipCoin /\ ViewCoin' = ViewCoin
    BY CoinsUnchanged DEF IInv, OpenConnect, dbVars
  <1>2. NfsOK' /\ TipNf' = TipNf /\ ViewNf' = ViewNf
    BY NfsUnchanged DEF IInv, OpenConnect, dbVars
  <1>3. TipBestAnchor \in Roots /\ TipAnchor[TipBestAnchor] = TRUE
    BY BestTypes, TipAnchorType DEF IInv, TreesOK, AnchorsTo
  <1>4. AnchorsOK' /\ TipAnchor' = TipAnchor /\ ViewAnchor' = ViewAnchor
    BY <1>3, AnchorsReread DEF IInv, OpenConnect, dbVars
  <1>5. /\ TipBestAnchor' = TipBestAnchor /\ TipBestBlock' = TipBestBlock
        /\ ViewBestAnchor' = TipBestAnchor /\ ViewBestBlock' = TipBestBlock
    BY <1>3, RootFacts DEF OpenConnect, dbVars, TipBestAnchor, TipBestBlock,
                           ViewBestAnchor, ViewBestBlock, HashIn
  <1>6. ViewBestAnchor' = ViewBestAnchor /\ ViewBestBlock' = ViewBestBlock
    BY <1>5, IdleViews DEF OpenConnect
  <1>7. logicError' = FALSE
    BY <1>3 DEF OpenConnect
  <1>8. TipBestBlock \in BlockHashes /\ TipBestBlock # Null
    BY DEF OpenConnect, TipBestBlock, HashIn, IInv, HashesOK
  <1>9. HashesOK' /\ IdleView'
    BY <1>3, <1>5, <1>7, <1>8, RootFacts DEF IInv, HashesOK, IdleView, OpenConnect, dbVars
  <1>10. TreesOK'
    BY <1>4, <1>5, <1>6 DEF IInv, TreesOK
  <1>11. Abs!ABegin("connect")
    BY <1>1, <1>2, <1>4, <1>5, <1>6, <1>8 DEF Abs!ABegin, Committed, Working, OpenConnect
  <1> QED
    BY <1>1, <1>2, <1>4, <1>9, <1>10, <1>11 DEF IInv, AStep, Abs!ANext

LEMMA OpenDisconnectInv ==
    ASSUME IInv, OpenDisconnect
    PROVE  IInv' /\ AStep
  <1>1. CoinsOK' /\ TipCoin' = TipCoin /\ ViewCoin' = ViewCoin
    BY CoinsUnchanged DEF IInv, OpenDisconnect, dbVars
  <1>2. NfsOK' /\ TipNf' = TipNf /\ ViewNf' = ViewNf
    BY NfsUnchanged DEF IInv, OpenDisconnect, dbVars
  <1>3. AnchorsOK' /\ TipAnchor' = TipAnchor /\ ViewAnchor' = ViewAnchor
    BY AnchorsUnchanged DEF IInv, OpenDisconnect, dbVars
  <1>4. TipBestAnchor \in Roots /\ viewRoot = Null
    BY BestTypes DEF IInv, IdleView, OpenDisconnect
  <1>5. /\ TipBestAnchor' = TipBestAnchor /\ TipBestBlock' = TipBestBlock
        /\ ViewBestAnchor' = TipBestAnchor /\ ViewBestBlock' = TipBestBlock
    BY <1>4, RootFacts DEF OpenDisconnect, dbVars, TipBestAnchor, TipBestBlock,
                           ViewBestAnchor, ViewBestBlock, HashIn
  <1>6. ViewBestAnchor' = ViewBestAnchor /\ ViewBestBlock' = ViewBestBlock
    BY <1>5, IdleViews DEF OpenDisconnect
  <1>7. TipBestBlock \in BlockHashes /\ TipBestBlock # Null /\ TipBestBlock # Genesis
    BY DEF OpenDisconnect, TipBestBlock, HashIn, IInv, HashesOK
  <1>8. HashesOK' /\ IdleView'
    BY <1>4, <1>5, <1>7, RootFacts DEF IInv, HashesOK, IdleView, OpenDisconnect, dbVars
  <1>9. TreesOK'
    BY <1>3, <1>5, <1>6, SMT DEF IInv, TreesOK
  <1>10. Abs!ABegin("disconnect")
    BY <1>1, <1>2, <1>3, <1>5, <1>6, <1>7 DEF Abs!ABegin, Committed, Working, OpenDisconnect
  <1> QED
    BY <1>1, <1>2, <1>3, <1>8, <1>9, <1>10 DEF IInv, AStep, Abs!ANext

LEMMA FlushViewInv ==
    ASSUME IInv, FlushView
    PROVE  IInv' /\ AStep
  <1>1. CoinsOK' /\ TipCoin' = ViewCoin /\ ViewCoin' = ViewCoin /\ logicError' = FALSE
    BY FlushViewCoins DEF IInv
  <1>2. NfsOK' /\ TipNf' = ViewNf /\ ViewNf' = ViewNf
    BY FlushViewNfs DEF IInv
  <1>3. AnchorsOK' /\ TipAnchor' = ViewAnchor /\ ViewAnchor' = ViewAnchor
    BY FlushViewAnchors DEF IInv
  <1>4. /\ viewBlock # Null /\ (viewRoot # Null \/ TipBestAnchor = dbRoot)
        /\ tipRoot' = viewRoot /\ tipBlock' = viewBlock
        /\ viewRoot' = Null /\ viewBlock' = Null /\ UNCHANGED <<dbRoot, dbBlock>>
    BY DEF IInv, HashesOK, FlushView, DestroyView, dbVars
  <1>5. TipBestAnchor' = ViewBestAnchor /\ TipBestBlock' = ViewBestBlock
    BY <1>4 DEF TipBestAnchor, TipBestBlock, ViewBestAnchor, ViewBestBlock, HashIn
  <1>6. ViewBestAnchor' = ViewBestAnchor /\ ViewBestBlock' = ViewBestBlock
    BY <1>4, <1>5 DEF ViewBestAnchor, ViewBestBlock, HashIn
  <1>7. HashesOK' /\ IdleView'
    BY <1>1, <1>4, <1>5 DEF IInv, HashesOK, IdleView, FlushView, DestroyView
  <1>8. TreesOK'
    BY <1>3, <1>5, <1>6 DEF IInv, TreesOK
  <1>9. Abs!ACommit
    BY <1>1, <1>2, <1>3, <1>5, <1>6 DEF Abs!ACommit, Committed, Working, FlushView
  <1> QED
    BY <1>1, <1>2, <1>3, <1>7, <1>8, <1>9 DEF IInv, AStep, Abs!ANext

LEMMA AbandonInv ==
    ASSUME IInv, Abandon
    PROVE  IInv' /\ AStep
  <1>1. CoinsOK' /\ TipCoin' = TipCoin /\ ViewCoin' = TipCoin
    <2>1. /\ viewCoins' = EmptyCoins /\ UNCHANGED <<dbCoins, tipCoins>>
      BY DEF Abandon, DestroyView, dbVars, tipVars
    <2>2. \A o \in Outpoints : CoinIn(tipCoins', dbCoins', o) = TipCoin[o]
      BY <2>1 DEF TipCoin
    <2> QED
      BY <2>1, <2>2, EmptyViewCoins DEF IInv, CoinsOK
  <1>2. NfsOK' /\ TipNf' = TipNf /\ ViewNf' = TipNf
    <2>1. /\ viewNfs' = EmptyNfs /\ UNCHANGED <<dbNfs, tipNfs>>
      BY DEF Abandon, DestroyView, dbVars, tipVars
    <2>2. \A n \in Nullifiers : FlagIn(tipNfs', dbNfs', n) = TipNf[n]
      BY <2>1, SMT DEF TipNf
    <2> QED
      BY <2>1, <2>2, EmptyViewNfs DEF IInv, NfsOK
  <1>3. AnchorsOK' /\ TipAnchor' = TipAnchor /\ ViewAnchor' = TipAnchor
    <2>1. /\ viewAnchors' = EmptyAnchors /\ UNCHANGED <<dbAnchors, tipAnchors>>
      BY DEF Abandon, DestroyView, dbVars, tipVars
    <2>2. DbAnchor' = DbAnchor
      BY <2>1 DEF DbAnchor
    <2>3. \A r \in Roots : FlagIn(tipAnchors', DbAnchor', r) = TipAnchor[r]
      BY <2>1, <2>2 DEF TipAnchor
    <2> QED
      BY <2>1, <2>2, <2>3, EmptyViewAnchors DEF IInv, AnchorsOK
  <1>4. /\ viewRoot' = Null /\ viewBlock' = Null
        /\ UNCHANGED <<dbRoot, dbBlock, tipRoot, tipBlock, logicError>>
    BY DEF Abandon, DestroyView, dbVars, tipVars
  <1>5. /\ TipBestAnchor' = TipBestAnchor /\ TipBestBlock' = TipBestBlock
        /\ ViewBestAnchor' = TipBestAnchor /\ ViewBestBlock' = TipBestBlock
    BY <1>4 DEF TipBestAnchor, TipBestBlock, ViewBestAnchor, ViewBestBlock, HashIn
  <1>6. HashesOK' /\ IdleView'
    BY <1>4, <1>5 DEF IInv, HashesOK, IdleView, Abandon, DestroyView
  <1>7. TreesOK'
    BY <1>3, <1>5 DEF IInv, TreesOK
  <1>8. Abs!AAbandon
    BY <1>1, <1>2, <1>3, <1>5 DEF Abs!AAbandon, Committed, Working, Abandon
  <1> QED
    BY <1>1, <1>2, <1>3, <1>6, <1>7, <1>8 DEF IInv, AStep, Abs!ANext

(* A step between sessions that keeps the answers of the tip.               *)
LEMMA IdleStep ==
    ASSUME IInv, session = "idle", UNCHANGED <<viewVars, session, logicError>>,
           CoinsOK', NfsOK', AnchorsOK',
           TipCoin' = TipCoin, TipNf' = TipNf, TipAnchor' = TipAnchor,
           ViewCoin' = TipCoin, ViewNf' = TipNf, ViewAnchor' = TipAnchor,
           TipBestAnchor' = TipBestAnchor, TipBestBlock' = TipBestBlock,
           dbRoot' \in Roots, tipRoot' \in Roots \cup {Null},
           dbBlock' \in BlockHashes \cup {Null}, tipBlock' \in BlockHashes \cup {Null},
           tipBlock' = Null => TipBestAnchor' = dbRoot'
    PROVE  IInv' /\ AStep
  <1>1. ViewBestAnchor' = TipBestAnchor /\ ViewBestBlock' = TipBestBlock
    BY DEF IInv, IdleView, viewVars, ViewBestAnchor, ViewBestBlock, HashIn
  <1>2. HashesOK' /\ IdleView'
    BY DEF IInv, HashesOK, IdleView, viewVars
  <1>3. TreesOK'
    BY <1>1 DEF IInv, TreesOK
  <1>4. UNCHANGED <<Committed, Working, session>>
    BY <1>1, IdleViews DEF Committed, Working
  <1> QED
    BY <1>2, <1>3, <1>4 DEF IInv, AStep

LEMMA TipReadInv ==
    ASSUME IInv, TipRead
    PROVE  IInv' /\ AStep
  <1>1. /\ session = "idle" /\ UNCHANGED <<dbVars, tipBlock, viewVars, session, logicError>>
        /\ viewCoins = EmptyCoins /\ viewNfs = EmptyNfs /\ viewAnchors = EmptyAnchors
        /\ UNCHANGED <<dbCoins, dbNfs, dbAnchors, dbRoot, dbBlock, viewCoins, viewNfs, viewAnchors>>
    BY DEF TipRead, IInv, IdleView, dbVars, viewVars
  <1>2. CoinsOK' /\ TipCoin' = TipCoin /\ ViewCoin' = TipCoin
    <2>1. CASE tipCoins' = tipCoins
      BY <1>1, <2>1, CoinsUnchanged, IdleViews DEF IInv
    <2>2. CASE \E o \in Outpoints : tipCoins' = TipFetchCoin(o)
      BY <1>1, <2>2, TipReadCoins DEF IInv
    <2> QED
      BY <2>1, <2>2 DEF TipRead
  <1>3. NfsOK' /\ TipNf' = TipNf /\ ViewNf' = TipNf
    <2>1. CASE tipNfs' = tipNfs
      BY <1>1, <2>1, NfsUnchanged, IdleViews DEF IInv
    <2>2. CASE \E n \in Nullifiers : tipNfs' = TipFetchNf(n)
      BY <1>1, <2>2, TipReadNfs DEF IInv
    <2> QED
      BY <2>1, <2>2 DEF TipRead
  <1>4. AnchorsOK' /\ TipAnchor' = TipAnchor /\ ViewAnchor' = TipAnchor
    <2>1. CASE tipAnchors' = tipAnchors
      BY <1>1, <2>1, AnchorsUnchanged, IdleViews DEF IInv
    <2>2. CASE \E r \in Roots : tipAnchors' = TipFetchAnchor(r)
      BY <1>1, <2>2, TipReadAnchors, IdleViews DEF IInv
    <2> QED
      BY <2>1, <2>2 DEF TipRead
  <1>5. tipRoot' = tipRoot \/ tipRoot' = TipBestAnchor
    BY DEF TipRead
  <1>6. /\ TipBestAnchor' = TipBestAnchor /\ TipBestBlock' = TipBestBlock
        /\ tipRoot' \in Roots \cup {Null}
    BY <1>1, <1>5, BestTypes DEF TipBestAnchor, TipBestBlock, HashIn, IInv, HashesOK
  <1> QED
    BY <1>1, <1>2, <1>3, <1>4, <1>6, IdleStep DEF IInv, HashesOK

LEMMA UncacheInv ==
    ASSUME IInv, NEW o \in Outpoints, Uncache(o)
    PROVE  IInv' /\ AStep
  <1>1. /\ session = "idle" /\ UNCHANGED <<viewVars, session, logicError>>
        /\ UNCHANGED <<dbNfs, dbAnchors, dbRoot, dbBlock, tipNfs, tipAnchors, tipRoot, tipBlock,
                       viewNfs, viewAnchors>>
        /\ viewCoins = EmptyCoins
    BY DEF Uncache, IInv, IdleView, dbVars, viewVars
  <1>2. CoinsOK' /\ TipCoin' = TipCoin /\ ViewCoin' = TipCoin
    BY <1>1, UncacheStep DEF IInv
  <1>3. NfsOK' /\ TipNf' = TipNf /\ ViewNf' = TipNf
    BY <1>1, NfsUnchanged, IdleViews DEF IInv
  <1>4. AnchorsOK' /\ TipAnchor' = TipAnchor /\ ViewAnchor' = TipAnchor
    BY <1>1, AnchorsUnchanged, IdleViews DEF IInv
  <1>5. TipBestAnchor' = TipBestAnchor /\ TipBestBlock' = TipBestBlock
    BY <1>1 DEF TipBestAnchor, TipBestBlock, HashIn
  <1> QED
    BY <1>1, <1>2, <1>3, <1>4, <1>5, IdleStep DEF IInv, HashesOK

LEMMA FlushTipInv ==
    ASSUME IInv, FlushTip
    PROVE  IInv' /\ AStep /\ Stored' = Committed
  <1>1. /\ session = "idle" /\ UNCHANGED <<viewVars, session, logicError>>
        /\ viewCoins = EmptyCoins /\ viewNfs = EmptyNfs /\ viewAnchors = EmptyAnchors
        /\ TipAnchor[EmptyRoot]
    BY DEF FlushTip, IInv, IdleView, TreesOK, AnchorsTo
  <1>2. CoinsOK' /\ dbCoins' = TipCoin /\ TipCoin' = TipCoin /\ ViewCoin' = TipCoin
    BY <1>1, FlushTipCoins DEF IInv
  <1>3. NfsOK' /\ dbNfs' = TipNf /\ TipNf' = TipNf /\ ViewNf' = TipNf
    BY <1>1, FlushTipNfs DEF IInv
  <1>4. AnchorsOK' /\ DbAnchor' = TipAnchor /\ TipAnchor' = TipAnchor /\ ViewAnchor' = TipAnchor
    BY <1>1, FlushTipAnchors DEF IInv
  <1>5. dbRoot' = TipBestAnchor /\ TipBestAnchor' = TipBestAnchor /\ tipRoot' = tipRoot
    BY DEF FlushTip, DbWriteHash, TipBestAnchor, HashIn
  <1>6. /\ dbBlock' = TipBestBlock /\ TipBestBlock' = TipBestBlock /\ tipBlock' = TipBestBlock
        /\ TipBestBlock \in BlockHashes \cup {Null} /\ TipBestBlock # Null
    BY DEF FlushTip, TipBestBlock, HashIn, IInv, HashesOK
  <1>7. TipBestAnchor \in Roots
    BY BestTypes DEF IInv
  <1>8. IInv' /\ AStep
    BY <1>1, <1>2, <1>3, <1>4, <1>5, <1>6, <1>7, IdleStep DEF IInv, HashesOK
  <1>9. Stored' = Committed
    BY <1>2, <1>3, <1>4, <1>5, <1>6 DEF Stored, Committed
  <1> QED
    BY <1>8, <1>9

-----------------------------------------------------------------------------
(* The theorems.                                                            *)

LEMMA StepInv ==
    ASSUME IInv, [Next]_vars
    PROVE  IInv' /\ AStep
  <1>1. CASE ConnectGenesis
    BY <1>1, ConnectGenesisInv
  <1>2. CASE OpenConnect
    BY <1>2, OpenConnectInv
  <1>3. CASE OpenDisconnect
    BY <1>3, OpenDisconnectInv, SMT
  <1>4. CASE \E o \in Outpoints : ViewAccessCoin(o) \/ ViewSpendCoin(o) \/ Uncache(o)
    BY <1>4, ViewAccessCoinInv, ViewSpendCoinInv, UncacheInv
  <1>5. CASE \E o \in Outpoints, c \in Coins : AddOutput(o, c) \/ ApplyTxInUndo(o, c)
    BY <1>5, AddCoinInv
  <1>6. CASE \E n \in Nullifiers, r \in Roots : RefuseShielded(n, r) \/ SpendNote(n, r)
    BY <1>6, RefuseShieldedInv, SpendNoteInv
  <1>7. CASE \E n \in Nullifiers : UnspendNote(n)
    BY <1>7, UnspendNoteInv
  <1>8. CASE \E b \in BlockHashes \ {Genesis}, r \in Roots : FinishConnect(b, r)
    BY <1>8, FinishConnectInv
  <1>9. CASE \E b \in BlockHashes, r \in Roots : FinishDisconnect(b, r)
    BY <1>9, FinishDisconnectInv
  <1>10. CASE FlushView
    BY <1>10, FlushViewInv, SMT
  <1>11. CASE Abandon
    BY <1>11, AbandonInv, SMT
  <1>12. CASE TipRead
    BY <1>12, TipReadInv, SMT
  <1>13. CASE FlushTip
    BY <1>13, FlushTipInv
  <1>14. CASE UNCHANGED vars
    <2>1. /\ UNCHANGED <<dbCoins, tipCoins, viewCoins>> /\ UNCHANGED <<dbNfs, tipNfs, viewNfs>>
          /\ UNCHANGED <<dbAnchors, tipAnchors, viewAnchors>>
          /\ UNCHANGED <<dbRoot, dbBlock, tipRoot, tipBlock, viewRoot, viewBlock, session, logicError>>
      BY <1>14 DEF vars, dbVars, tipVars, viewVars
    <2>2. CoinsOK' /\ TipCoin' = TipCoin /\ ViewCoin' = ViewCoin
      BY <2>1, CoinsUnchanged DEF IInv
    <2>3. NfsOK' /\ TipNf' = TipNf /\ ViewNf' = ViewNf
      BY <2>1, NfsUnchanged DEF IInv
    <2>4. AnchorsOK' /\ TipAnchor' = TipAnchor /\ ViewAnchor' = ViewAnchor
      BY <2>1, AnchorsUnchanged DEF IInv
    <2>5. /\ TipBestAnchor' = TipBestAnchor /\ ViewBestAnchor' = ViewBestAnchor
          /\ TipBestBlock' = TipBestBlock /\ ViewBestBlock' = ViewBestBlock
      BY <2>1 DEF TipBestAnchor, ViewBestAnchor, TipBestBlock, ViewBestBlock, HashIn
    <2>6. HashesOK' /\ IdleView' /\ TreesOK'
      BY <2>1, <2>4, <2>5 DEF IInv, HashesOK, IdleView, TreesOK
    <2> QED
      BY <2>1, <2>2, <2>3, <2>4, <2>5, <2>6 DEF IInv, AStep, Committed, Working
  <1> QED
    BY <1>1, <1>2, <1>3, <1>4, <1>5, <1>6, <1>7, <1>8, <1>9, <1>10, <1>11, <1>12, <1>13, <1>14
       DEF Next

(* The invariant the other theorems rest on.                                *)
THEOREM Invariance == Spec => []IInv
  <1>1. Init => IInv
    BY InitInv
  <1>2. IInv /\ [Next]_vars => IInv'
    BY StepInv
  <1> QED
    BY <1>1, <1>2, PTL DEF Spec

(* Every cache holds entries of its kind and every hash is one of its kind. *)
THEOREM TypeCorrect == Spec => []TypeOK
  <1>1. IInv => TypeOK
    BY DEF IInv, CoinsOK, NfsOK, AnchorsOK, HashesOK, CoinBase, FlagCache, NfCache, AnchorCache, TypeOK
  <1> QED
    BY <1>1, Invariance, PTL

(* DIRTY and FRESH mean what coins.h says, at both levels of caching.       *)
THEOREM FlagsSoundness == Spec => []FlagsMeanWhatTheySay
  <1>1. IInv => FlagsMeanWhatTheySay
    BY DEF IInv, CoinsOK, NfsOK, AnchorsOK, FlagsMeanWhatTheySay
  <1> QED
    BY <1>1, Invariance, PTL

(* AddCoin and BatchWrite never throw, and the best tree is always found.   *)
THEOREM NoErrors == Spec => []NoLogicError
  <1>1. IInv => NoLogicError
    BY DEF IInv, HashesOK, NoLogicError
  <1> QED
    BY <1>1, Invariance, PTL

(* The anchors a view knows are the trees of the current chain.             *)
THEOREM Anchors == Spec => []AnchorsFollowTheChain
  <1>1. IInv => AnchorsFollowTheChain
    BY DEF IInv, TreesOK, AnchorsTo, AnchorsFollowTheChain
  <1> QED
    BY <1>1, Invariance, PTL

(* Only a flush of the tip changes the database, and it stores all the tip  *)
(* answers.                                                                 *)
THEOREM FlushComplete == Spec => FlushStoresTheTip
  <1>1. IInv /\ [Next]_vars => [dbVars' # dbVars => Stored' = Committed]_vars
    <2> SUFFICES ASSUME IInv, Next, dbVars' # dbVars
                 PROVE  Stored' = Committed
      OBVIOUS
    <2>1. FlushTip
      BY DEF Next, ConnectGenesis, OpenConnect, OpenDisconnect, ViewAccessCoin, ViewSpendCoin,
             Uncache, AddOutput, ApplyTxInUndo, RefuseShielded, SpendNote, ShieldedReads,
             UnspendNote, FinishConnect, FinishDisconnect, FlushView, Abandon, TipRead
    <2> QED
      BY <2>1, FlushTipInv
  <1> QED
    BY <1>1, Invariance, PTL DEF Spec, FlushStoresTheTip

(* The stack of caches implements the plain maps of UtxoSet.                *)
THEOREM Refinement == Spec => ImplementsUtxoSet
  <1>1. Init => Abs!AInit
    BY InitInv
  <1>2. IInv /\ [Next]_vars => [Abs!ANext]_Abs!avars
    BY StepInv DEF AStep, Abs!avars
  <1> QED
    BY <1>1, <1>2, Invariance, PTL DEF Spec, ImplementsUtxoSet, Abs!ASpec
=============================================================================
