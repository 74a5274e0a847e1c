------------------------------ MODULE UtxoSet ------------------------------
(***************************************************************************)
(* What the stack of coin views promises to its callers (CCoinsView,       *)
(* coins.h): a map of unspent coins, the set of spent nullifiers, the set  *)
(* of Sapling anchors, the best anchor and the best block.  A block is     *)
(* applied to a working copy that is either committed as a whole or        *)
(* dropped as a whole.  There are no caches, no flags and no disk here.    *)
(***************************************************************************)
EXTENDS Naturals

CONSTANTS
    Outpoints,    \* COutPoint
    Coins,        \* values of an unspent Coin
    Unspendable,  \* the coins AddCoin ignores (OP_RETURN, zerocoin mints)
    Nullifiers,   \* Sapling nullifiers
    MaxRoot,      \* largest Sapling tree; a root is named by its tree size
    BlockHashes,  \* block hashes
    Genesis,      \* hash of the genesis block
    Spent,        \* Coin::IsSpent()
    Null          \* uint256::IsNull()

VARIABLES
    committed,    \* the state other parts of the node see
    working,      \* the state of the block being applied
    session       \* what is being done to the working copy

avars == <<committed, working, session>>

Roots == 0 .. MaxRoot

EmptyRoot == 0

EmptyState ==
    [coins   |-> [o \in Outpoints |-> Spent],
     nfs     |-> [n \in Nullifiers |-> FALSE],
     anchors |-> [r \in Roots |-> r = EmptyRoot],
     root    |-> EmptyRoot,
     best    |-> Null]

AInit ==
    /\ committed = EmptyState
    /\ working = EmptyState
    /\ session = "idle"

(* The genesis block only sets the best block.                             *)
AConnectGenesis ==
    /\ session = "idle"
    /\ committed.best = Null
    /\ working' = [committed EXCEPT !.best = Genesis]
    /\ session' = "done"
    /\ UNCHANGED committed

ABegin(kind) ==
    /\ session = "idle"
    /\ committed.best # Null
    /\ kind = "disconnect" => committed.best # Genesis
    /\ session' = kind
    /\ UNCHANGED <<committed, working>>

ASetCoin(o, c) ==
    /\ session \in {"connect", "disconnect"}
    /\ working' = [working EXCEPT !.coins[o] = c]
    /\ UNCHANGED <<committed, session>>

ASetNullifier(n, spent) ==
    /\ session = IF spent THEN "connect" ELSE "disconnect"
    /\ spent => ~working.nfs[n]
    /\ working' = [working EXCEPT !.nfs[n] = spent]
    /\ UNCHANGED <<committed, session>>

(* A connected block moves the tree forward, or leaves it alone.           *)
AFinishConnect(b, r) ==
    /\ session = "connect"
    /\ r >= working.root
    /\ working' =
         [coins   |-> working.coins,
          nfs     |-> working.nfs,
          anchors |-> [working.anchors EXCEPT ![r] = TRUE],
          root    |-> r,
          best    |-> b]
    /\ session' = "done"
    /\ UNCHANGED committed

(* A disconnected block forgets the tree it had produced.                  *)
AFinishDisconnect(b, r) ==
    /\ session = "disconnect"
    /\ working.anchors[r] /\ r <= working.root
    /\ \A q \in Roots : working.anchors[q] /\ q < working.root => q <= r
    /\ working' =
         [coins   |-> working.coins,
          nfs     |-> working.nfs,
          anchors |-> [q \in Roots |-> working.anchors[q] /\ (q = working.root => q = r)],
          root    |-> r,
          best    |-> b]
    /\ session' = "done"
    /\ UNCHANGED committed

ACommit ==
    /\ session = "done"
    /\ committed' = working
    /\ session' = "idle"
    /\ UNCHANGED working

AAbandon ==
    /\ session # "idle"
    /\ working' = committed
    /\ session' = "idle"
    /\ UNCHANGED committed

ANext ==
    \/ AConnectGenesis
    \/ \E kind \in {"connect", "disconnect"} : ABegin(kind)
    \/ \E o \in Outpoints, c \in Coins \cup {Spent} : ASetCoin(o, c)
    \/ \E n \in Nullifiers, s \in BOOLEAN : ASetNullifier(n, s)
    \/ \E b \in BlockHashes, r \in Roots : AFinishConnect(b, r)
    \/ \E b \in BlockHashes, r \in Roots : AFinishDisconnect(b, r)
    \/ ACommit
    \/ AAbandon

ASpec == AInit /\ [][ANext]_avars
=============================================================================
