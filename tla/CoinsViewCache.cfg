CONSTANTS
    o1 = o1
    n1 = n1
    c1 = c1
    c2 = c2
    c3 = c3
    g = g
    b1 = b1
    Outpoints = {o1}
    Coins = {c1, c2, c3}
    Unspendable = {c2}
    Nullifiers = {n1}
    MaxRoot = 1
    BlockHashes = {g, b1}
    Genesis = g
    Spent = Spent
    Null = Null
    NoEntry = NoEntry
SPECIFICATION Spec
INVARIANT TypeOK
INVARIANT FlagsMeanWhatTheySay
INVARIANT NoLogicError
INVARIANT AnchorsFollowTheChain
PROPERTY ImplementsUtxoSet
PROPERTY FlushStoresTheTip
