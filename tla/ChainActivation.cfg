SPECIFICATION FairSpec
CONSTANTS
    g = g
    a1 = a1
    a2 = a2
    b1 = b1
    c2 = c2
    Null = Null
    Genesis = g
    Blocks = {g, a1, a2, b1, c2}
    Parent <- MCParent
    Ancestors <- MCAncestors
    Work <- MCWork
    Malformed = {c2}
    Invalid = {b1}
    MaxThreads = 2
    MaxCalls = 2
    MaxRestarts = 1
    InvalidateMidway = FALSE
    ReconsiderBelow = FALSE
INVARIANTS
    TypeOK
    CandidatesLeft
    CandidatesAreTheGoodBlocks
    UnlinkedBlocksWait
    ActiveChainIsValid
    BestChainIsActive
PROPERTIES
    MarksKeepTheirCause
    ForwardProgress
    ActivationEnds
    ValidBlocksAreActivated
CHECK_DEADLOCK FALSE
