SPECIFICATION Spec
CONSTANTS
    g = g
    a1 = a1
    a2 = a2
    b1 = b1
    c2 = c2
    Null = Null
    Genesis = g
    Blocks = {g, a1, a2, b1, c2}
    Parent <- MCParent
    Ancestors <- MCAncestors
    Work <- MCWork
    Malformed = {}
    Invalid = {}
    MaxThreads = 2
    MaxCalls = 1
    MaxRestarts = 0
    InvalidateMidway = TRUE
    ReconsiderBelow = FALSE
INVARIANT
    CandidatesLeft
CHECK_DEADLOCK FALSE
