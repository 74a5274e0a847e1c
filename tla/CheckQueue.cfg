SPECIFICATION FairSpec
CONSTANTS
    w1 = w1
    w2 = w2
    m = m
    Workers <- MCWorkers
    Master = m
    NumChecks = 4
    Blocks <- MCBlocks
    BatchSize = 2
INVARIANTS
    TypeOK
    IdleBetweenBlocks
    TodoIsWhatIsLeft
PROPERTY AnswersForTheBlock
CHECK_DEADLOCK FALSE
