SPECIFICATION FairSpec
CONSTANTS
    s1 = s1
    s2 = s2
    a1 = a1
    c1 = c1
    k1 = k1
    Main = Main
    Services <- MCServices
    Activators <- MCActivators
    Clients <- MCClients
    Stakers <- MCStakers
    Backlog = 1
    MaxCallbacks = 4
INVARIANTS
    TypeOK
    NoneLeftBehind
    WaitedForEarlier
    NoServiceLeft
    NoneMissed
PROPERTIES
    InOrderOneAtATime
    EveryCallbackRuns
    ShutdownEndsOrStuck
CHECK_DEADLOCK FALSE
