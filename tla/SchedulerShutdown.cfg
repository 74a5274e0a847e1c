SPECIFICATION FairSpec
CONSTANTS
    s1 = s1
    s2 = s2
    a1 = a1
    c1 = c1
    k1 = k1
    Main = Main
    Services = {s1}
    Activators = {a1}
    Clients = {k1}
    Stakers = {k1}
    Backlog = 10
    MaxCallbacks = 4
PROPERTY
    ShutdownEnds
CHECK_DEADLOCK FALSE
