SPECIFICATION FairSpec
CONSTANTS
    a = a
    b = b
    w = w
    Daemons = {a, b}
    Rank <- MCRank
    PeersOf <- MCPeersOf
    Records = {w}
    Home <- MCHome
    Pages = {a}
    FirstBots = {b}
    MaxSessions = 2
    MaxStops = 2
    MaxFaults = 1
    Faults = {"peer", "store", "desk", "ids", "send", "bot", "claim", "restart"}
INVARIANTS OneMessageEach NothingOpensHidden
PROPERTIES EveryRequestIsTold MarkedTurnOpens
CHECK_DEADLOCK FALSE
