SPECIFICATION FairSpec
CONSTANTS
    a = a
    b = b
    w = w
    Daemons = {a, b}
    Rank <- MCRank
    PeersOf <- MCPeersOf
    Records = {w}
    Home <- MCHome
    Pages = {a}
    FirstBots = {b}
    MaxSessions = 1
    MaxStops = 2
    MaxFaults = 0
    Faults = {}
PROPERTY EveryWaitIsTold
CHECK_DEADLOCK FALSE
