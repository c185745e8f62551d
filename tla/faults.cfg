CONSTANTS
    a = a
    b = b
    x = x
    NoIssue = none
    Issues = {a, b}
    External = {x}
    Queues <- OneRun
    Blockers <- Chain
    SpecBlockers <- SpecChain
    Children <- Split
    InitLabels <- StopBefore
    Configs <- FaultConfigs
    MaxRuns = 1
    Faults = {"tracker", "git", "io", "agent", "crash"}
SPECIFICATION Spec
INVARIANTS TypeOK CommitsReachable
PROPERTIES KeepsContract
CHECK_DEADLOCK FALSE
