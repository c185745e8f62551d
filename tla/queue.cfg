CONSTANTS
    a = a
    b = b
    x = x
    NoIssue = none
    Issues = {a, b}
    External = {x}
    Queues <- OneRun
    Blockers <- Chain
    SpecBlockers <- SpecChain
    Children <- NoChildren
    InitLabels <- HumanGate
    Configs <- QueueConfigs
    MaxRuns = 1
    Faults = {}
SPECIFICATION FairSpec
INVARIANTS ClosedWasVouched ReportFollowsQueue WorkedIssuesUnblocked
PROPERTIES StopKeepsWork StopEndsRun
CHECK_DEADLOCK FALSE
