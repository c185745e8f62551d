CONSTANTS
    a = a
    b = b
    x = x
    NoIssue = none
    Issues = {a, b}
    External = {}
    Queues <- Single
    Blockers <- NoBlockers
    SpecBlockers <- NoBlockers
    Children <- NoChildren
    InitLabels <- NoLabels
    Configs <- NewOnly
    MaxRuns = 2
    Faults = {"crash"}
SPECIFICATION Spec
INVARIANT ClosedWorkIsOnBranch
CHECK_DEADLOCK FALSE
