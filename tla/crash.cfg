CONSTANTS
    a = a
    b = b
    x = x
    NoIssue = none
    Issues = {a, b}
    External = {}
    Queues <- EitherOne
    Blockers <- NoBlockers
    SpecBlockers <- NoBlockers
    Children <- NoChildren
    InitLabels <- NoLabels
    Configs <- CrashConfigs
    MaxRuns = 2
    Faults = {"crash", "io"}
SPECIFICATION Spec
SYMMETRY Swap
INVARIANTS SessionReadsItsOwn
PROPERTIES OnlyRunBranchGrows
CHECK_DEADLOCK FALSE
