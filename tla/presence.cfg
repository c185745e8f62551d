SPECIFICATION Spec
CONSTANTS
    Runs = {r1, r2}
    Sweepers = {}
    Stops = {s1}
    Pids = {p1, p2}
    NoPid = NoPid
    Torn = Torn
    NoRun = NoRun
    PidReuse = TRUE
    Faults = {"disk", "read", "spawn", "kill", "kill_reader"}
SYMMETRY Symmetry
INVARIANT TypeOK
INVARIANT LiveDocumentStays
INVARIANT StopIsUnambiguous
INVARIANT LoneRunHoldsLock
INVARIANT EndedRunLeftThePanel
CHECK_DEADLOCK FALSE
