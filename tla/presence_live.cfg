SPECIFICATION FairSpec
CONSTANTS
    Runs = {r1}
    Sweepers = {d1}
    Stops = {s1, s2}
    Pids = {p1}
    NoPid = NoPid
    Torn = Torn
    NoRun = NoRun
    PidReuse = FALSE
    Faults = {"spawn", "detach", "kill"}
PROPERTY StopReachesRun
PROPERTY OrphanDocumentGoes
