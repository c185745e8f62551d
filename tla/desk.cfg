SPECIFICATION FairSpec
CONSTANTS
    w = w
    left = left
    right = right
    s1 = s1
    tree = tree
    MaxTabs = 2
    OpenAtStart = 1
    Records = {w}
    FirstLayout <- MCFirst
    KindOf <- MCKindOf
    MaxOf <- MCMaxOf
    Slack = 1
    Places = {left, right}
    Sessions = {s1}
    Trees = {tree}
    ActsOf <- MCActsOf
    MaxActs = 2
    MaxUpsets = 1
    MaxReads = 2
    MaxGen = 1
    TabCap = 2
    HistoryMax = 5
    Absent = Absent
    NoTree = NoTree
    NoSession = NoSession
    Keep = Keep
    None = None
INVARIANTS TypeOK AppliedOnce AckedIsApplied SameRevSameDesk RestoreUndoable
PROPERTIES NoWriteAcrossRestore Converges
CHECK_DEADLOCK FALSE
