CONSTANTS
  late = late
  newer = newer
  other = other
  Sockets = {late, newer, other}
  Records = {r}
  HolderOf <- MCHolderOf
  AttemptOf <- MCAttemptOf
  MaxSessions = 3
  MaxRestarts = 1
  Recorded = {TRUE}
  None = None
SPECIFICATION FairSpec
INVARIANTS TypeOK SlotIsTheWriter NobodyOrphaned LateSocketLoses
           OneSessionPerRecord ReattachReachesItsSession
PROPERTY EverySocketSettles
CHECK_DEADLOCK FALSE
