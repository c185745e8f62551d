CONSTANTS
  MaxBytes = 3
  MaxResizes = 1
  RingCap = 2
  QueueCap = 1
  WireCap = 1
  Sizes = {s1, s2}
  FirstSize = s1
  MaxFailedReopens = 1
  WatchAfter = 1
  NoCount = NoCount
  NoReason = NoReason
SPECIFICATION FairSpec
INVARIANTS CountMatchesTerminal OutputBeforeEnd ResumeAtOneSize
PROPERTIES CatchesUp EndReleases
CHECK_DEADLOCK FALSE
