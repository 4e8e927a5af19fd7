CONSTANTS
  WarmUp = 0
  UnderrunAfter = 1
  Rollover = 2
  Rollback = 1
  PlayCap = 1
  HwCap = 1
  MaxDue = 1
  MaxCount = 2
  MaxLag = 0
  MaxStarts = 1
SPECIFICATION FairSpec
PROPERTIES
  StopReturns
  PlaybackGoesOn
  WarmUpEnds
  UnderrunIsCleared
