CONSTANTS
  WarmUp = 1
  UnderrunAfter = 1
  Rollover = 2
  Rollback = 1
  PlayCap = 2
  HwCap = 2
  MaxDue = 1
  MaxCount = 3
  MaxLag = 0
  MaxStarts = 2
SPECIFICATION Spec
INVARIANTS
  TypeOK
  StoppedIsQuiet
  NoLostWakeup
  ClearedTogether
  StopNeverStuck
PROPERTIES
  StopGoesForward
