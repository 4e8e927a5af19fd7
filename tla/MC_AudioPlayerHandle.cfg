CONSTANTS
  MaxInits = 1
  ClearFrames = 4
SPECIFICATION Spec
INVARIANTS
  HandleMeansReady
CHECK_DEADLOCK FALSE
