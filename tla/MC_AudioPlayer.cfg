CONSTANTS
  MaxInits = 3
  ClearFrames = 4
SPECIFICATION FairSpec
INVARIANTS
  TypeOK
  NeverFreedUnderUse
  NeverRebuiltUnderUse
  ReplacedAreDone
PROPERTIES
  CallsReturn
CHECK_DEADLOCK FALSE
