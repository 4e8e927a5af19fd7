CONSTANTS
  Capacity = 8
  TakeSize = 2
  Lens <- WholeFrames
  MaxBytes = 20
SPECIFICATION FairSpec
INVARIANTS
  TypeOK
  RegionsDisjoint
  ArrayBounds
  RefusedOnlyWhenFull
  NoFrameMissed
PROPERTIES
  ImplementsStream
  FramesAreTaken
CHECK_DEADLOCK FALSE
