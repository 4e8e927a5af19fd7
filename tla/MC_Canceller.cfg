CONSTANTS
  MaxInits = 3
  Rates = {1, 2}
  Sizes = {3}
SPECIFICATION Spec
INVARIANTS
  TypeOK
  Complete
  Paired
  WithinFrame
  OnlyTailIsStale
  NothingLeaks
CHECK_DEADLOCK FALSE
