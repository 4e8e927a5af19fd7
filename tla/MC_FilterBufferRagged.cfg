CONSTANTS
  Capacity = 5
  TakeSize = 2
  Lens <- AnyLength
  MaxBytes = 12
SPECIFICATION Spec
INVARIANTS
  ArrayBounds
PROPERTIES
  PhantomOnlyAtRaggedSeam
CHECK_DEADLOCK FALSE
