CONSTANTS
  Capacity = 19
  INFO_SIZE = 3
  FrameSize = 4
  CACHE_MAX = 2
  MaxBytes = 84
SPECIFICATION Spec
PROPERTIES
  LostOnlyToHeader
CHECK_DEADLOCK FALSE
