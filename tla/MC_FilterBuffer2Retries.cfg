CONSTANTS
  Capacity = 11
  INFO_SIZE = 1
  FrameSize = 2
  CACHE_MAX = 2
  MaxBytes = 39
SPECIFICATION FairSpec
PROPERTIES
  RetriesEnd
CHECK_DEADLOCK FALSE
