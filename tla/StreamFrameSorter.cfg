CONSTANTS
  Length = 7
  StreamLength = 7
  MaxByteCount = 100
  MaxStreamFrameSorterGaps = 3
  Frames <- AnyFrames
SPECIFICATION Spec
INVARIANTS
  GapsExact
  HeadAvailable
CHECK_DEADLOCK FALSE
