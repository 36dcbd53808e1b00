CONSTANTS
  Length = 3
  StreamLength = 3
  MaxByteCount = 100
  MaxStreamFrameSorterGaps = 3
  Frames <- SplitFrames
SPECIFICATION Spec
CHECK_DEADLOCK FALSE
INVARIANT EOFAtTheEnd
