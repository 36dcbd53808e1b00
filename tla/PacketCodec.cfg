CONSTANTS
  B = 8
  MaxPacketSize = 60
  NonceLen = 9
  Overhead = 3
  SizeReduction = 12
  MaxQueued = 3
  Configs <- MCConfigs
SPECIFICATION Spec
INVARIANTS   NumbersInferred
CHECK_DEADLOCK FALSE
