SPECIFICATION Spec
CONSTANTS
  Paths = {0, 1, 2}
  Configs <- MCConfigs
  RTTs = {1, 3}
  Window = 1
  MaxNonRetransmittable = 1
INVARIANTS DataAccounted WindowUpdateAccounted 
 
CHECK_DEADLOCK FALSE
