SPECIFICATION FairSpec
CONSTANTS
  Paths = {0, 1}
  Configs <- MCConfigs
PROPERTIES  EveryGoroutineEnds
CHECK_DEADLOCK FALSE
