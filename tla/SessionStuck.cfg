SPECIFICATION Spec
CONSTANTS
  Paths = {0, 1}
  Configs <- MCCreates
INVARIANT NeverStuck
CHECK_DEADLOCK FALSE
