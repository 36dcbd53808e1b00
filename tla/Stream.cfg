CONSTANTS
  Uses = {"read", "write"}
  FinFrame = 2
  MaxRead = 2
  MaxWrite = 2
  MaxSent = 3
  MaxFrame = 2
  MaxTime = 2
  RemoteResets = TRUE
SPECIFICATION FairSpec
INVARIANTS
  CallersWake
  WrittenIsSent
PROPERTIES
  NothingAfterTheEnd
  WriteEnds
CHECK_DEADLOCK FALSE
