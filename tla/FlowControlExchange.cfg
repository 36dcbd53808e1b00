CONSTANTS
  StreamIDs = {5, 7}
  NotContributing = {}
  ReceiveStreamWindow = 2
  MaxReceiveStreamWindow = 3
  ReceiveConnectionWindow = 3
  MaxReceiveConnectionWindow = 4
  InitialStreamWindow = 1
  InitialConnectionWindow = 2
  StreamLength <- Lengths
  MaxFrameLength = 2
  Resettable = {5}
SPECIFICATION FairSpec
INVARIANTS
  NoFalseViolation
  ReceiveWindowsSound
  CreditComesBack
PROPERTIES
  EverythingIsRead
  WindowsNeverShrink
CHECK_DEADLOCK FALSE
