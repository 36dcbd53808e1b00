CONSTANTS
  MaxTrackedReceivedAckRanges = 3
  MaxPacketNumber = 7
  MaxReceivedBetweenAcks = 3
  VersionBefore39 = TRUE
  MaxPacketsReceivedBeforeAckSend = 3
  RetransmittablePacketsBeforeAck = 2
SPECIFICATION Spec
INVARIANTS
  RangesExact
  AckFrameBuildable
  AckFrameExact
  RetransmittableIsAcked
CHECK_DEADLOCK FALSE
