CONSTANTS
  MaxPacketNumber = 3
  MaxAckPackets = 2
  PacketLengths <- UnitLength
  MaxDuplicates = 0
  MaxTrackedSentPackets = 3
  MaxTrackedSkippedPackets = 1
  MaxTrackedReceivedAckRanges = 4
  MaxReceivedBetweenAcks = 3
  VersionBefore39 = FALSE
  MaxPacketsReceivedBeforeAckSend = 20
  RetransmittablePacketsBeforeAck = 2
SPECIFICATION Spec
INVARIANTS
  AckedWasReceived
  AcksAreLegitimate
  NothingForgotten
 
CHECK_DEADLOCK FALSE
