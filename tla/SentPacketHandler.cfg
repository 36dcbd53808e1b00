CONSTANTS
  MaxPacketNumber = 3
  MaxAckPackets = 3
  PacketLengths <- LengthOfNumber
  MaxDuplicates = 1
  MaxTrackedSentPackets = 3
  MaxTrackedSkippedPackets = 1
SPECIFICATION FairSpec
INVARIANTS
  BytesInFlightExact
  PacketsAccounted
  AlarmWhileOutstanding
  StopWaitingWritable
PROPERTY EventuallySettled
CHECK_DEADLOCK FALSE
