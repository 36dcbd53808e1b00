----------------------- MODULE ReceivedPacketHandler -----------------------
(***************************************************************************)
(* ackhandler/received_packet_handler.go with its packet history, as it is *)
(* driven by path.handlePacketImpl and the STOP_WAITING case of            *)
(* session.handleFramesNew: which packet numbers of a path are reported in *)
(* ACK frames, and when an ACK frame is due.                               *)
(*                                                                         *)
(* The network may deliver the peer's packets in any order, more than once *)
(* or never.  Time is abstract: ackAlarm says whether the alarm is set,    *)
(* and an alarm that is set may have expired whenever it is looked at.     *)
(***************************************************************************)
EXTENDS ReceivedPacketHistory

CONSTANTS
  MaxPacketNumber,                 \* bound: numbers 1 .. MaxPacketNumber are explored
  MaxReceivedBetweenAcks,          \* bound: packets handled between two ACK frames
  VersionBefore39,                 \* whether the negotiated version is below 39
  MaxPacketsReceivedBeforeAckSend, \* protocol.MaxPacketsReceivedBeforeAckSend
  RetransmittablePacketsBeforeAck  \* protocol.RetransmittablePacketsBeforeAck

ASSUME HandlerAssumption ==
  /\ MaxPacketNumber \in Nat
  /\ MaxReceivedBetweenAcks \in Nat
  /\ VersionBefore39 \in BOOLEAN
  /\ MaxPacketsReceivedBeforeAckSend \in Nat
  /\ RetransmittablePacketsBeforeAck \in Nat \ {0}

VARIABLES
  ranges,            \* packetHistory.ranges
  largestObserved,   \* 0 until a packet is received
  lowerLimit,
  packetsReceivedSinceLastAck,
  retransmittablePacketsReceivedSinceLastAck,
  ackQueued,
  ackAlarm,          \* whether ackAlarm is not the zero time
  lastAck,           \* LargestAcked of the last ACK frame, 0 for a nil lastAck
  failed,            \* an error was returned: the session closes
  received,          \* history variable: the numbers of all packets handled
  highestLimit       \* history variable: the highest lower limit ever set

vars == <<ranges, largestObserved, lowerLimit, packetsReceivedSinceLastAck,
          retransmittablePacketsReceivedSinceLastAck, ackQueued, ackAlarm,
          lastAck, failed, received, highestLimit>>

PacketNumbers == 1 .. MaxPacketNumber

Init ==
  /\ ranges = <<>>
  /\ largestObserved = 0
  /\ lowerLimit = 0
  /\ packetsReceivedSinceLastAck = 0
  /\ retransmittablePacketsReceivedSinceLastAck = 0
  /\ ackQueued = FALSE
  /\ ackAlarm = FALSE
  /\ lastAck = 0
  /\ failed = FALSE
  /\ received = {}
  /\ highestLimit = 0

-----------------------------------------------------------------------------
(* maybeQueueAck, called with the ranges that already contain p *)

QueuesAck(p, instigates, rs) ==
  \/ ackQueued
  \/ lastAck = 0
  \/ /\ VersionBefore39
     /\ packetsReceivedSinceLastAck + 1 >= MaxPacketsReceivedBeforeAckSend
  \/ p < lastAck
  \/ GetHighestAckRange(rs).Start > lastAck
  \/ /\ instigates
     /\ retransmittablePacketsReceivedSinceLastAck + 1
          >= RetransmittablePacketsBeforeAck

\* Mutant: a packet that does not instigate an ACK clears the alarm.
maybeQueueAck_DropsAlarm(p, instigates, rs) ==
  /\ packetsReceivedSinceLastAck' = packetsReceivedSinceLastAck + 1
  /\ retransmittablePacketsReceivedSinceLastAck' =
       retransmittablePacketsReceivedSinceLastAck + (IF instigates THEN 1 ELSE 0)
  /\ ackQueued' = QueuesAck(p, instigates, rs)
  /\ ackAlarm' = (~ ackQueued' /\ instigates)

maybeQueueAck(p, instigates, rs) ==
  /\ packetsReceivedSinceLastAck' = packetsReceivedSinceLastAck + 1
  /\ retransmittablePacketsReceivedSinceLastAck' =
       retransmittablePacketsReceivedSinceLastAck + (IF instigates THEN 1 ELSE 0)
  /\ ackQueued' = QueuesAck(p, instigates, rs)
  /\ ackAlarm' = (~ ackQueued' /\ (ackAlarm \/ instigates))

-----------------------------------------------------------------------------
(* A packet that carries a STOP_WAITING frame has leastUnacked # 0: its    *)
(* sender never puts a LeastUnacked above the packet's own number into it  *)
(* (StopWaitingFrame.Write refuses to).  SetLowerLimit runs after          *)
(* ReceivedPacket.                                                         *)

\* Mutant: LeastUnacked itself is deleted, too.
SetLowerLimit_OffByOne(leastUnacked, rs) ==
  IF leastUnacked = 0
  THEN /\ ranges' = rs
       /\ UNCHANGED <<lowerLimit, highestLimit>>
  ELSE /\ ranges' = DeleteUpTo(rs, leastUnacked)
       /\ lowerLimit' = leastUnacked
       /\ highestLimit' = Max({highestLimit, leastUnacked})

SetLowerLimit(leastUnacked, rs) ==
  IF leastUnacked = 0
  THEN /\ ranges' = rs
       /\ UNCHANGED <<lowerLimit, highestLimit>>
  ELSE /\ ranges' = DeleteUpTo(rs, leastUnacked - 1)
       /\ lowerLimit' = leastUnacked - 1
       /\ highestLimit' = Max({highestLimit, leastUnacked - 1})

Observe(p) ==
  /\ largestObserved' = Max({largestObserved, p})
  /\ received' = received \cup {p}

\* ReceivedPacket registers the packet, then its frames are handled.
HandlePacket(p, instigates, leastUnacked) ==
  /\ p > lowerLimit
  /\ ~ RangesFull(ranges)
  /\ Observe(p)
  /\ LET rs == ReceivedPacketRanges(ranges, p) IN
       /\ maybeQueueAck(p, instigates, rs)
       /\ SetLowerLimit(leastUnacked, rs)
  /\ UNCHANGED <<lastAck, failed>>

\* ReceivedPacket returns early for a packet at or below the lower limit; the
\* frames of the packet are handled all the same.
HandleOldPacket(p, leastUnacked) ==
  /\ p <= lowerLimit
  /\ Observe(p)
  /\ SetLowerLimit(leastUnacked, ranges)
  /\ UNCHANGED <<packetsReceivedSinceLastAck, ackQueued, ackAlarm, lastAck,
                 retransmittablePacketsReceivedSinceLastAck, failed>>

\* errTooManyOutstandingReceivedAckRanges
HandlePacketRangesFull(p) ==
  /\ p > lowerLimit
  /\ RangesFull(ranges)
  /\ Observe(p)
  /\ failed' = TRUE
  /\ UNCHANGED <<ranges, lowerLimit, packetsReceivedSinceLastAck, ackQueued,
                 ackAlarm, lastAck, highestLimit,
                 retransmittablePacketsReceivedSinceLastAck>>

\* errInvalidPacketNumber
HandlePacketZero ==
  /\ failed' = TRUE
  /\ UNCHANGED <<ranges, largestObserved, lowerLimit, ackQueued, ackAlarm,
                 packetsReceivedSinceLastAck, lastAck, received, highestLimit,
                 retransmittablePacketsReceivedSinceLastAck>>

-----------------------------------------------------------------------------
(* GetAckFrame *)

\* Mutant: the ranges are left out of the frame.
AckFrame_NoRanges ==
  [LargestAcked |-> largestObserved,
   LowestAcked  |-> Last(GetAckRanges(ranges)).Start,
   AckRanges    |-> <<>>]

\* The frame GetAckFrame builds; it indexes the last element of the ranges.
AckFrame ==
  LET ackRanges == GetAckRanges(ranges) IN
  [LargestAcked |-> largestObserved,
   LowestAcked  |-> Last(ackRanges).Start,
   AckRanges    |-> IF Len(ackRanges) > 1 THEN ackRanges ELSE <<>>]

\* ackQueued, or the alarm is set and may have expired.
AckDue == ackQueued \/ ackAlarm

GetAckFrame ==
  /\ AckDue
  /\ ranges # <<>>
  /\ lastAck' = largestObserved
  /\ ackAlarm' = FALSE
  /\ ackQueued' = FALSE
  /\ packetsReceivedSinceLastAck' = 0
  /\ retransmittablePacketsReceivedSinceLastAck' = 0
  /\ UNCHANGED <<ranges, largestObserved, lowerLimit, failed, received,
                 highestLimit>>

-----------------------------------------------------------------------------
Receive(p) ==
  \/ \E instigates \in BOOLEAN, leastUnacked \in 0 .. p :
        HandlePacket(p, instigates, leastUnacked)
  \/ \E leastUnacked \in 0 .. p : HandleOldPacket(p, leastUnacked)
  \/ HandlePacketRangesFull(p)

Next ==
  /\ ~ failed
  /\ \/ /\ packetsReceivedSinceLastAck < MaxReceivedBetweenAcks
        /\ \E p \in PacketNumbers : Receive(p)
     \/ HandlePacketZero
     \/ GetAckFrame

Spec == Init /\ [][Next]_vars

-----------------------------------------------------------------------------
(* Properties *)

\* The variables have the types of the Go fields; the list holds intervals of
\* positive packet numbers and never more than the limit of tracked ranges.
TypeOK ==
  /\ ranges \in Seq(PacketInterval)
  /\ Len(ranges) <= MaxTrackedReceivedAckRanges
  /\ largestObserved \in Nat
  /\ lowerLimit \in Nat
  /\ packetsReceivedSinceLastAck \in Nat
  /\ retransmittablePacketsReceivedSinceLastAck \in Nat
  /\ ackQueued \in BOOLEAN
  /\ ackAlarm \in BOOLEAN
  /\ lastAck \in Nat
  /\ failed \in BOOLEAN
  /\ received \subseteq Nat \ {0}
  /\ highestLimit \in Nat

\* However packets arrive, are duplicated, and are cut off by STOP_WAITING, the
\* interval list stays sorted with a gap between any two neighbours, as every
\* walk of receivedPacketHistory over the list relies on.
RangesWellFormed == WellFormed(ranges)

\* The list holds no packet that was not received, and every received packet
\* above all lower limits ever set: extending, merging, inserting and deleting
\* intervals neither invents nor loses a packet number.
RangesExact ==
  /\ Covered(ranges) \subseteq received
  /\ ~ failed => {p \in received : p > highestLimit} \subseteq Covered(ranges)

\* Whenever GetAckFrame decides to build a frame there is a range to put into
\* it, so indexing the last range (received_packet_handler.go:133) is safe, and
\* the top range ends at LargestAcked, as AckFrame.validateAckRanges demands.
AckFrameBuildable ==
  AckDue /\ ~ failed =>
    /\ ranges # <<>>
    /\ Last(ranges).End = largestObserved

\* The packet numbers an ACK frame acknowledges (AckFrame.AcksPacket).
AckedBy(frame) ==
  IF frame.AckRanges = <<>>
  THEN frame.LowestAcked .. frame.LargestAcked
  ELSE {p \in frame.LowestAcked .. frame.LargestAcked :
          \E r \in Range(frame.AckRanges) : Includes(r, p)}

\* A frame built by GetAckFrame acknowledges exactly the packets the history
\* holds: collapsing a single range to LowestAcked and LargestAcked is lossless.
AckFrameExact ==
  AckDue /\ ~ failed => AckedBy(AckFrame) = Covered(ranges)

\* Once a retransmittable packet was registered an ACK is queued or its alarm is
\* set until an ACK frame is built: no later packet cancels the obligation.
RetransmittableIsAcked ==
  retransmittablePacketsReceivedSinceLastAck > 0 => AckDue
=============================================================================
