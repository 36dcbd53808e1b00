--------------------------- MODULE PathTransport ---------------------------
(***************************************************************************)
(* One direction of one path: the sentPacketHandler of an endpoint that    *)
(* sends data, the receivedPacketHandler of its peer, and the network      *)
(* between them, which loses, duplicates and reorders packets both ways.   *)
(* The peer's packets carry ACK frames only.                               *)
(*                                                                         *)
(* The sending endpoint takes data items (the retransmittable frames of    *)
(* one packet).  A dequeued packet hands its item back to the scheduler,   *)
(* which puts it into a later packet (scheduler.getRetransmission,         *)
(* streamFramer.AddFrameForRetransmission).                                *)
(***************************************************************************)
EXTENDS Naturals, Sequences, FiniteSets

CONSTANTS
  MaxPacketNumber, MaxAckPackets, PacketLengths, MaxDuplicates,
  MaxTrackedSentPackets, MaxTrackedSkippedPackets,
  MaxTrackedReceivedAckRanges, MaxReceivedBetweenAcks, VersionBefore39,
  MaxPacketsReceivedBeforeAckSend, RetransmittablePacketsBeforeAck

VARIABLES
  lastSentPacketNumber, skippedPackets, numNonRetransmittablePackets,
  LargestAcked, largestReceivedPacketWithAck, packetHistory,
  retransmissionQueue, bytesInFlight, rtoCount, tlpCount, lossTime, alarm,
  nextLeastUnacked, largestLeastUnackedSent, err, phase, length, acked,
  retransmitted

VARIABLES
  ranges, largestObserved, lowerLimit, packetsReceivedSinceLastAck,
  retransmittablePacketsReceivedSinceLastAck, ackQueued, ackAlarm, lastAck,
  failed, received, highestLimit

VARIABLES
  sent,        \* the numbers of all packets sent: any of them may arrive
  item,        \* the data item in each packet sent, 0 for none
  leastUnacked,\* LeastUnacked of the STOP_WAITING frame in each packet, 0 for none
  toResend,    \* items handed back for retransmission and not sent again yet
  stopWaitingQueued, \* packetPacker.stopWaiting of the path, 0 for none
  acks         \* the peer's packets: packet w carries the ACK frame acks[w]

S == INSTANCE SentPacketHandler
R == INSTANCE ReceivedPacketHandler

sndVars ==
  <<lastSentPacketNumber, skippedPackets, numNonRetransmittablePackets,
    LargestAcked, largestReceivedPacketWithAck, packetHistory,
    retransmissionQueue, bytesInFlight, rtoCount, tlpCount, lossTime, alarm,
    nextLeastUnacked, largestLeastUnackedSent, err, phase, length, acked,
    retransmitted>>
rcvVars ==
  <<ranges, largestObserved, lowerLimit, packetsReceivedSinceLastAck,
    retransmittablePacketsReceivedSinceLastAck, ackQueued, ackAlarm, lastAck,
    failed, received, highestLimit>>
vars == <<sndVars, rcvVars, sent, item, leastUnacked, toResend,
          stopWaitingQueued, acks>>

PacketNumbers == 1 .. MaxPacketNumber

Init ==
  /\ S!Init
  /\ R!Init
  /\ sent = {}
  /\ item = [p \in PacketNumbers |-> 0]
  /\ leastUnacked = [p \in PacketNumbers |-> 0]
  /\ toResend = {}
  /\ stopWaitingQueued = 0
  /\ acks = <<>>

-----------------------------------------------------------------------------
(* The sending endpoint *)

\* A packet takes along the STOP_WAITING frame that waits in the packer.
Transmit(p, len, d) ==
  /\ S!SentPacket(p, len)
  /\ sent' = sent \cup {p}
  /\ item' = [item EXCEPT ![p] = d]
  /\ leastUnacked' = [leastUnacked EXCEPT ![p] = stopWaitingQueued]
  /\ stopWaitingQueued' = 0
  /\ UNCHANGED <<rcvVars, acks>>

\* New data: the item is named after the first packet that carries it.
SendData ==
  \E p \in S!NextNumbers : \E len \in PacketLengths[p] :
    /\ Transmit(p, len, p)
    /\ UNCHANGED toResend

SendRetransmission ==
  \E p \in S!NextNumbers, d \in toResend : \E len \in PacketLengths[p] :
    /\ Transmit(p, len, d)
    /\ toResend' = toResend \ {d}

\* A packet of ACK and STOP_WAITING frames only
SendNonRetransmittable ==
  \E p \in S!NextNumbers :
    /\ Transmit(p, 0, 0)
    /\ UNCHANGED toResend

\* Mutant: the frames of a dequeued packet are not handed to the scheduler.
DequeueForRetransmission_Drops ==
  /\ S!DequeuePacketForRetransmission
  /\ UNCHANGED <<rcvVars, sent, item, leastUnacked, toResend, stopWaitingQueued,
                 acks>>

DequeueForRetransmission ==
  /\ S!DequeuePacketForRetransmission
  /\ toResend' = toResend \cup {item[Head(retransmissionQueue).num]}
  /\ UNCHANGED <<rcvVars, sent, item, leastUnacked, stopWaitingQueued, acks>>

\* scheduler: GetStopWaitingFrame, forced when frames are to be retransmitted,
\* and QueueControlFrame
QueueStopWaiting ==
  /\ \/ /\ S!GetStopWaitingFrame
        /\ stopWaitingQueued' = nextLeastUnacked
     \/ /\ nextLeastUnacked <= largestLeastUnackedSent
        /\ largestLeastUnackedSent > 0
        /\ toResend # {}
        /\ stopWaitingQueued' = largestLeastUnackedSent
        /\ UNCHANGED sndVars
  /\ UNCHANGED <<rcvVars, sent, item, leastUnacked, toResend, acks>>

SenderAlarm ==
  /\ S!OnAlarm
  /\ UNCHANGED <<rcvVars, sent, item, leastUnacked, toResend, stopWaitingQueued,
                 acks>>

\* An ACK packet arrives, in any order and any number of times.
ReceiveAck(w) ==
  /\ \/ S!ReceivedAck(acks[w], w)
     \/ S!ReceivedAckRepeated(acks[w], w)
  /\ UNCHANGED <<rcvVars, sent, item, leastUnacked, toResend, stopWaitingQueued,
                 acks>>

-----------------------------------------------------------------------------
(* The receiving peer *)

ReceivePacket(p) ==
  /\ packetsReceivedSinceLastAck < MaxReceivedBetweenAcks
  /\ \/ R!HandlePacket(p, length[p] # 0, leastUnacked[p])
     \/ R!HandleOldPacket(p, leastUnacked[p])
  /\ UNCHANGED <<sndVars, sent, item, leastUnacked, toResend, stopWaitingQueued,
                 acks>>

SendAck ==
  /\ Len(acks) < MaxAckPackets
  /\ R!GetAckFrame
  /\ acks' = Append(acks, R!AckedBy(R!AckFrame))
  /\ UNCHANGED <<sndVars, sent, item, leastUnacked, toResend, stopWaitingQueued>>

-----------------------------------------------------------------------------
Next ==
  \/ SendData
  \/ SendRetransmission
  \/ SendNonRetransmittable
  \/ DequeueForRetransmission
  \/ QueueStopWaiting
  \/ SenderAlarm
  \/ \E w \in DOMAIN acks : ReceiveAck(w)
  \/ \E p \in sent : ReceivePacket(p)
  \/ SendAck

Spec == Init /\ [][Next]_vars

-----------------------------------------------------------------------------
(* Properties *)

\* A packet the sender takes for acked did arrive: interval lists, lower limits
\* and the sender's walk over its history add up to no false acknowledgement.
AckedWasReceived == acked \subseteq received

\* The peer can always build the ACK frame that is due, whatever STOP_WAITING
\* frames have deleted, and no ACK frame of a correct peer, whenever it arrives,
\* closes the session with an ACK for an unsent or a skipped packet number.
AcksAreLegitimate ==
  /\ R!AckFrameBuildable
  /\ \A w \in DOMAIN acks :
       /\ acks[w] # {}
       /\ acks[w] \subseteq 1 .. lastSentPacketNumber
       /\ acks[w] \cap skippedPackets = {}


Delivered(d) == \E p \in received : item[p] = d

\* Reliability: a data item that was sent has been delivered, or a packet that
\* carries it is still outstanding or queued, or it waits to be sent again.
NothingForgotten ==
  \A q \in sent :
    item[q] # 0 =>
      \/ Delivered(item[q])
      \/ item[q] \in toResend
      \/ \E p \in packetHistory \cup S!Queued : item[p] = item[q]

=============================================================================
