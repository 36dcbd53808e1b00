------------------------- MODULE SentPacketHandler -------------------------
(***************************************************************************)
(* ackhandler/sent_packet_handler.go and stop_waiting_manager.go: what one *)
(* path remembers of the packets it sent, from SentPacket until they are   *)
(* acked or queued for retransmission.                                     *)
(*                                                                         *)
(* packetHistory is a linked list to which SentPacket appends increasing   *)
(* packet numbers only, so list order is number order: it is a set here,   *)
(* Front is its minimum, Back its maximum, and a walk that breaks above    *)
(* LargestAcked sees the elements up to LargestAcked.  Time is abstract:   *)
(* alarm and lossTime say whether the field is set, and packets sent       *)
(* earlier exceed a time threshold earlier.  RTT estimation and the        *)
(* congestion controller only choose the thresholds.                       *)
(***************************************************************************)
EXTENDS Naturals, Sequences, FiniteSets, SequencesExt, FiniteSetsExt

CONSTANTS
  MaxPacketNumber,          \* bound: numbers 1 .. MaxPacketNumber are explored
  MaxAckPackets,            \* bound: numbers of the peer's packets with ACKs
  PacketLengths,            \* lengths of retransmittable packets, by number
  MaxDuplicates,            \* bound: duplicates in the retransmission queue
  MaxTrackedSentPackets,    \* protocol.MaxTrackedSentPackets
  MaxTrackedSkippedPackets  \* protocol.MaxTrackedSkippedPackets

ASSUME SentAssumption ==
  /\ MaxPacketNumber \in Nat
  /\ MaxAckPackets \in Nat
  /\ PacketLengths \in [1 .. MaxPacketNumber -> SUBSET (Nat \ {0})]
  /\ MaxDuplicates \in Nat
  /\ MaxTrackedSentPackets \in Nat
  /\ MaxTrackedSkippedPackets \in Nat

VARIABLES
  lastSentPacketNumber,
  skippedPackets,
  numNonRetransmittablePackets,
  LargestAcked,
  largestReceivedPacketWithAck,
  packetHistory,
  retransmissionQueue,
  bytesInFlight,
  rtoCount,
  tlpCount,
  lossTime,                 \* whether lossTime is set
  alarm,                    \* whether alarm is set
  nextLeastUnacked,         \* stopWaitingManager
  largestLeastUnackedSent,  \* stopWaitingManager
  err,                      \* the error that closed the session
  phase,                    \* "open", "closing" (closeChan signalled), "closed"
  length,                   \* Packet.Length by packet number, 0: nothing to retransmit
  acked,                    \* history variable: packets removed by an ACK
  retransmitted             \* history variable: packets dequeued

stopWaiting == <<nextLeastUnacked, largestLeastUnackedSent>>
vars == <<lastSentPacketNumber, skippedPackets, numNonRetransmittablePackets,
          LargestAcked, largestReceivedPacketWithAck, packetHistory,
          retransmissionQueue, bytesInFlight, rtoCount, tlpCount, lossTime,
          alarm, stopWaiting, err, phase, length, acked, retransmitted>>

PacketNumbers == 1 .. MaxPacketNumber
maxTailLossProbes == 2

Init ==
  /\ lastSentPacketNumber = 0
  /\ skippedPackets = {}
  /\ numNonRetransmittablePackets = 0
  /\ LargestAcked = 0
  /\ largestReceivedPacketWithAck = 0
  /\ packetHistory = {}
  /\ retransmissionQueue = <<>>
  /\ bytesInFlight = 0
  /\ rtoCount = 0
  /\ tlpCount = 0
  /\ lossTime = FALSE
  /\ alarm = FALSE
  /\ nextLeastUnacked = 0
  /\ largestLeastUnackedSent = 0
  /\ err = "none"
  /\ phase = "open"
  /\ length = [p \in PacketNumbers |-> 0]
  /\ acked = {}
  /\ retransmitted = {}

-----------------------------------------------------------------------------
(* Helpers *)

Bytes(packets) == MapThenSumSet(LAMBDA p : length[p], packets)

\* largestInOrderAcked, for given values of the list and of LargestAcked
LargestInOrderAcked(history, largest) ==
  IF history = {} THEN largest ELSE Min(history) - 1

\* Mutant: the alarm is not cancelled when nothing is outstanding any more.
updateLossDetectionAlarm_NoCancel == alarm' = (alarm \/ packetHistory' # {})

\* updateLossDetectionAlarm cancels the alarm when nothing is outstanding and
\* sets it to one of three deadlines otherwise.
updateLossDetectionAlarm == alarm' = (packetHistory' # {})

\* The packets of a set in list order
InListOrder(packets) ==
  {s \in [1 .. Cardinality(packets) -> packets] :
     /\ Range(s) = packets
     /\ \A i, j \in DOMAIN s : i < j => s[i] < s[j]}

\* Mutant: the bytes stay in flight.
queueForRetransmission_KeepsBytes(packets, history, bytes) ==
  /\ packetHistory' = history \ packets
  /\ bytesInFlight' = bytes
  /\ \E s \in InListOrder(packets) :
        retransmissionQueue' =
          retransmissionQueue \o [i \in DOMAIN s |-> [num |-> s[i], dup |-> FALSE]]

\* Mutant: the packet stays in the history.
queueForRetransmission_KeepsPacket(packets, history, bytes) ==
  /\ packetHistory' = history
  /\ bytesInFlight' = bytes
  /\ \E s \in InListOrder(packets) :
        retransmissionQueue' =
          retransmissionQueue \o [i \in DOMAIN s |-> [num |-> s[i], dup |-> FALSE]]

\* queuePacketForRetransmission for a set of packets, in list order, out of a
\* history with given bytes in flight.
queueForRetransmission(packets, history, bytes) ==
  /\ packetHistory' = history \ packets
  /\ bytesInFlight' = bytes - Bytes(packets)
  /\ \E s \in InListOrder(packets) :
        retransmissionQueue' =
          retransmissionQueue \o [i \in DOMAIN s |-> [num |-> s[i], dup |-> FALSE]]

\* Mutant: the least unacked number is one too high.
RaisedLeastUnacked_OffByOne(packets) ==
  Max({nextLeastUnacked} \cup {p + 2 : p \in packets})

\* stopWaitingManager: ReceivedAck and QueuedRetransmissionForPacketNumber both
\* raise nextLeastUnacked above the packet number they are told about.
RaisedLeastUnacked(packets) == Max({nextLeastUnacked} \cup {p + 1 : p \in packets})

garbageCollectSkippedPackets ==
  skippedPackets' =
    {p \in skippedPackets : p > LargestInOrderAcked(packetHistory', LargestAcked')}

-----------------------------------------------------------------------------
(* SentPacket *)

TrackedPackets == Len(retransmissionQueue) + Cardinality(packetHistory)

\* Only the newest skipped numbers are remembered.
NewestSkipped(skipped) ==
  {p \in skipped :
     Cardinality({q \in skipped : q > p}) < MaxTrackedSkippedPackets}

\* A packet whose frames are all non-retransmittable has len = 0 here: it is
\* counted and forgotten.
SentPacket(p, len) ==
  /\ p > lastSentPacketNumber
  /\ TrackedPackets + 1 <= MaxTrackedSentPackets
  /\ skippedPackets' =
       NewestSkipped(skippedPackets \cup (lastSentPacketNumber + 1 .. p - 1))
  /\ lastSentPacketNumber' = p
  /\ length' = [length EXCEPT ![p] = len]
  /\ IF len # 0
     THEN /\ bytesInFlight' = bytesInFlight + len
          /\ packetHistory' = packetHistory \cup {p}
          /\ numNonRetransmittablePackets' = 0
     ELSE /\ numNonRetransmittablePackets' = numNonRetransmittablePackets + 1
          /\ UNCHANGED <<bytesInFlight, packetHistory>>
  /\ updateLossDetectionAlarm
  /\ UNCHANGED <<LargestAcked, largestReceivedPacketWithAck,
                 retransmissionQueue, rtoCount, tlpCount, lossTime, stopWaiting,
                 err, phase, acked, retransmitted>>

\* ErrTooManyTrackedSentPackets closes the session
SentPacketTooMany ==
  /\ TrackedPackets + 1 > MaxTrackedSentPackets
  /\ err' = "tooManyTracked"
  /\ UNCHANGED <<lastSentPacketNumber, skippedPackets, LargestAcked,
                 numNonRetransmittablePackets, largestReceivedPacketWithAck,
                 packetHistory, retransmissionQueue, bytesInFlight, rtoCount,
                 tlpCount, lossTime, alarm, stopWaiting, phase, length, acked,
                 retransmitted>>

-----------------------------------------------------------------------------
(* Loss detection *)

\* The packets among candidates that are older than the reordering delay: all
\* were sent in order and are compared with the same delay.
OlderThanDelay(candidates) ==
  {old \in SUBSET candidates :
     \A p \in old, q \in candidates : q < p => q \in old}

\* detectLostPackets on a history: packets up to LargestAcked that are too old
\* are lost, and lossTime is set for the first of the remaining ones.
detectLostPackets(lost, history, bytes) ==
  LET candidates == {p \in history : p <= LargestAcked'} IN
  /\ lost \in OlderThanDelay(candidates)
  /\ queueForRetransmission(lost, history, bytes)
  /\ lossTime' = (lost # candidates)

-----------------------------------------------------------------------------
(* ReceivedAck.  An ACK frame is the set of packet numbers it acknowledges; *)
(* the parser guarantees it is not empty.  w is the number of the peer's    *)
(* packet that carries the frame.                                           *)

SkippedPacketsAcked(frame) == skippedPackets \cap frame # {}

IsRepeatedAck(frame) ==
  Max(frame) <= LargestInOrderAcked(packetHistory, LargestAcked)


\* A duplicate or out-of-order ACK changes nothing, and the session ignores its
\* error: it is a stuttering step.
InOrder(w) == w > largestReceivedPacketWithAck

\* Mutant: everything between LowestAcked and LargestAcked is taken for acked.
NewlyAcked_IgnoresRanges(frame) ==
  {p \in packetHistory : Min(frame) <= p /\ p <= Max(frame)}

\* determineNewlyAckedPackets
NewlyAcked(frame) == packetHistory \cap frame

\* Every check passed: newly acked packets leave the history, then packets are
\* declared lost, and the alarm, the skipped numbers and the stop waiting
\* manager are brought up to date.
ReceivedAck(frame, w) ==
  LET newly == NewlyAcked(frame) IN
  /\ Max(frame) <= lastSentPacketNumber
  /\ InOrder(w)
  /\ ~ IsRepeatedAck(frame)
  /\ ~ SkippedPacketsAcked(frame)
  /\ largestReceivedPacketWithAck' = w
  /\ LargestAcked' = Max(frame)
  /\ acked' = acked \cup newly
  /\ rtoCount' = IF newly = {} THEN rtoCount ELSE 0
  /\ tlpCount' = IF newly = {} THEN tlpCount ELSE 0
  /\ \E lost \in SUBSET (packetHistory \ newly) :
       /\ detectLostPackets(lost, packetHistory \ newly,
                            bytesInFlight - Bytes(newly))
       /\ nextLeastUnacked' = RaisedLeastUnacked(lost \cup {Max(frame)})
  /\ updateLossDetectionAlarm
  /\ garbageCollectSkippedPackets
  /\ UNCHANGED <<lastSentPacketNumber, numNonRetransmittablePackets,
                 largestLeastUnackedSent, err, phase, length, retransmitted>>

\* An ACK whose LargestAcked brings nothing new is noted and ignored.
ReceivedAckRepeated(frame, w) ==
  /\ Max(frame) <= lastSentPacketNumber
  /\ InOrder(w)
  /\ IsRepeatedAck(frame)
  /\ largestReceivedPacketWithAck' = w
  /\ UNCHANGED <<lastSentPacketNumber, skippedPackets, LargestAcked,
                 numNonRetransmittablePackets, packetHistory,
                 retransmissionQueue, bytesInFlight, rtoCount, tlpCount,
                 lossTime, alarm, stopWaiting, err, phase, length, acked,
                 retransmitted>>

\* errAckForUnsentPacket and ErrAckForSkippedPacket close the session; the
\* second is noticed after LargestAcked was updated.
ReceivedAckError(frame, w) ==
  /\ \/ /\ Max(frame) > lastSentPacketNumber
        /\ err' = "ackForUnsent"
        /\ UNCHANGED <<LargestAcked, largestReceivedPacketWithAck>>
     \/ /\ Max(frame) <= lastSentPacketNumber
        /\ InOrder(w)
        /\ ~ IsRepeatedAck(frame)
        /\ SkippedPacketsAcked(frame)
        /\ err' = "ackForSkipped"
        /\ LargestAcked' = Max(frame)
        /\ largestReceivedPacketWithAck' = w
  /\ UNCHANGED <<lastSentPacketNumber, skippedPackets, packetHistory,
                 numNonRetransmittablePackets, retransmissionQueue,
                 bytesInFlight, rtoCount, tlpCount, lossTime, alarm,
                 stopWaiting, phase, length, acked, retransmitted>>

-----------------------------------------------------------------------------
(* OnAlarm.  The timer of the path's goroutine hands the path to the run    *)
(* loop; a goroutine that was told to close may do so once more.            *)

TimerFires ==
  /\ alarm
  /\ phase \in {"open", "closing"}
  /\ phase' = IF phase = "closing" THEN "closed" ELSE "open"

AlarmFrame ==
  UNCHANGED <<lastSentPacketNumber, skippedPackets, LargestAcked,
              numNonRetransmittablePackets, largestReceivedPacketWithAck,
              largestLeastUnackedSent, err, length, acked, retransmitted>>

\* Early retransmit: the deadline of the first candidate has passed, so it is
\* lost, unless a CLOSE_PATH frame has taken all candidates away.
OnAlarmLoss ==
  /\ lossTime
  /\ AlarmFrame
  /\ \E lost \in SUBSET packetHistory :
       /\ lost = {} => \A p \in packetHistory : p > LargestAcked
       /\ detectLostPackets(lost, packetHistory, bytesInFlight)
       /\ nextLeastUnacked' = RaisedLeastUnacked(lost)
  /\ UNCHANGED <<rtoCount, tlpCount>>

\* Tail loss probe: the newest packet
OnAlarmTLP ==
  /\ ~ lossTime
  /\ tlpCount < maxTailLossProbes
  /\ tlpCount' = tlpCount + 1
  /\ queueForRetransmission({Max(packetHistory)}, packetHistory, bytesInFlight)
  /\ nextLeastUnacked' = RaisedLeastUnacked({Max(packetHistory)})
  /\ AlarmFrame
  /\ UNCHANGED <<rtoCount, lossTime>>

\* Retransmission timeout: all packets when the path saw no activity since the
\* last packet was sent (onRTO), the two oldest ones otherwise.
OldestTwo == {p \in packetHistory : Cardinality({q \in packetHistory : q < p}) < 2}

OnAlarmRTO ==
  /\ ~ lossTime
  /\ tlpCount >= maxTailLossProbes
  /\ rtoCount' = rtoCount + 1
  /\ \E packets \in {packetHistory, OldestTwo} :
       /\ queueForRetransmission(packets, packetHistory, bytesInFlight)
       /\ nextLeastUnacked' = RaisedLeastUnacked(packets)
  /\ AlarmFrame
  /\ UNCHANGED <<tlpCount, lossTime>>

\* Nothing is outstanding any more (only after a CLOSE_PATH frame): cancel.
OnAlarmIdle ==
  /\ packetHistory = {}
  /\ alarm' = FALSE
  /\ AlarmFrame
  /\ UNCHANGED <<packetHistory, retransmissionQueue, bytesInFlight, rtoCount,
                 tlpCount, lossTime, nextLeastUnacked>>

\* Mutant: the alarm is not set again for the packets that remain.
OnAlarm_NotRearmed ==
  /\ TimerFires
  /\ \/ OnAlarmIdle
     \/ /\ packetHistory # {}
        /\ OnAlarmLoss \/ OnAlarmTLP \/ OnAlarmRTO
        /\ alarm' = FALSE

OnAlarm ==
  /\ TimerFires
  /\ \/ OnAlarmIdle
     \/ /\ packetHistory # {}
        /\ OnAlarmLoss \/ OnAlarmTLP \/ OnAlarmRTO
        /\ updateLossDetectionAlarm

-----------------------------------------------------------------------------
(* session.handleClosePathFrame: the path is told to close, then the frame  *)
(* is handled like an ACK with the number of the last packet received on    *)
(* the path; errors are dropped.                                            *)

ReceivedClosePath(frame, w) ==
  LET newly == NewlyAcked(frame)
      rest == packetHistory \ newly
  IN
  /\ phase' = IF phase = "open" THEN "closing" ELSE phase
  /\ IF Max(frame) > lastSentPacketNumber \/ ~ InOrder(w)
     THEN UNCHANGED <<largestReceivedPacketWithAck, packetHistory, acked,
                      retransmissionQueue, bytesInFlight, rtoCount, tlpCount,
                      nextLeastUnacked, skippedPackets>>
     ELSE /\ largestReceivedPacketWithAck' = w
          /\ IF SkippedPacketsAcked(frame)
             THEN UNCHANGED <<packetHistory, acked, retransmissionQueue,
                              bytesInFlight, rtoCount, tlpCount,
                              nextLeastUnacked, skippedPackets>>
             ELSE /\ acked' = acked \cup newly
                  /\ rtoCount' = IF newly = {} THEN rtoCount ELSE 0
                  /\ tlpCount' = IF newly = {} THEN tlpCount ELSE 0
                  /\ LET lost == {p \in rest : p <= LargestAcked} IN
                       /\ queueForRetransmission(lost, rest,
                                                 bytesInFlight - Bytes(newly))
                       /\ nextLeastUnacked' = RaisedLeastUnacked(lost)
                  /\ skippedPackets' =
                       {p \in skippedPackets :
                          p > LargestInOrderAcked(packetHistory', LargestAcked)}
  /\ UNCHANGED <<lastSentPacketNumber, numNonRetransmittablePackets,
                 LargestAcked, lossTime, alarm, largestLeastUnackedSent, err,
                 length, retransmitted>>

\* The goroutine of the path sees closeChan.
PathRunEnds ==
  /\ phase = "closing"
  /\ phase' = "closed"
  /\ UNCHANGED <<lastSentPacketNumber, skippedPackets, LargestAcked,
                 numNonRetransmittablePackets, largestReceivedPacketWithAck,
                 packetHistory, retransmissionQueue, bytesInFlight, rtoCount,
                 tlpCount, lossTime, alarm, stopWaiting, err, length, acked,
                 retransmitted>>

-----------------------------------------------------------------------------
(* The retransmission queue and STOP_WAITING frames *)

DequeuePacketForRetransmission ==
  /\ retransmissionQueue # <<>>
  /\ retransmissionQueue' = Tail(retransmissionQueue)
  /\ retransmitted' =
       IF Head(retransmissionQueue).dup THEN retransmitted
       ELSE retransmitted \cup {Head(retransmissionQueue).num}
  /\ UNCHANGED <<lastSentPacketNumber, skippedPackets, LargestAcked,
                 numNonRetransmittablePackets, largestReceivedPacketWithAck,
                 packetHistory, bytesInFlight, rtoCount, tlpCount, lossTime,
                 alarm, stopWaiting, err, phase, length, acked>>

\* The scheduler queues a copy of a packet it just sent on a path whose RTT is
\* not known yet; the packet itself stays in the history.
DuplicatePacket ==
  /\ lastSentPacketNumber > 0
  /\ Cardinality({i \in DOMAIN retransmissionQueue :
                    retransmissionQueue[i].dup}) < MaxDuplicates
  /\ retransmissionQueue' =
       Append(retransmissionQueue, [num |-> lastSentPacketNumber, dup |-> TRUE])
  /\ UNCHANGED <<lastSentPacketNumber, skippedPackets, LargestAcked,
                 numNonRetransmittablePackets, largestReceivedPacketWithAck,
                 packetHistory, bytesInFlight, rtoCount, tlpCount, lossTime,
                 alarm, stopWaiting, err, phase, length, acked, retransmitted>>

\* A new STOP_WAITING frame; asking again, with or without force, returns the
\* last frame or nil and changes nothing.
GetStopWaitingFrame ==
  /\ nextLeastUnacked > largestLeastUnackedSent
  /\ largestLeastUnackedSent' = nextLeastUnacked
  /\ UNCHANGED <<lastSentPacketNumber, skippedPackets, LargestAcked,
                 numNonRetransmittablePackets, largestReceivedPacketWithAck,
                 packetHistory, retransmissionQueue, bytesInFlight, rtoCount,
                 tlpCount, lossTime, alarm, nextLeastUnacked, err, phase,
                 length, acked, retransmitted>>

-----------------------------------------------------------------------------
Frames == (SUBSET PacketNumbers) \ {{}}

\* The numbers the path's generator may produce next; it skips at most one.
NextNumbers == {lastSentPacketNumber + 1, lastSentPacketNumber + 2} \cap PacketNumbers

Next ==
  /\ err = "none"
  /\ \/ /\ phase = "open"
        /\ \E p \in NextNumbers :
             \E len \in PacketLengths[p] \cup {0} : SentPacket(p, len)
     \/ /\ phase = "open"
        /\ SentPacketTooMany
     \/ \E frame \in Frames, w \in 1 .. MaxAckPackets :
          /\ phase = "open"
          /\ \/ ReceivedAck(frame, w)
             \/ ReceivedAckRepeated(frame, w)
             \/ ReceivedAckError(frame, w)
     \/ OnAlarm
     \/ \E frame \in Frames, w \in 1 .. MaxAckPackets : ReceivedClosePath(frame, w)
     \/ PathRunEnds
     \/ DequeuePacketForRetransmission
     \/ DuplicatePacket
     \/ GetStopWaitingFrame

Spec == Init /\ [][Next]_vars

\* The path's timer is re-armed on every turn of its goroutine, for at most
\* maxPathTimer, so a set alarm is eventually handled by the run loop.
FairSpec == Spec /\ WF_vars(err = "none" /\ OnAlarm)

-----------------------------------------------------------------------------
(* Properties *)

\* Entries of the retransmission queue; dup marks those of DuplicatePacket.
QueueEntry == [num : PacketNumbers, dup : BOOLEAN]

\* The packets that were taken out of the history to be retransmitted.
Queued ==
  {retransmissionQueue[i].num :
     i \in {j \in DOMAIN retransmissionQueue : ~ retransmissionQueue[j].dup}}

\* bytesInFlight, which the congestion window is compared with, is the total
\* length of the packets in the history: sending, acking and every way of
\* queueing a packet for retransmission keep the two in step, and the unsigned
\* counter never wraps.
BytesInFlightExact == bytesInFlight = Bytes(packetHistory)

\* Every retransmittable packet that was sent is outstanding, acked, queued or
\* already retransmitted, and only one of these: none is forgotten, none is
\* retransmitted after it was acked or acked after it was given up.  And no number
\* is queued twice, whichever of loss detection, probes and timeouts queued it.
PacketsAccounted ==
  /\ {p \in PacketNumbers : length[p] # 0}
       = packetHistory \cup acked \cup Queued \cup retransmitted
  /\ packetHistory \cap acked = {}
  /\ (packetHistory \cup acked) \cap (Queued \cup retransmitted) = {}
  /\ Queued \cap retransmitted = {}
  /\ \A i, j \in DOMAIN retransmissionQueue :
       i # j /\ retransmissionQueue[i].num = retransmissionQueue[j].num
         => retransmissionQueue[i].dup \/ retransmissionQueue[j].dup

\* While the path is open the alarm is set exactly when a packet is outstanding:
\* otherwise a lost packet would wait for an ACK for ever.  And lossTime is set
\* exactly when an outstanding packet is below LargestAcked, so early retransmit
\* neither shadows probes and timeouts without a candidate nor misses one.
AlarmWhileOutstanding ==
  phase = "open" =>
    /\ alarm <=> packetHistory # {}
    /\ err = "none" => (lossTime <=> \E p \in packetHistory : p <= LargestAcked)

\* LeastUnacked of a STOP_WAITING frame is never above the number of the packet
\* that will carry it; StopWaitingFrame.Write fails otherwise and the session
\* would be closed.
StopWaitingWritable ==
  /\ nextLeastUnacked <= lastSentPacketNumber + 1
  /\ largestLeastUnackedSent <= nextLeastUnacked

\* Every outstanding packet is eventually acked or queued for retransmission,
\* unless the path or the session is closed.
EventuallySettled ==
  \A p \in PacketNumbers :
    p \in packetHistory ~> (p \notin packetHistory \/ phase # "open" \/ err # "none")

=============================================================================
