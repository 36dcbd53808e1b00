-------------------- MODULE ReceivedPacketHandlerProofs --------------------
(***************************************************************************)
(* The safety invariants of ReceivedPacketHandler hold for every limit of  *)
(* tracked ranges, every number of packets and both ACK policies.          *)
(***************************************************************************)
EXTENDS ReceivedPacketHandler, ReceivedPacketHistoryProofs

\* The inductive invariant.  What the safety invariants lack is how the limits
\* relate to the largest packet: a STOP_WAITING frame never reaches the packet
\* that carries it, so the largest packet observed is above every limit.
Inv ==
  /\ TypeOK
  /\ RangesWellFormed
  /\ RangesExact
  /\ RetransmittableIsAcked
  /\ lowerLimit <= highestLimit
  /\ \A p \in received : p <= largestObserved
  /\ largestObserved = 0 => highestLimit = 0 /\ ~ AckDue
  /\ largestObserved # 0 => largestObserved \in received /\ highestLimit < largestObserved

\* The step of a packet that is registered or ignored, followed by the
\* STOP_WAITING frame it may carry: rs is the list when the frame is handled.
LEMMA LimitStep ==
  ASSUME Inv, NEW p \in Nat \ {0}, NEW leastUnacked \in 0 .. p, ~ failed,
         NEW rs \in Seq(PacketInterval), WellFormed(rs),
         Len(rs) <= MaxTrackedReceivedAckRanges,
         \/ Covered(rs) = Covered(ranges) \cup {p}
         \/ Covered(rs) = Covered(ranges) /\ p <= lowerLimit,
         Observe(p), SetLowerLimit(leastUnacked, rs), failed' = failed
  PROVE  /\ ranges' \in Seq(PacketInterval)
         /\ Len(ranges') <= MaxTrackedReceivedAckRanges
         /\ largestObserved' \in Nat \ {0}
         /\ lowerLimit' \in Nat /\ highestLimit' \in Nat
         /\ received' \subseteq Nat \ {0}
         /\ RangesWellFormed'
         /\ RangesExact'
         /\ lowerLimit' <= highestLimit'
         /\ \A x \in received' : x <= largestObserved'
         /\ largestObserved' \in received' /\ highestLimit' < largestObserved'
<1> USE DEF Inv, TypeOK
<1>1. /\ largestObserved' = (IF largestObserved >= p THEN largestObserved ELSE p)
      /\ received' = received \cup {p}
  BY MaxOfTwo DEF Observe
<1>2. Covered(rs) \subseteq Nat /\ Covered(ranges) \subseteq Nat
  BY CoveredNat
<1>3. /\ Covered(rs) \subseteq received'
      /\ {x \in received' : x > highestLimit} \subseteq Covered(rs)
  BY <1>1, <1>2 DEF RangesExact
<1>4. /\ largestObserved' \in received' /\ largestObserved' \in Nat \ {0}
      /\ \A x \in received' : x <= largestObserved'
      /\ highestLimit < largestObserved' /\ p <= largestObserved'
      /\ received' \subseteq Nat \ {0}
  BY <1>1
<1>5. CASE leastUnacked = 0
  <2>1. ranges' = rs /\ lowerLimit' = lowerLimit /\ highestLimit' = highestLimit
    BY <1>5 DEF SetLowerLimit
  <2> QED BY <2>1, <1>3, <1>4 DEF RangesExact, RangesWellFormed
<1>6. CASE leastUnacked # 0
  <2> DEFINE l == leastUnacked - 1
  <2>1. l \in Nat /\ l < p
    BY <1>6
  <2>2. /\ ranges' = DeleteUpTo(rs, l) /\ lowerLimit' = l
        /\ highestLimit' = (IF highestLimit >= l THEN highestLimit ELSE l)
    BY <1>6, <2>1, MaxOfTwo DEF SetLowerLimit
  <2> HIDE DEF l
  <2>3. /\ ranges' \in Seq(PacketInterval) /\ Len(ranges') <= Len(rs)
        /\ WellFormed(ranges') /\ Covered(ranges') = {x \in Covered(rs) : x > l}
    BY <2>1, <2>2, DeleteUpToCorrect
  <2>4. RangesWellFormed'
    BY <2>3 DEF RangesWellFormed
  <2>5. RangesExact'
    <3>1. Covered(ranges)' = Covered(ranges')
      BY DEF Covered
    <3>2. \A x \in received' : x > highestLimit' => x > highestLimit /\ x > l
      BY <2>1, <2>2, <1>4
    <3> QED BY <3>1, <3>2, <2>3, <1>3 DEF RangesExact
  <2>6. Len(ranges') <= MaxTrackedReceivedAckRanges
    BY <2>3, MaxRangesAssumption
  <2>7. /\ lowerLimit' \in Nat /\ highestLimit' \in Nat /\ lowerLimit' <= highestLimit'
        /\ highestLimit' < largestObserved'
    BY <2>1, <2>2, <1>4
  <2> QED BY <2>3, <2>4, <2>5, <2>6, <2>7, <1>4
<1> QED BY <1>5, <1>6

\* maybeQueueAck keeps the obligation to acknowledge and the types.
LEMMA QueueStep ==
  ASSUME Inv, NEW p \in Nat, NEW instigates \in BOOLEAN, NEW rs,
         maybeQueueAck(p, instigates, rs)
  PROVE  /\ packetsReceivedSinceLastAck' \in Nat
         /\ retransmittablePacketsReceivedSinceLastAck' \in Nat
         /\ ackQueued' \in BOOLEAN /\ ackAlarm' \in BOOLEAN
         /\ RetransmittableIsAcked'
<1> USE DEF maybeQueueAck, Inv, TypeOK
<1>1. /\ packetsReceivedSinceLastAck' \in Nat
      /\ retransmittablePacketsReceivedSinceLastAck' \in Nat
  OBVIOUS
<1>2. ackQueued' \in BOOLEAN
  BY DEF QueuesAck
<1>3. ackAlarm' \in BOOLEAN
  BY <1>2
<1>4. ackQueued => ackQueued'
  BY DEF QueuesAck
<1>5. RetransmittableIsAcked'
  <2>1. CASE instigates
    BY <2>1, <1>2 DEF RetransmittableIsAcked, AckDue
  <2>2. CASE ~ instigates
    <3>1. retransmittablePacketsReceivedSinceLastAck' = retransmittablePacketsReceivedSinceLastAck
      BY <2>2
    <3>2. AckDue => ackQueued' \/ ackAlarm'
      BY <1>2, <1>4 DEF AckDue
    <3> QED BY <3>1, <3>2 DEF RetransmittableIsAcked, AckDue
  <2> QED BY <2>1, <2>2
<1> QED BY <1>1, <1>2, <1>3, <1>5

LEMMA InitInv == Init => Inv
<1> SUFFICES ASSUME Init PROVE Inv
  OBVIOUS
<1> USE DEF Init
<1>1. TypeOK
  <2>1. ranges \in Seq(PacketInterval) /\ Len(ranges) = 0
    OBVIOUS
  <2>2. Len(ranges) <= MaxTrackedReceivedAckRanges
    BY <2>1, MaxRangesAssumption
  <2>3. received \subseteq Nat \ {0}
    OBVIOUS
  <2> QED BY <2>1, <2>2, <2>3 DEF TypeOK
<1>2. RangesWellFormed
  BY DEF RangesWellFormed, WellFormed
<1>3. RangesExact
  BY DEF RangesExact, Covered, Range
<1> QED BY <1>1, <1>2, <1>3 DEF Inv, RetransmittableIsAcked, AckDue

LEMMA NextInv == Inv /\ [Next]_vars => Inv'
<1> SUFFICES ASSUME Inv, [Next]_vars PROVE Inv'
  OBVIOUS
<1>0. TypeOK /\ RangesWellFormed /\ RangesExact /\ RetransmittableIsAcked
  BY DEF Inv
<1>1. ASSUME NEW p \in PacketNumbers, NEW instigates \in BOOLEAN,
             NEW leastUnacked \in 0 .. p, ~ failed, HandlePacket(p, instigates, leastUnacked)
      PROVE  Inv'
  <2> DEFINE rs == ReceivedPacketRanges(ranges, p)
  <2>0. p \in Nat \ {0} /\ p \in Nat
    BY HandlerAssumption DEF PacketNumbers
  <2>1. /\ rs \in Seq(PacketInterval) /\ WellFormed(rs) /\ Len(rs) <= Len(ranges) + 1
        /\ Covered(rs) = Covered(ranges) \cup {p}
    BY <2>0, <1>0, ReceivedPacketCorrect DEF TypeOK, RangesWellFormed
  <2>2. /\ Observe(p) /\ maybeQueueAck(p, instigates, rs) /\ SetLowerLimit(leastUnacked, rs)
        /\ ~ RangesFull(ranges) /\ lastAck' = lastAck /\ failed' = failed
    BY <1>1 DEF HandlePacket
  <2> HIDE DEF rs
  <2>3. Len(rs) <= MaxTrackedReceivedAckRanges
    BY <2>1, <2>2, <1>0, MaxRangesAssumption DEF RangesFull, TypeOK
  <2>4. /\ ranges' \in Seq(PacketInterval)
        /\ Len(ranges') <= MaxTrackedReceivedAckRanges
        /\ largestObserved' \in Nat \ {0}
        /\ lowerLimit' \in Nat /\ highestLimit' \in Nat
        /\ received' \subseteq Nat \ {0}
        /\ RangesWellFormed'
        /\ RangesExact'
        /\ lowerLimit' <= highestLimit'
        /\ \A x \in received' : x <= largestObserved'
        /\ largestObserved' \in received' /\ highestLimit' < largestObserved'
    BY <2>0, <2>1, <2>2, <2>3, <1>1, LimitStep
  <2>5. /\ packetsReceivedSinceLastAck' \in Nat
        /\ retransmittablePacketsReceivedSinceLastAck' \in Nat
        /\ ackQueued' \in BOOLEAN /\ ackAlarm' \in BOOLEAN
        /\ RetransmittableIsAcked'
    BY <2>0, <2>2, QueueStep
  <2>6. TypeOK'
    BY <2>2, <2>4, <2>5, <1>0 DEF TypeOK
  <2> QED BY <2>4, <2>5, <2>6 DEF Inv
<1>2. ASSUME NEW p \in PacketNumbers, NEW leastUnacked \in 0 .. p, ~ failed,
             HandleOldPacket(p, leastUnacked)
      PROVE  Inv'
  <2>0. p \in Nat \ {0}
    BY HandlerAssumption DEF PacketNumbers
  <2>1. /\ Observe(p) /\ SetLowerLimit(leastUnacked, ranges) /\ p <= lowerLimit
        /\ UNCHANGED <<packetsReceivedSinceLastAck, ackQueued, ackAlarm, lastAck,
                       retransmittablePacketsReceivedSinceLastAck, failed>>
    BY <1>2 DEF HandleOldPacket
  <2>2. /\ ranges \in Seq(PacketInterval) /\ WellFormed(ranges)
        /\ Len(ranges) <= MaxTrackedReceivedAckRanges
    BY <1>0 DEF TypeOK, RangesWellFormed
  <2>3. /\ ranges' \in Seq(PacketInterval)
        /\ Len(ranges') <= MaxTrackedReceivedAckRanges
        /\ largestObserved' \in Nat \ {0}
        /\ lowerLimit' \in Nat /\ highestLimit' \in Nat
        /\ received' \subseteq Nat \ {0}
        /\ RangesWellFormed'
        /\ RangesExact'
        /\ lowerLimit' <= highestLimit'
        /\ \A x \in received' : x <= largestObserved'
        /\ largestObserved' \in received' /\ highestLimit' < largestObserved'
    BY <2>0, <2>1, <2>2, <1>2, LimitStep
  <2>4. TypeOK'
    BY <2>1, <2>3, <1>0 DEF TypeOK
  <2>5. RetransmittableIsAcked'
    BY <2>1, <1>0 DEF RetransmittableIsAcked, AckDue
  <2> QED BY <2>3, <2>4, <2>5 DEF Inv
<1>3. ASSUME NEW p \in PacketNumbers, HandlePacketRangesFull(p)
      PROVE  Inv'
  <2>0. p \in Nat \ {0}
    BY HandlerAssumption DEF PacketNumbers
  <2>1. /\ largestObserved' = (IF largestObserved >= p THEN largestObserved ELSE p)
        /\ received' = received \cup {p}
    BY <1>3, <2>0, <1>0, MaxOfTwo DEF HandlePacketRangesFull, Observe, TypeOK
  <2>2. /\ failed' = TRUE
        /\ UNCHANGED <<ranges, lowerLimit, packetsReceivedSinceLastAck, ackQueued,
                       ackAlarm, lastAck, highestLimit,
                       retransmittablePacketsReceivedSinceLastAck>>
    BY <1>3 DEF HandlePacketRangesFull
  <2>3. TypeOK'
    BY <2>0, <2>1, <2>2, <1>0 DEF TypeOK
  <2>4. RangesWellFormed' /\ RetransmittableIsAcked'
    BY <2>2, <1>0 DEF RangesWellFormed, RetransmittableIsAcked, AckDue
  <2>5. RangesExact'
    BY <2>1, <2>2, <1>0 DEF RangesExact
  <2>6. /\ \A x \in received' : x <= largestObserved'
        /\ largestObserved' # 0 /\ largestObserved' \in received'
        /\ highestLimit' < largestObserved' /\ lowerLimit' <= highestLimit'
    BY <2>0, <2>1, <2>2 DEF Inv, TypeOK
  <2> QED BY <2>3, <2>4, <2>5, <2>6 DEF Inv
<1>4. CASE HandlePacketZero
  <2>1. /\ failed' = TRUE
        /\ UNCHANGED <<ranges, largestObserved, lowerLimit, ackQueued, ackAlarm,
                       packetsReceivedSinceLastAck, lastAck, received, highestLimit,
                       retransmittablePacketsReceivedSinceLastAck>>
    BY <1>4 DEF HandlePacketZero
  <2> QED BY <2>1 DEF Inv, TypeOK, RangesWellFormed, RangesExact, RetransmittableIsAcked, AckDue
<1>5. CASE GetAckFrame
  <2>1. /\ lastAck' = largestObserved /\ ackAlarm' = FALSE /\ ackQueued' = FALSE
        /\ packetsReceivedSinceLastAck' = 0
        /\ retransmittablePacketsReceivedSinceLastAck' = 0
        /\ UNCHANGED <<ranges, largestObserved, lowerLimit, failed, received, highestLimit>>
    BY <1>5 DEF GetAckFrame
  <2>2. TypeOK'
    BY <2>1, <1>0 DEF TypeOK
  <2>3. RangesWellFormed' /\ RangesExact'
    BY <2>1, <1>0 DEF RangesWellFormed, RangesExact
  <2>4. RetransmittableIsAcked' /\ ~ AckDue'
    BY <2>1 DEF RetransmittableIsAcked, AckDue
  <2> QED BY <2>1, <2>2, <2>3, <2>4 DEF Inv
<1>6. CASE UNCHANGED vars
  BY <1>6 DEF Inv, vars, TypeOK, RangesWellFormed, RangesExact, RetransmittableIsAcked, AckDue
<1> QED BY <1>1, <1>2, <1>3, <1>4, <1>5, <1>6 DEF Next, Receive

\* Every reachable state satisfies the inductive invariant.
THEOREM Invariance == Spec => []Inv
BY InitInv, NextInv, PTL DEF Spec
\* The variables keep their types; in particular the list never holds more
\* intervals than receivedPacketHistory allows.
THEOREM TypeCorrect == Spec => []TypeOK
<1>1. Inv => TypeOK
  BY DEF Inv
<1> QED BY <1>1, Invariance, PTL

\* The interval list stays sorted with gaps under reordering, duplication and
\* STOP_WAITING.
THEOREM WellFormedness == Spec => []RangesWellFormed
<1>1. Inv => RangesWellFormed
  BY DEF Inv
<1> QED BY <1>1, Invariance, PTL

\* The list neither invents nor loses a packet number.
THEOREM Exactness == Spec => []RangesExact
<1>1. Inv => RangesExact
  BY DEF Inv
<1> QED BY <1>1, Invariance, PTL

\* maybeQueueAck never drops the obligation to acknowledge.
THEOREM Obligation == Spec => []RetransmittableIsAcked
<1>1. Inv => RetransmittableIsAcked
  BY DEF Inv
<1> QED BY <1>1, Invariance, PTL

\* Where an ACK frame is due the list is not empty and ends at largestObserved.
LEMMA InvBuildable == Inv => AckFrameBuildable
<1> SUFFICES ASSUME Inv, AckDue, ~ failed
             PROVE  ranges # <<>> /\ Last(ranges).End = largestObserved
  BY DEF AckFrameBuildable
<1> USE DEF Inv, TypeOK
<1>1. largestObserved \in Nat \ {0} /\ largestObserved \in Covered(ranges)
  BY DEF RangesExact
<1>2. PICK i \in 1 .. Len(ranges) : ranges[i].Start <= largestObserved /\ largestObserved <= ranges[i].End
  BY <1>1, CoveredIff
<1>3. ranges # <<>> /\ Len(ranges) \in 1 .. Len(ranges) /\ Last(ranges) = ranges[Len(ranges)]
  BY <1>2 DEF Last
<1> DEFINE n == Len(ranges)
<1>4. /\ \A j \in 1 .. n : /\ ranges[j].Start \in Nat /\ ranges[j].End \in Nat
                            /\ ranges[j].Start <= ranges[j].End
      /\ \A j, k \in 1 .. n : j < k => ranges[j].End + 1 < ranges[k].Start
  BY WellFormedProps DEF RangesWellFormed
<1>5. ranges[n].End \in Covered(ranges)
  BY <1>3, <1>4, CoveredIff
<1>6. ranges[n].End <= largestObserved
  BY <1>5 DEF RangesExact
<1>7. largestObserved <= ranges[n].End
  <2>1. CASE i = n
    BY <2>1, <1>2
  <2>2. CASE i < n
    <3>1. ranges[i].End + 1 < ranges[n].Start /\ ranges[n].Start <= ranges[n].End
      BY <2>2, <1>3, <1>4
    <3>2. ranges[i].End \in Nat /\ ranges[n].Start \in Nat /\ ranges[n].End \in Nat
      BY <1>3, <1>4
    <3> QED BY <3>1, <3>2, <1>1, <1>2
  <2> QED BY <2>1, <2>2
<1>8. ranges[n].End \in Nat
  BY <1>3, <1>4
<1> QED BY <1>1, <1>3, <1>6, <1>7, <1>8

\* GetAckFrame never indexes an empty list, and LargestAcked is the end of the
\* top interval.
THEOREM Buildable == Spec => []AckFrameBuildable
BY InvBuildable, Invariance, PTL

\* Where an ACK frame is due it acknowledges exactly what the list covers.
LEMMA InvFrameExact == Inv => AckFrameExact
<1> SUFFICES ASSUME Inv, AckDue, ~ failed
             PROVE  AckedBy(AckFrame) = Covered(ranges)
  BY DEF AckFrameExact
<1> USE DEF Inv, TypeOK
<1> DEFINE n == Len(ranges)
           rev == GetAckRanges(ranges)
<1>1. ranges # <<>> /\ ranges[n].End = largestObserved
  BY InvBuildable DEF AckFrameBuildable, Last
<1>2. n \in Nat \ {0} /\ 1 \in 1 .. n /\ n \in 1 .. n
  BY <1>1
<1>3. /\ rev \in Seq(PacketInterval) /\ Len(rev) = n
      /\ \A i \in 1 .. n : rev[i] = ranges[n - i + 1]
  BY <1>2 DEF GetAckRanges, Reverse
<1> HIDE DEF rev
<1>4. Last(rev) = ranges[1]
  BY <1>2, <1>3 DEF Last
<1>5. /\ \A j \in 1 .. n : /\ ranges[j].Start \in Nat /\ ranges[j].End \in Nat
                            /\ ranges[j].Start <= ranges[j].End
      /\ \A j, k \in 1 .. n : j < k => ranges[j].End + 1 < ranges[k].Start
  BY WellFormedProps DEF RangesWellFormed
<1>6. /\ AckFrame.LargestAcked = ranges[n].End
      /\ AckFrame.LowestAcked = ranges[1].Start
      /\ AckFrame.AckRanges = IF n > 1 THEN rev ELSE <<>>
  BY <1>1, <1>3, <1>4 DEF AckFrame, rev
<1>7. Covered(ranges) \subseteq Nat
  BY CoveredNat
<1>8. CASE n = 1
  <2>1. AckedBy(AckFrame) = ranges[1].Start .. ranges[1].End
    BY <1>6, <1>8 DEF AckedBy
  <2>2. \A x \in Nat : x \in Covered(ranges) <=> ranges[1].Start <= x /\ x <= ranges[1].End
    BY <1>8, <1>2, CoveredIff
  <2>3. ranges[1].Start \in Nat /\ ranges[1].End \in Nat
    BY <1>2, <1>5
  <2>4. AckedBy(AckFrame) \subseteq Nat
    BY <2>1, <2>3
  <2>5. \A x \in Nat : x \in AckedBy(AckFrame) <=> x \in Covered(ranges)
    BY <2>1, <2>2, <2>3
  <2> QED BY <2>4, <2>5, <1>7, Zenon
<1>9. CASE n > 1
  <2>1. rev # <<>>
    BY <1>3, <1>9
  <2>2. AckedBy(AckFrame) = {x \in ranges[1].Start .. ranges[n].End :
                               \E r \in Range(rev) : Includes(r, x)}
    BY <2>1, <1>6, <1>9 DEF AckedBy
  <2>3. /\ \A r \in Range(rev) : \E i \in 1 .. n : r = ranges[i]
        /\ \A i \in 1 .. n : ranges[i] \in Range(rev)
    <3>1. \A i \in 1 .. n : n - i + 1 \in 1 .. n /\ n - (n - i + 1) + 1 = i
      BY <1>2
    <3>2. DOMAIN rev = 1 .. n
      BY <1>3
    <3>3. ASSUME NEW r \in Range(rev)
          PROVE  \E i \in 1 .. n : r = ranges[i]
      <4>1. PICK k \in 1 .. n : r = rev[k]
        BY <3>2, Zenon DEF Range
      <4>2. r = ranges[n - k + 1]
        BY <4>1, <1>3
      <4> QED BY <4>2, <3>1
    <3>4. ASSUME NEW i \in 1 .. n
          PROVE  ranges[i] \in Range(rev)
      <4>1. n - i + 1 \in 1 .. n /\ rev[n - i + 1] = ranges[i]
        BY <3>1, <1>3
      <4> QED BY <4>1, <3>2, Zenon DEF Range
    <3> QED BY <3>3, <3>4
  <2>4. \A i \in 1 .. n : ranges[1].Start <= ranges[i].Start /\ ranges[i].End <= ranges[n].End
    <3> SUFFICES ASSUME NEW i \in 1 .. n
                 PROVE  ranges[1].Start <= ranges[i].Start /\ ranges[i].End <= ranges[n].End
      OBVIOUS
    <3>1. ranges[1].Start <= ranges[i].Start
      <4>1. CASE i = 1
        BY <4>1, <1>5
      <4>2. CASE 1 < i
        <5>1. ranges[1].End + 1 < ranges[i].Start /\ ranges[1].Start <= ranges[1].End
          BY <4>2, <1>2, <1>5
        <5>2. ranges[1].End \in Nat /\ ranges[1].Start \in Nat /\ ranges[i].Start \in Nat
          BY <1>2, <1>5
        <5> QED BY <5>1, <5>2
      <4> QED BY <4>1, <4>2
    <3>2. ranges[i].End <= ranges[n].End
      <4>1. CASE i = n
        BY <4>1, <1>5
      <4>2. CASE i < n
        <5>1. ranges[i].End + 1 < ranges[n].Start /\ ranges[n].Start <= ranges[n].End
          BY <4>2, <1>2, <1>5
        <5>2. ranges[n].End \in Nat /\ ranges[n].Start \in Nat /\ ranges[i].End \in Nat
          BY <1>2, <1>5
        <5> QED BY <5>1, <5>2
      <4> QED BY <4>1, <4>2
    <3> QED BY <3>1, <3>2
  <2>5. ASSUME NEW x \in Nat
        PROVE  x \in AckedBy(AckFrame) <=> x \in Covered(ranges)
    <3>1. x \in Covered(ranges) <=> \E i \in 1 .. n : ranges[i].Start <= x /\ x <= ranges[i].End
      BY CoveredIff
    <3>2. (\E r \in Range(rev) : Includes(r, x))
            <=> \E i \in 1 .. n : ranges[i].Start <= x /\ x <= ranges[i].End
      <4>1. \A i \in 1 .. n : Includes(ranges[i], x) <=> ranges[i].Start <= x /\ x <= ranges[i].End
        BY <1>5 DEF Includes
      <4> QED BY <4>1, <2>3
    <3>3. \A i \in 1 .. n : ranges[i].Start <= x /\ x <= ranges[i].End
                             => x \in ranges[1].Start .. ranges[n].End
      BY <2>4, <1>2, <1>5
    <3> QED BY <3>1, <3>2, <3>3, <2>2
  <2>6. AckedBy(AckFrame) \subseteq Nat
    <3>1. ranges[1].Start \in Nat /\ ranges[n].End \in Nat
      BY <1>2, <1>5
    <3> QED BY <3>1, <2>2
  <2> QED BY <2>5, <2>6, <1>7
<1>10. n = 1 \/ n > 1
  <2>1. \A k \in Nat \ {0} : k = 1 \/ k > 1
    OBVIOUS
  <2> QED BY <2>1, <1>2, Zenon
<1> QED BY <1>8, <1>9, <1>10, Zenon

\* An ACK frame acknowledges exactly the packets the history holds.
THEOREM FrameExactness == Spec => []AckFrameExact
BY InvFrameExact, Invariance, PTL
=============================================================================
