----------------------- MODULE SentPacketHandlerProofs -----------------------
(***************************************************************************)
(* Theorems about SentPacketHandler, for every number of packets, every    *)
(* choice of lengths and every limit of tracked packets.                   *)
(***************************************************************************)
EXTENDS SentPacketHandler, Integers, ExtremaProofs, SequenceTheorems, FiniteSetTheorems

-----------------------------------------------------------------------------
(* The retransmission queue.                                                *)

\* What a queue holds besides duplicates, and that it holds nothing twice
In(q) == {q[i].num : i \in {j \in DOMAIN q : ~ q[j].dup}}
Once(q) ==
  \A i, j \in DOMAIN q : i # j /\ q[i].num = q[j].num => q[i].dup \/ q[j].dup

\* The entries queueForRetransmission appends
Fresh(s) == [i \in DOMAIN s |-> [num |-> s[i], dup |-> FALSE]]

\* InListOrder returns sequences that hold every packet of the set once.
LEMMA ListOrder ==
  ASSUME NEW packets \in SUBSET PacketNumbers, NEW s \in InListOrder(packets)
  PROVE  /\ s \in Seq(packets)
         /\ \A p \in packets : \E i \in 1 .. Len(s) : s[i] = p
         /\ \A i, j \in 1 .. Len(s) : i # j => s[i] # s[j]
<1>1. packets \in SUBSET Nat /\ \A p \in packets : p <= MaxPacketNumber
  BY SentAssumption DEF PacketNumbers
<1>2. IsFiniteSet(packets)
  BY <1>1, FS_BoundedSetOfNaturals, SentAssumption
<1>3. Cardinality(packets) \in Nat
  BY <1>2, FS_CardinalityType
<1> DEFINE n == Cardinality(packets)
<1>4. /\ s \in [1 .. n -> packets]
      /\ Range(s) = packets
      /\ \A i, j \in DOMAIN s : i < j => s[i] < s[j]
  BY DEF InListOrder
<1> HIDE DEF n
<1>5. n \in Nat
  BY <1>3 DEF n
<1>6. s \in Seq(packets) /\ Len(s) = n /\ DOMAIN s = 1 .. n
  BY <1>4, <1>5
<1>7. \A p \in packets : \E i \in 1 .. Len(s) : s[i] = p
  BY <1>4, <1>6 DEF Range
<1>8. \A i, j \in 1 .. Len(s) : i # j => s[i] # s[j]
  <2> SUFFICES ASSUME NEW i \in 1 .. n, NEW j \in 1 .. n, i # j
               PROVE  s[i] # s[j]
    BY <1>6
  <2>1. s[i] \in Nat /\ s[j] \in Nat
    BY <1>1, <1>4
  <2>2. CASE i < j
    BY <2>1, <2>2, <1>4, <1>6
  <2>3. CASE j < i
    BY <2>1, <2>3, <1>4, <1>6
  <2> QED BY <2>2, <2>3, <1>5
<1> QED BY <1>6, <1>7, <1>8

\* queueForRetransmission adds the packets to the queue, each once.
LEMMA QueueAppends ==
  ASSUME NEW packets \in SUBSET PacketNumbers, NEW s \in InListOrder(packets),
         NEW q \in Seq(QueueEntry), Once(q), packets \cap In(q) = {},
         NEW r, r = q \o Fresh(s)
  PROVE  r \in Seq(QueueEntry) /\ In(r) = In(q) \cup packets /\ Once(r)
<1> USE DEF Fresh
<1> DEFINE t == [i \in DOMAIN s |-> [num |-> s[i], dup |-> FALSE]]
           m == Len(q)
           n == Len(s)
<1>1. /\ s \in Seq(packets)
      /\ \A p \in packets : \E i \in 1 .. n : s[i] = p
      /\ \A i, j \in 1 .. n : i # j => s[i] # s[j]
  BY ListOrder
<1>2. m \in Nat /\ n \in Nat /\ DOMAIN s = 1 .. n /\ DOMAIN q = 1 .. m
  BY <1>1
<1>3. \A i \in 1 .. n : s[i] \in packets
  BY <1>1
<1>4. t \in Seq(QueueEntry) /\ Len(t) = n
  <2>1. \A i \in 1 .. n : [num |-> s[i], dup |-> FALSE] \in QueueEntry
    <3>1. \A i \in 1 .. n : s[i] \in PacketNumbers
      BY <1>3
    <3> QED BY <3>1 DEF QueueEntry
  <2>2. t \in [1 .. n -> QueueEntry]
    BY <2>1, <1>2
  <2> HIDE DEF t
  <2> QED BY <2>2, <1>2
<1>5. \A i \in 1 .. n : t[i].num = s[i] /\ ~ t[i].dup
  BY <1>2
<1> HIDE DEF t
<1>6. /\ r \in Seq(QueueEntry) /\ Len(r) = m + n
      /\ \A i \in 1 .. m + n : r[i] = IF i <= m THEN q[i] ELSE t[i - m]
  <2>1. r = q \o t
    BY DEF t
  <2> HIDE DEF m, n
  <2>2. Len(q) = m /\ Len(t) = n
    BY <1>4 DEF m
  <2>3. /\ q \o t \in Seq(QueueEntry)
        /\ Len(q \o t) = Len(q) + Len(t)
        /\ \A i \in 1 .. Len(q) + Len(t) :
             (q \o t)[i] = IF i <= Len(q) THEN q[i] ELSE t[i - Len(q)]
    BY <1>4, ConcatProperties, Zenon
  <2> QED BY <2>1, <2>2, <2>3, Zenon
<1> HIDE DEF m, n
<1>7. DOMAIN r = 1 .. m + n
  BY <1>6, <1>2
<1>8. \A i \in 1 .. m : i \in DOMAIN r /\ r[i] = q[i]
  BY <1>6, <1>7, <1>2
<1>9. \A i \in 1 .. n : m + i \in DOMAIN r /\ r[m + i].num = s[i] /\ ~ r[m + i].dup
  <2> SUFFICES ASSUME NEW i \in 1 .. n
               PROVE  m + i \in DOMAIN r /\ r[m + i].num = s[i] /\ ~ r[m + i].dup
    OBVIOUS
  <2>1. m + i \in 1 .. m + n /\ ~ (m + i <= m) /\ (m + i) - m = i
    BY <1>2
  <2>2. r[m + i] = t[i]
    BY <2>1, <1>6
  <2> QED BY <2>1, <2>2, <1>5, <1>7
<1>10. \A k \in DOMAIN r : k \in 1 .. m \/ \E i \in 1 .. n : k = m + i
  <2> SUFFICES ASSUME NEW k \in 1 .. m + n, k \notin 1 .. m
               PROVE  \E i \in 1 .. n : k = m + i
    BY <1>7
  <2>1. k - m \in 1 .. n /\ k = m + (k - m)
    BY <1>2
  <2> QED BY <2>1
<1>11. In(r) \subseteq In(q) \cup packets
  <2> SUFFICES ASSUME NEW k \in DOMAIN r, ~ r[k].dup
               PROVE  r[k].num \in In(q) \cup packets
    BY DEF In
  <2>1. CASE k \in 1 .. m
    BY <2>1, <1>8, <1>2 DEF In
  <2>2. ASSUME NEW i \in 1 .. n, k = m + i
        PROVE  r[k].num \in packets
    BY <2>2, <1>9, <1>3
  <2> QED BY <2>1, <2>2, <1>10
<1>12. In(q) \cup packets \subseteq In(r)
  <2>1. In(q) \subseteq In(r)
    BY <1>8, <1>2 DEF In
  <2>2. ASSUME NEW p \in packets PROVE p \in In(r)
    <3>1. PICK i \in 1 .. n : s[i] = p
      BY <1>1
    <3> QED BY <3>1, <1>9 DEF In
  <2> QED BY <2>1, <2>2
<1>13. Once(r)
  <2>1. \A i \in 1 .. m : q[i].dup \/ q[i].num \notin packets
    BY <1>2 DEF In
  <2> SUFFICES ASSUME NEW k \in DOMAIN r, NEW l \in DOMAIN r, k # l, r[k].num = r[l].num,
                      ~ r[k].dup, ~ r[l].dup
               PROVE  FALSE
    BY DEF Once
  <2>2. CASE k \in 1 .. m /\ l \in 1 .. m
    BY <2>2, <1>8, <1>2 DEF Once
  <2>3. ASSUME NEW i \in 1 .. n, k = m + i, l \in 1 .. m PROVE FALSE
    BY <2>1, <2>3, <1>8, <1>9, <1>3
  <2>4. ASSUME NEW i \in 1 .. n, l = m + i, k \in 1 .. m PROVE FALSE
    BY <2>1, <2>4, <1>8, <1>9, <1>3
  <2>5. ASSUME NEW i \in 1 .. n, NEW j \in 1 .. n, k = m + i, l = m + j PROVE FALSE
    <3>1. i # j
      BY <2>5
    <3>2. s[i] = s[j]
      BY <2>5, <1>9
    <3> QED BY <3>1, <3>2, <1>1, Zenon
  <2> QED BY <2>2, <2>3, <2>4, <2>5, <1>10
<1> QED BY <1>6, <1>11, <1>12, <1>13

\* Taking the first entry removes its packet, and only that one.
LEMMA QueueTail ==
  ASSUME NEW q \in Seq(QueueEntry), q # <<>>, Once(q)
  PROVE  /\ Tail(q) \in Seq(QueueEntry) /\ Once(Tail(q))
         /\ Head(q).dup => In(Tail(q)) = In(q)
         /\ ~ Head(q).dup => /\ In(Tail(q)) = In(q) \ {Head(q).num}
                             /\ Head(q).num \in In(q)
<1> DEFINE m == Len(q)
           t == Tail(q)
<1>1. /\ m \in Nat /\ m > 0 /\ DOMAIN q = 1 .. m
      /\ t \in Seq(QueueEntry) /\ DOMAIN t = 1 .. m - 1
      /\ \A i \in 1 .. m - 1 : t[i] = q[i + 1]
      /\ Head(q) = q[1]
  OBVIOUS
<1> HIDE DEF m, t
<1>2. \A i \in DOMAIN t : i + 1 \in DOMAIN q /\ i + 1 # 1 /\ t[i] = q[i + 1]
  BY <1>1
<1>3. \A k \in DOMAIN q : k = 1 \/ \E i \in DOMAIN t : k = i + 1
  <2> SUFFICES ASSUME NEW k \in 1 .. m, k # 1 PROVE \E i \in 1 .. m - 1 : k = i + 1
    BY <1>1
  <2>1. k - 1 \in 1 .. m - 1 /\ k = (k - 1) + 1
    BY <1>1
  <2> QED BY <2>1
<1>4. Once(t)
  <2> SUFFICES ASSUME NEW i \in DOMAIN t, NEW j \in DOMAIN t, i # j, t[i].num = t[j].num
               PROVE  t[i].dup \/ t[j].dup
    BY DEF Once
  <2>1. i + 1 # j + 1
    BY <1>1
  <2> QED BY <2>1, <1>2 DEF Once
<1>5. 1 \in DOMAIN q
  BY <1>1
<1>6. In(t) \subseteq In(q)
  BY <1>2 DEF In
<1>7. \A p \in In(q) : p \in In(t) \/ (~ q[1].dup /\ p = q[1].num)
  BY <1>2, <1>3 DEF In
<1>8. ~ q[1].dup => q[1].num \notin In(t)
  BY <1>2, <1>5 DEF In, Once
<1>9. ~ q[1].dup => q[1].num \in In(q)
  BY <1>5 DEF In
<1> QED BY <1>1, <1>4, <1>6, <1>7, <1>8, <1>9 DEF t

\* A duplicate changes neither what is queued nor that it is queued once.
LEMMA QueueDuplicate ==
  ASSUME NEW q \in Seq(QueueEntry), Once(q), NEW p \in PacketNumbers
  PROVE  LET r == Append(q, [num |-> p, dup |-> TRUE])
         IN r \in Seq(QueueEntry) /\ In(r) = In(q) /\ Once(r)
<1> DEFINE m == Len(q)
           e == [num |-> p, dup |-> TRUE]
           r == Append(q, e)
<1>1. e \in QueueEntry /\ e.dup
  BY DEF QueueEntry
<1> HIDE DEF e
<1>2. /\ m \in Nat /\ DOMAIN q = 1 .. m
      /\ r \in Seq(QueueEntry) /\ DOMAIN r = 1 .. m + 1
      /\ \A i \in 1 .. m : r[i] = q[i]
      /\ r[m + 1] = e
  BY <1>1
<1> HIDE DEF m, r
<1>3. \A i \in DOMAIN r : (i \in DOMAIN q /\ r[i] = q[i]) \/ r[i].dup
  BY <1>1, <1>2
<1>4. \A i \in DOMAIN q : i \in DOMAIN r /\ r[i] = q[i]
  BY <1>2
<1>5. In(r) = In(q)
  BY <1>3, <1>4 DEF In
<1>6. Once(r)
  BY <1>3 DEF Once
<1> QED BY <1>2, <1>5, <1>6 DEF r, e

-----------------------------------------------------------------------------
(* The inductive invariant.                                                 *)

\* The numbers a path keeps never run ahead of the last packet it sent.
Numbers ==
  /\ lastSentPacketNumber \in Nat /\ lastSentPacketNumber <= MaxPacketNumber
  /\ packetHistory \in SUBSET (1 .. lastSentPacketNumber)
  /\ LargestAcked \in Nat /\ LargestAcked <= lastSentPacketNumber
  /\ nextLeastUnacked \in Nat /\ largestLeastUnackedSent \in Nat
  /\ length \in [PacketNumbers -> Nat]
  /\ \A p \in PacketNumbers : p > lastSentPacketNumber => length[p] = 0
  /\ retransmissionQueue \in Seq(QueueEntry)

Inv == Numbers /\ PacketsAccounted /\ AlarmWhileOutstanding /\ StopWaitingWritable

\* The variables PacketsAccounted is about
accountedVars == <<lastSentPacketNumber, packetHistory, retransmissionQueue, length, acked, retransmitted>>

\* The queue of PacketsAccounted in the terms of the lemmas above
LEMMA QueuedIsIn == Queued = In(retransmissionQueue)
BY DEF Queued, In

\* The greatest of some packets that were sent is one of them.
LEMMA MaxIn ==
  ASSUME NEW n \in Nat, NEW S \in SUBSET (1 .. n), S # {}
  PROVE  Max(S) \in S
<1>1. S \in SUBSET Nat /\ \A y \in S : y <= n
  OBVIOUS
<1> QED BY <1>1, MaxProps

\* The stop waiting manager never gets ahead of the packets that were sent.
LEMMA Raised ==
  ASSUME NEW n \in Nat, NEW packets \in SUBSET (1 .. n), nextLeastUnacked \in Nat, nextLeastUnacked <= n + 1
  PROVE  /\ RaisedLeastUnacked(packets) \in Nat
         /\ RaisedLeastUnacked(packets) >= nextLeastUnacked
         /\ RaisedLeastUnacked(packets) <= n + 1
<1> DEFINE S == {nextLeastUnacked} \cup {p + 1 : p \in packets}
<1>1. S \in SUBSET Nat /\ \A y \in S : y <= n + 1
  <2>1. \A p \in packets : p + 1 \in Nat /\ p + 1 <= n + 1
    OBVIOUS
  <2> QED BY <2>1
<1>2. nextLeastUnacked \in S
  OBVIOUS
<1>3. RaisedLeastUnacked(packets) = Max(S)
  BY DEF RaisedLeastUnacked
<1>4. n + 1 \in Nat
  OBVIOUS
<1> HIDE DEF S
<1>5. S # {}
  BY <1>2
<1>6. Max(S) \in S /\ \A y \in S : Max(S) >= y
  BY <1>1, <1>4, <1>5, MaxProps
<1> QED BY <1>1, <1>2, <1>3, <1>6

\* Acking the packets outside history and queueing some of those inside moves
\* every packet from one place to exactly one other.
LEMMA Moves ==
  ASSUME Numbers, PacketsAccounted,
         NEW history \in SUBSET packetHistory, NEW packets \in SUBSET history, NEW bytes,
         queueForRetransmission(packets, history, bytes),
         acked' = acked \cup (packetHistory \ history),
         length' = length, retransmitted' = retransmitted
  PROVE  /\ PacketsAccounted'
         /\ retransmissionQueue' \in Seq(QueueEntry)
         /\ packetHistory' = history \ packets
<1>1. PICK s \in InListOrder(packets) :
        retransmissionQueue' =
          retransmissionQueue \o [i \in DOMAIN s |-> [num |-> s[i], dup |-> FALSE]]
  BY DEF queueForRetransmission
<1>2. packetHistory' = history \ packets
  BY DEF queueForRetransmission
<1>3. packets \in SUBSET PacketNumbers
  BY SentAssumption DEF Numbers, PacketNumbers
<1>4. retransmissionQueue \in Seq(QueueEntry) /\ Once(retransmissionQueue)
  BY DEF Numbers, PacketsAccounted, Once
<1> DEFINE q == In(retransmissionQueue)
           qq == In(retransmissionQueue')
<1>5. /\ {p \in PacketNumbers : length[p] # 0} = packetHistory \cup acked \cup q \cup retransmitted
      /\ packetHistory \cap acked = {}
      /\ (packetHistory \cup acked) \cap (q \cup retransmitted) = {}
      /\ q \cap retransmitted = {}
  BY QueuedIsIn DEF PacketsAccounted
<1>6. packets \cap q = {}
  <2> HIDE DEF q
  <2> QED BY <1>5
<1>7. /\ retransmissionQueue' \in Seq(QueueEntry)
      /\ qq = q \cup packets /\ Once(retransmissionQueue')
  <2> DEFINE rq == retransmissionQueue
             rr == retransmissionQueue'
  <2>1. packets \cap In(rq) = {}
    BY <1>6
  <2>2. rr = rq \o Fresh(s)
    BY <1>1 DEF Fresh
  <2>3. rq \in Seq(QueueEntry) /\ Once(rq)
    BY <1>4
  <2> HIDE DEF rq, rr
  <2>4. rr \in Seq(QueueEntry) /\ In(rr) = In(rq) \cup packets /\ Once(rr)
    BY <1>1, <1>3, <2>1, <2>2, <2>3, QueueAppends
  <2> QED BY <2>4 DEF rq, rr
<1>8. Queued' = qq
  BY DEF Queued, In
<1> HIDE DEF q, qq
<1>9. /\ packetHistory \cup acked \cup q \cup retransmitted
           = packetHistory' \cup acked' \cup qq \cup retransmitted
      /\ packetHistory' \cap acked' = {}
      /\ (packetHistory' \cup acked') \cap (qq \cup retransmitted) = {}
      /\ qq \cap retransmitted = {}
  BY <1>2, <1>5, <1>7
<1>10. {p \in PacketNumbers : length'[p] # 0} = packetHistory' \cup acked' \cup qq \cup retransmitted
  BY <1>5, <1>9
<1>11. PacketsAccounted'
  BY <1>7, <1>8, <1>9, <1>10, Zenon DEF PacketsAccounted, Once, PacketNumbers
<1> QED BY <1>2, <1>7, <1>11

\* Nothing to account for changes.
LEMMA AccountedUnchanged ==
  ASSUME PacketsAccounted, UNCHANGED accountedVars
  PROVE  PacketsAccounted'
BY DEF PacketsAccounted, Queued, accountedVars, PacketNumbers

-----------------------------------------------------------------------------
(* Every action keeps the invariant.                                        *)

\* A new path satisfies the invariant.
LEMMA InitInv == Init => Inv
<1> SUFFICES ASSUME Init PROVE Inv
  OBVIOUS
<1> USE DEF Init
<1>1. Numbers
  BY SentAssumption DEF Numbers, PacketNumbers
<1>2. PacketsAccounted
  <2>1. Queued = {}
    BY DEF Queued
  <2>2. {p \in PacketNumbers : length[p] # 0} = {}
    OBVIOUS
  <2> QED BY <2>1, <2>2 DEF PacketsAccounted
<1>3. AlarmWhileOutstanding
  BY DEF AlarmWhileOutstanding
<1>4. StopWaitingWritable
  BY DEF StopWaitingWritable
<1> QED BY <1>1, <1>2, <1>3, <1>4 DEF Inv

\* A new packet has a number nothing else has, and the alarm is set for it.
LEMMA SentPacketInv ==
  ASSUME Inv, err = "none", phase = "open",
         NEW p \in NextNumbers, NEW len \in PacketLengths[p] \cup {0}, SentPacket(p, len)
  PROVE  Inv'
<1>1. p \in PacketNumbers /\ p \in Nat /\ p <= MaxPacketNumber
  BY SentAssumption DEF NextNumbers, PacketNumbers
<1>2. len \in Nat
  <2>1. PacketLengths[p] \in SUBSET (Nat \ {0})
    BY <1>1, SentAssumption DEF PacketNumbers
  <2> QED BY <2>1
<1>3. /\ p > lastSentPacketNumber /\ lastSentPacketNumber' = p
      /\ length' = [length EXCEPT ![p] = len]
      /\ packetHistory' = IF len # 0 THEN packetHistory \cup {p} ELSE packetHistory
      /\ UNCHANGED <<LargestAcked, retransmissionQueue, lossTime, err, phase, acked, retransmitted>>
      /\ UNCHANGED <<nextLeastUnacked, largestLeastUnackedSent>>
  BY DEF SentPacket, stopWaiting
<1>4. Numbers /\ PacketsAccounted /\ AlarmWhileOutstanding /\ StopWaitingWritable
  BY DEF Inv
<1>5. length \in [PacketNumbers -> Nat] /\ length[p] = 0
  BY <1>1, <1>3, <1>4 DEF Numbers
<1>6. length' \in [PacketNumbers -> Nat] /\ length'[p] = len
      /\ \A r \in PacketNumbers : r # p => length'[r] = length[r]
  BY <1>1, <1>2, <1>3, <1>5
<1>7. Numbers'
  <2>1. packetHistory' \in SUBSET (1 .. p)
    BY <1>1, <1>3, <1>4 DEF Numbers
  <2>2. \A r \in PacketNumbers : r > p => length'[r] = 0
    <3> SUFFICES ASSUME NEW r \in PacketNumbers, r > p PROVE length'[r] = 0
      OBVIOUS
    <3>1. r # p /\ r > lastSentPacketNumber
      BY <1>1, <1>3, <1>4 DEF Numbers, PacketNumbers
    <3> QED BY <3>1, <1>4, <1>6 DEF Numbers
  <2>3. LargestAcked <= p
    BY <1>1, <1>3, <1>4 DEF Numbers
  <2> QED BY <1>1, <1>3, <1>4, <1>6, <2>1, <2>2, <2>3 DEF Numbers, PacketNumbers
<1>8. PacketsAccounted'
  <2>1. Queued' = Queued
    BY <1>3 DEF Queued
  <2>2. {r \in PacketNumbers : length'[r] # 0}
          = {r \in PacketNumbers : length[r] # 0} \cup (IF len # 0 THEN {p} ELSE {})
    BY <1>1, <1>5, <1>6
  <2>3. p \notin packetHistory \cup acked \cup Queued \cup retransmitted
    BY <1>4, <1>5 DEF PacketsAccounted
  <2>4. {r \in PacketNumbers : length'[r] # 0}
          = packetHistory' \cup acked' \cup Queued' \cup retransmitted'
    BY <1>3, <1>4, <2>1, <2>2 DEF PacketsAccounted
  <2>5. /\ packetHistory' \cap acked' = {}
        /\ (packetHistory' \cup acked') \cap (Queued' \cup retransmitted') = {}
        /\ Queued' \cap retransmitted' = {}
    BY <1>3, <1>4, <2>1, <2>3 DEF PacketsAccounted
  <2> QED BY <1>3, <1>4, <2>4, <2>5 DEF PacketsAccounted, PacketNumbers
<1>9. AlarmWhileOutstanding'
  <2>1. alarm' <=> packetHistory' # {}
    BY DEF SentPacket, updateLossDetectionAlarm
  <2>2. lossTime <=> \E r \in packetHistory : r <= LargestAcked
    BY <1>4 DEF AlarmWhileOutstanding
  <2>3. ~ (p <= LargestAcked)
    BY <1>1, <1>3, <1>4 DEF Numbers
  <2>4. lossTime' <=> \E r \in packetHistory' : r <= LargestAcked'
    BY <1>3, <2>2, <2>3
  <2> QED BY <2>1, <2>4 DEF AlarmWhileOutstanding
<1>10. StopWaitingWritable'
  BY <1>1, <1>3, <1>4 DEF StopWaitingWritable, Numbers
<1> QED BY <1>7, <1>8, <1>9, <1>10 DEF Inv

\* Packets leave the history by acks and losses, up to the new LargestAcked.
LEMMA ReceivedAckInv ==
  ASSUME Inv, err = "none", phase = "open",
         NEW frame \in Frames, NEW w, ReceivedAck(frame, w)
  PROVE  Inv'
<1> DEFINE newly == NewlyAcked(frame)
           history == packetHistory \ newly
           top == Max(frame)
<1>1. Numbers /\ PacketsAccounted /\ AlarmWhileOutstanding /\ StopWaitingWritable
  BY DEF Inv
<1>2. PICK lost \in SUBSET history :
        /\ detectLostPackets(lost, history, bytesInFlight - Bytes(newly))
        /\ nextLeastUnacked' = RaisedLeastUnacked(lost \cup {top})
  BY DEF ReceivedAck
<1>3. top \in Nat /\ top >= 1 /\ top <= lastSentPacketNumber
  <2>1. frame \in SUBSET (1 .. MaxPacketNumber) /\ frame # {}
    BY DEF Frames, PacketNumbers
  <2>2. top \in frame
    BY <2>1, MaxIn, SentAssumption
  <2>3. top <= lastSentPacketNumber
    BY DEF ReceivedAck
  <2> HIDE DEF top
  <2> QED BY <2>1, <2>2, <2>3, SentAssumption
<1>4. /\ LargestAcked' = top
      /\ acked' = acked \cup newly
      /\ alarm' = (packetHistory' # {})
      /\ UNCHANGED <<lastSentPacketNumber, largestLeastUnackedSent, err, phase, length, retransmitted>>
  BY DEF ReceivedAck, updateLossDetectionAlarm
<1>5. newly \in SUBSET packetHistory
  BY DEF NewlyAcked
<1>6. /\ lost \in OlderThanDelay({p \in history : p <= LargestAcked'})
      /\ queueForRetransmission(lost, history, bytesInFlight - Bytes(newly))
      /\ lossTime' = (lost # {p \in history : p <= LargestAcked'})
  BY <1>2 DEF detectLostPackets
<1>7. lost \in SUBSET {p \in history : p <= LargestAcked'}
  BY <1>6 DEF OlderThanDelay
<1> HIDE DEF newly, top
<1>8. history \in SUBSET packetHistory /\ acked' = acked \cup (packetHistory \ history)
  BY <1>4, <1>5
<1> HIDE DEF history
<1>9. /\ PacketsAccounted' /\ retransmissionQueue' \in Seq(QueueEntry)
      /\ packetHistory' = history \ lost
  BY <1>1, <1>4, <1>6, <1>8, Moves
<1>10. lost \cup {top} \in SUBSET (1 .. lastSentPacketNumber)
  BY <1>1, <1>3, <1>8 DEF Numbers
<1>11. /\ nextLeastUnacked' \in Nat /\ nextLeastUnacked' >= nextLeastUnacked
       /\ nextLeastUnacked' <= lastSentPacketNumber + 1
  BY <1>1, <1>2, <1>10, Raised DEF Numbers, StopWaitingWritable
<1>12. Numbers'
  BY <1>1, <1>3, <1>4, <1>8, <1>9, <1>11 DEF Numbers, PacketNumbers
<1>13. AlarmWhileOutstanding'
  <2>1. lossTime' <=> \E p \in packetHistory' : p <= LargestAcked'
    BY <1>6, <1>7, <1>9
  <2> QED BY <1>4, <2>1, Zenon DEF AlarmWhileOutstanding
<1>14. StopWaitingWritable'
  BY <1>1, <1>4, <1>11 DEF StopWaitingWritable, Numbers
<1> QED BY <1>9, <1>12, <1>13, <1>14 DEF Inv

\* The alarm queues lost packets, a probe or all packets; it stays set exactly
\* while packets remain.
LEMMA OnAlarmInv ==
  ASSUME Inv, err = "none", OnAlarm
  PROVE  Inv'
<1>1. Numbers /\ PacketsAccounted /\ AlarmWhileOutstanding /\ StopWaitingWritable
  BY DEF Inv
<1>2. /\ alarm /\ phase \in {"open", "closing"}
      /\ phase' = "open" => phase = "open"
  BY DEF OnAlarm, TimerFires
<1>3. CASE OnAlarmIdle
  <2>1. /\ packetHistory = {} /\ ~ alarm'
        /\ UNCHANGED <<lastSentPacketNumber, LargestAcked, largestLeastUnackedSent, err, length, acked,
                       retransmitted, packetHistory, retransmissionQueue, nextLeastUnacked>>
    BY <1>3 DEF OnAlarmIdle, AlarmFrame
  <2>2. phase # "open"
    BY <1>1, <1>2, <2>1 DEF AlarmWhileOutstanding
  <2>3. AlarmWhileOutstanding'
    BY <1>2, <2>2 DEF AlarmWhileOutstanding
  <2>4. PacketsAccounted'
    BY <1>1, <2>1, AccountedUnchanged DEF accountedVars
  <2>5. Numbers' /\ StopWaitingWritable'
    BY <1>1, <2>1 DEF Numbers, StopWaitingWritable, PacketNumbers
  <2> QED BY <2>3, <2>4, <2>5 DEF Inv
<1>4. ASSUME NEW packets \in SUBSET packetHistory,
             queueForRetransmission(packets, packetHistory, bytesInFlight),
             nextLeastUnacked' = RaisedLeastUnacked(packets), AlarmFrame,
             alarm' = (packetHistory' # {}),
             phase = "open" => (lossTime' <=> \E p \in packetHistory \ packets : p <= LargestAcked)
      PROVE  Inv'
  <2>1. UNCHANGED <<lastSentPacketNumber, LargestAcked, largestLeastUnackedSent, err, length, acked,
                    retransmitted>>
    BY <1>4 DEF AlarmFrame
  <2>2. acked' = acked \cup (packetHistory \ packetHistory)
    BY <2>1
  <2>3. /\ PacketsAccounted' /\ retransmissionQueue' \in Seq(QueueEntry)
        /\ packetHistory' = packetHistory \ packets
    BY <1>1, <1>4, <2>1, <2>2, Moves
  <2>4. packets \in SUBSET (1 .. lastSentPacketNumber)
    BY <1>1 DEF Numbers
  <2>5. /\ nextLeastUnacked' \in Nat /\ nextLeastUnacked' >= nextLeastUnacked
        /\ nextLeastUnacked' <= lastSentPacketNumber + 1
    BY <1>1, <1>4, <2>4, Raised DEF Numbers, StopWaitingWritable
  <2>6. Numbers'
    BY <1>1, <2>1, <2>3, <2>5 DEF Numbers, PacketNumbers
  <2>7. AlarmWhileOutstanding'
    BY <1>2, <1>4, <2>1, <2>3, Zenon DEF AlarmWhileOutstanding
  <2>8. StopWaitingWritable'
    BY <1>1, <2>1, <2>5 DEF StopWaitingWritable, Numbers
  <2> QED BY <2>3, <2>6, <2>7, <2>8 DEF Inv
<1>5. CASE packetHistory # {} /\ OnAlarmLoss /\ updateLossDetectionAlarm
  <2>1. PICK lost \in SUBSET packetHistory :
          /\ detectLostPackets(lost, packetHistory, bytesInFlight)
          /\ nextLeastUnacked' = RaisedLeastUnacked(lost)
    BY <1>5 DEF OnAlarmLoss
  <2>2. AlarmFrame /\ LargestAcked' = LargestAcked /\ alarm' = (packetHistory' # {})
    BY <1>5 DEF OnAlarmLoss, AlarmFrame, updateLossDetectionAlarm
  <2>3. /\ lost \in OlderThanDelay({p \in packetHistory : p <= LargestAcked})
        /\ queueForRetransmission(lost, packetHistory, bytesInFlight)
        /\ lossTime' = (lost # {p \in packetHistory : p <= LargestAcked})
    BY <2>1, <2>2 DEF detectLostPackets
  <2>4. lost \in SUBSET {p \in packetHistory : p <= LargestAcked}
    BY <2>3 DEF OlderThanDelay
  <2>5. lossTime' <=> \E p \in packetHistory \ lost : p <= LargestAcked
    BY <2>3, <2>4
  <2> QED BY <1>4, <2>1, <2>2, <2>3, <2>5
<1>6. ASSUME NEW packets \in SUBSET packetHistory, ~ lossTime, UNCHANGED lossTime
      PROVE  phase = "open" => (lossTime' <=> \E p \in packetHistory \ packets : p <= LargestAcked)
  <2>1. phase = "open" => ~ \E p \in packetHistory : p <= LargestAcked
    BY <1>1, <1>6, Zenon DEF AlarmWhileOutstanding
  <2> QED BY <1>6, <2>1
<1>7. CASE packetHistory # {} /\ OnAlarmTLP /\ updateLossDetectionAlarm
  <2> DEFINE packets == {Max(packetHistory)}
  <2>1. packets \in SUBSET packetHistory
    BY <1>1, <1>7, MaxIn DEF Numbers
  <2>2. /\ queueForRetransmission(packets, packetHistory, bytesInFlight)
        /\ nextLeastUnacked' = RaisedLeastUnacked(packets)
        /\ AlarmFrame /\ ~ lossTime /\ UNCHANGED lossTime /\ alarm' = (packetHistory' # {})
    BY <1>7 DEF OnAlarmTLP, updateLossDetectionAlarm
  <2> HIDE DEF packets
  <2> QED BY <1>4, <1>6, <2>1, <2>2
<1>8. CASE packetHistory # {} /\ OnAlarmRTO /\ updateLossDetectionAlarm
  <2>1. PICK packets \in {packetHistory, OldestTwo} :
          /\ queueForRetransmission(packets, packetHistory, bytesInFlight)
          /\ nextLeastUnacked' = RaisedLeastUnacked(packets)
    BY <1>8 DEF OnAlarmRTO
  <2>2. packets \in SUBSET packetHistory
    BY DEF OldestTwo
  <2>3. AlarmFrame /\ ~ lossTime /\ UNCHANGED lossTime /\ alarm' = (packetHistory' # {})
    BY <1>8 DEF OnAlarmRTO, updateLossDetectionAlarm
  <2> QED BY <1>4, <1>6, <2>1, <2>2, <2>3
<1> QED BY <1>3, <1>5, <1>7, <1>8 DEF OnAlarm

\* A CLOSE_PATH frame is handled like an ACK; the path is not open any more.
LEMMA ReceivedClosePathInv ==
  ASSUME Inv, NEW frame \in Frames, NEW w, ReceivedClosePath(frame, w)
  PROVE  Inv'
<1> DEFINE newly == NewlyAcked(frame)
           rest == packetHistory \ newly
           lost == {p \in rest : p <= LargestAcked}
<1>1. Numbers /\ PacketsAccounted /\ AlarmWhileOutstanding /\ StopWaitingWritable
  BY DEF Inv
<1>2. /\ UNCHANGED <<lastSentPacketNumber, LargestAcked, largestLeastUnackedSent, err, length, retransmitted>>
      /\ phase' # "open"
  BY DEF ReceivedClosePath
<1>3. AlarmWhileOutstanding'
  BY <1>2 DEF AlarmWhileOutstanding
<1>4. \/ UNCHANGED <<packetHistory, acked, retransmissionQueue, nextLeastUnacked>>
      \/ /\ acked' = acked \cup newly
         /\ queueForRetransmission(lost, rest, bytesInFlight - Bytes(newly))
         /\ nextLeastUnacked' = RaisedLeastUnacked(lost)
  BY DEF ReceivedClosePath
<1>5. CASE UNCHANGED <<packetHistory, acked, retransmissionQueue, nextLeastUnacked>>
  <2>1. PacketsAccounted'
    BY <1>1, <1>2, <1>5, AccountedUnchanged DEF accountedVars
  <2>2. Numbers' /\ StopWaitingWritable'
    BY <1>1, <1>2, <1>5 DEF Numbers, StopWaitingWritable, PacketNumbers
  <2> QED BY <1>3, <2>1, <2>2 DEF Inv
<1>6. CASE /\ acked' = acked \cup newly
           /\ queueForRetransmission(lost, rest, bytesInFlight - Bytes(newly))
           /\ nextLeastUnacked' = RaisedLeastUnacked(lost)
  <2>1. newly \in SUBSET packetHistory
    BY DEF NewlyAcked
  <2>2. lost \in SUBSET rest
    OBVIOUS
  <2> HIDE DEF newly, lost
  <2>3. rest \in SUBSET packetHistory /\ acked' = acked \cup (packetHistory \ rest)
    BY <1>6, <2>1
  <2> HIDE DEF rest
  <2>4. /\ PacketsAccounted' /\ retransmissionQueue' \in Seq(QueueEntry)
        /\ packetHistory' = rest \ lost
    BY <1>1, <1>2, <1>6, <2>2, <2>3, Moves
  <2>5. lost \in SUBSET (1 .. lastSentPacketNumber)
    BY <1>1, <2>2, <2>3 DEF Numbers
  <2>6. /\ nextLeastUnacked' \in Nat /\ nextLeastUnacked' >= nextLeastUnacked
        /\ nextLeastUnacked' <= lastSentPacketNumber + 1
    BY <1>1, <1>6, <2>5, Raised DEF Numbers, StopWaitingWritable
  <2>7. Numbers'
    BY <1>1, <1>2, <2>2, <2>3, <2>4, <2>6 DEF Numbers, PacketNumbers
  <2>8. StopWaitingWritable'
    BY <1>1, <1>2, <2>6 DEF StopWaitingWritable, Numbers
  <2> QED BY <1>3, <2>4, <2>7, <2>8 DEF Inv
<1> QED BY <1>4, <1>5, <1>6

\* The next packet leaves the queue for the scheduler.
LEMMA DequeueInv ==
  ASSUME Inv, DequeuePacketForRetransmission
  PROVE  Inv'
<1>1. Numbers /\ PacketsAccounted /\ AlarmWhileOutstanding /\ StopWaitingWritable
  BY DEF Inv
<1> DEFINE q == retransmissionQueue
           r == retransmissionQueue'
<1>2. /\ q # <<>> /\ r = Tail(q)
      /\ retransmitted' = IF Head(q).dup THEN retransmitted ELSE retransmitted \cup {Head(q).num}
      /\ UNCHANGED <<lastSentPacketNumber, LargestAcked, packetHistory, lossTime, alarm,
                     nextLeastUnacked, largestLeastUnackedSent, err, phase, length, acked>>
  BY DEF DequeuePacketForRetransmission, stopWaiting
<1>3. q \in Seq(QueueEntry) /\ Once(q)
  BY <1>1 DEF Numbers, PacketsAccounted, Once
<1>4. Queued = In(q) /\ Queued' = In(r)
  BY DEF Queued, In
<1> HIDE DEF q, r
<1>5. /\ r \in Seq(QueueEntry) /\ Once(r)
      /\ Head(q).dup => In(r) = In(q)
      /\ ~ Head(q).dup => In(r) = In(q) \ {Head(q).num} /\ Head(q).num \in In(q)
  BY <1>2, <1>3, QueueTail
<1>6. /\ packetHistory \cup acked \cup Queued \cup retransmitted
           = packetHistory' \cup acked' \cup Queued' \cup retransmitted'
      /\ packetHistory' \cap acked' = {}
      /\ (packetHistory' \cup acked') \cap (Queued' \cup retransmitted') = {}
      /\ Queued' \cap retransmitted' = {}
  BY <1>1, <1>2, <1>4, <1>5 DEF PacketsAccounted
<1>7. PacketsAccounted'
  <2>1. {p \in PacketNumbers : length'[p] # 0}
          = packetHistory' \cup acked' \cup Queued' \cup retransmitted'
    BY <1>1, <1>2, <1>6 DEF PacketsAccounted
  <2> QED BY <1>5, <1>6, <2>1, Zenon DEF PacketsAccounted, Once, PacketNumbers, r
<1>8. Numbers'
  BY <1>1, <1>2, <1>5 DEF Numbers, PacketNumbers, r
<1>9. AlarmWhileOutstanding' /\ StopWaitingWritable'
  BY <1>1, <1>2 DEF AlarmWhileOutstanding, StopWaitingWritable
<1> QED BY <1>7, <1>8, <1>9 DEF Inv

\* A copy of a packet changes nothing about the packet.
LEMMA DuplicateInv ==
  ASSUME Inv, DuplicatePacket
  PROVE  Inv'
<1>1. Numbers /\ PacketsAccounted /\ AlarmWhileOutstanding /\ StopWaitingWritable
  BY DEF Inv
<1> DEFINE q == retransmissionQueue
           r == retransmissionQueue'
<1>2. /\ lastSentPacketNumber > 0
      /\ r = Append(q, [num |-> lastSentPacketNumber, dup |-> TRUE])
      /\ UNCHANGED <<lastSentPacketNumber, LargestAcked, packetHistory, lossTime, alarm, nextLeastUnacked,
                     largestLeastUnackedSent, err, phase, length, acked, retransmitted>>
  BY DEF DuplicatePacket, stopWaiting
<1>3. q \in Seq(QueueEntry) /\ Once(q)
  BY <1>1 DEF Numbers, PacketsAccounted, Once
<1>4. Queued = In(q) /\ Queued' = In(r)
  BY DEF Queued, In
<1> HIDE DEF q, r
<1>5. lastSentPacketNumber \in PacketNumbers
  BY <1>1, <1>2, SentAssumption DEF Numbers, PacketNumbers
<1>6. r \in Seq(QueueEntry) /\ In(r) = In(q) /\ Once(r)
  BY <1>2, <1>3, <1>5, QueueDuplicate
<1>7. PacketsAccounted'
  <2>1. Queued' = Queued
    BY <1>4, <1>6
  <2>2. {p \in PacketNumbers : length'[p] # 0} = {p \in PacketNumbers : length[p] # 0}
    BY <1>2
  <2> QED BY <1>1, <1>2, <1>6, <2>1, <2>2, Zenon DEF PacketsAccounted, Once, PacketNumbers, r
<1>8. Numbers'
  BY <1>1, <1>2, <1>6 DEF Numbers, PacketNumbers, r
<1>9. AlarmWhileOutstanding' /\ StopWaitingWritable'
  BY <1>1, <1>2 DEF AlarmWhileOutstanding, StopWaitingWritable
<1> QED BY <1>7, <1>8, <1>9 DEF Inv

\* What the remaining actions and stuttering leave alone
quietVars == <<lastSentPacketNumber, packetHistory, retransmissionQueue, length, acked, retransmitted,
               lossTime, alarm, nextLeastUnacked>>

\* An error, a repeated ACK, the end of the path's goroutine and a STOP_WAITING
\* frame change only what they note.
LEMMA QuietInv ==
  ASSUME Inv, UNCHANGED quietVars,
         LargestAcked' \in Nat, LargestAcked' <= lastSentPacketNumber,
         LargestAcked' = LargestAcked \/ err' # "none",
         err' = "none" => err = "none", phase' = "open" => phase = "open",
         largestLeastUnackedSent' \in {largestLeastUnackedSent, nextLeastUnacked}
  PROVE  Inv'
<1>1. Numbers /\ PacketsAccounted /\ AlarmWhileOutstanding /\ StopWaitingWritable
  BY DEF Inv
<1>2. PacketsAccounted'
  BY <1>1, AccountedUnchanged DEF accountedVars, quietVars
<1>3. Numbers'
  BY <1>1 DEF Numbers, PacketNumbers, quietVars
<1>4. AlarmWhileOutstanding'
  BY <1>1, Zenon DEF AlarmWhileOutstanding, quietVars
<1>5. StopWaitingWritable'
  BY <1>1 DEF StopWaitingWritable, Numbers, quietVars
<1> QED BY <1>2, <1>3, <1>4, <1>5 DEF Inv

\* An ACK for a skipped packet is noticed after LargestAcked was raised, but not
\* above the last packet sent.
LEMMA ReceivedAckErrorInv ==
  ASSUME Inv, NEW frame \in Frames, NEW w, ReceivedAckError(frame, w)
  PROVE  Inv'
<1>1. LargestAcked \in Nat /\ LargestAcked <= lastSentPacketNumber
  BY DEF Inv, Numbers
<1>2. Max(frame) \in Nat
  <2>1. frame \in SUBSET (1 .. MaxPacketNumber) /\ frame # {}
    BY DEF Frames, PacketNumbers
  <2>2. Max(frame) \in frame
    BY <2>1, MaxIn, SentAssumption
  <2>3. \A x \in frame : x \in Nat
    BY <2>1, SentAssumption
  <2> QED BY <2>2, <2>3, Zenon
<1>3. /\ err' # "none"
      /\ \/ LargestAcked' = LargestAcked
         \/ LargestAcked' = Max(frame) /\ Max(frame) <= lastSentPacketNumber
  BY DEF ReceivedAckError
<1>4. UNCHANGED quietVars /\ UNCHANGED <<phase, largestLeastUnackedSent>>
  BY DEF ReceivedAckError, quietVars, stopWaiting
<1>5. LargestAcked' \in Nat /\ LargestAcked' <= lastSentPacketNumber
  BY <1>1, <1>2, <1>3
<1> QED BY <1>3, <1>4, <1>5, QuietInv

\* Every step, and every step that changes nothing, keeps the invariant.
LEMMA NextInv == Inv /\ [Next]_vars => Inv'
<1> SUFFICES ASSUME Inv, [Next]_vars PROVE Inv'
  OBVIOUS
<1>1. LargestAcked \in Nat /\ LargestAcked <= lastSentPacketNumber
  BY DEF Inv, Numbers
<1>2. ASSUME err = "none", phase = "open", NEW p \in NextNumbers,
             NEW len \in PacketLengths[p] \cup {0}, SentPacket(p, len)
      PROVE  Inv'
  BY <1>2, SentPacketInv
<1>3. ASSUME SentPacketTooMany PROVE Inv'
  <2>1. /\ err' # "none" /\ UNCHANGED quietVars
        /\ UNCHANGED <<LargestAcked, phase, largestLeastUnackedSent>>
    BY <1>3 DEF SentPacketTooMany, quietVars, stopWaiting
  <2> QED BY <1>1, <2>1, QuietInv
<1>4. ASSUME err = "none", phase = "open", NEW frame \in Frames, NEW w \in 1 .. MaxAckPackets,
             ReceivedAck(frame, w)
      PROVE  Inv'
  BY <1>4, ReceivedAckInv
<1>5. ASSUME NEW frame \in Frames, NEW w \in 1 .. MaxAckPackets, ReceivedAckRepeated(frame, w)
      PROVE  Inv'
  <2>1. UNCHANGED quietVars /\ UNCHANGED <<LargestAcked, err, phase, largestLeastUnackedSent>>
    BY <1>5 DEF ReceivedAckRepeated, quietVars, stopWaiting
  <2> QED BY <1>1, <2>1, QuietInv
<1>6. ASSUME NEW frame \in Frames, NEW w \in 1 .. MaxAckPackets, ReceivedAckError(frame, w)
      PROVE  Inv'
  BY <1>6, ReceivedAckErrorInv
<1>7. ASSUME err = "none", OnAlarm PROVE Inv'
  BY <1>7, OnAlarmInv
<1>8. ASSUME NEW frame \in Frames, NEW w \in 1 .. MaxAckPackets, ReceivedClosePath(frame, w)
      PROVE  Inv'
  BY <1>8, ReceivedClosePathInv
<1>9. ASSUME PathRunEnds PROVE Inv'
  <2>1. /\ UNCHANGED quietVars /\ phase' # "open"
        /\ UNCHANGED <<LargestAcked, err, largestLeastUnackedSent>>
    BY <1>9 DEF PathRunEnds, quietVars, stopWaiting
  <2> QED BY <1>1, <2>1, QuietInv
<1>10. ASSUME DequeuePacketForRetransmission PROVE Inv'
  BY <1>10, DequeueInv
<1>11. ASSUME DuplicatePacket PROVE Inv'
  BY <1>11, DuplicateInv
<1>12. ASSUME GetStopWaitingFrame PROVE Inv'
  <2>1. /\ UNCHANGED quietVars /\ UNCHANGED <<LargestAcked, err, phase>>
        /\ largestLeastUnackedSent' = nextLeastUnacked
    BY <1>12 DEF GetStopWaitingFrame, quietVars
  <2> QED BY <1>1, <2>1, QuietInv
<1>13. ASSUME UNCHANGED vars PROVE Inv'
  <2>1. UNCHANGED quietVars /\ UNCHANGED <<LargestAcked, err, phase, largestLeastUnackedSent>>
    BY <1>13 DEF vars, quietVars, stopWaiting
  <2> QED BY <1>1, <2>1, QuietInv
<1> QED BY <1>2, <1>3, <1>4, <1>5, <1>6, <1>7, <1>8, <1>9, <1>10, <1>11, <1>12, <1>13 DEF Next

-----------------------------------------------------------------------------
(* The theorems.                                                            *)

\* The invariant holds in every reachable state of every instance.
THEOREM Invariance == Spec => []Inv
<1>1. Init => Inv
  BY InitInv
<1>2. Inv /\ [Next]_vars => Inv'
  BY NextInv
<1> QED BY <1>1, <1>2, PTL DEF Spec

\* Every retransmittable packet is in exactly one of the places it can be in: the
\* history, acked, queued once, or retransmitted, whatever the order of ACKs,
\* losses, probes, timeouts, duplicates and CLOSE_PATH frames.
THEOREM NoPacketLost == Spec => []PacketsAccounted
<1>1. Inv => PacketsAccounted
  BY DEF Inv
<1> QED BY <1>1, Invariance, PTL

\* On an open path the alarm of updateLossDetectionAlarm is set exactly while a
\* packet is outstanding, and lossTime exactly while early retransmit has a
\* candidate.
THEOREM AlarmSet == Spec => []AlarmWhileOutstanding
<1>1. Inv => AlarmWhileOutstanding
  BY DEF Inv
<1> QED BY <1>1, Invariance, PTL

\* The stop waiting manager never asks for a frame that StopWaitingFrame.Write
\* refuses.
THEOREM StopWaiting == Spec => []StopWaitingWritable
<1>1. Inv => StopWaitingWritable
  BY DEF Inv
<1> QED BY <1>1, Invariance, PTL

=============================================================================
