------------------------ MODULE ReceivedPacketHistoryProofs ------------------------
(***************************************************************************)
(* Theorems about ReceivedPacketHistory, for every number of packets and   *)
(* every limit of tracked ranges.                                          *)
(***************************************************************************)
EXTENDS ReceivedPacketHistory, ExtremaProofs, SequenceTheorems

-----------------------------------------------------------------------------
(* The list operations, element by element. *)

\* InsertAt shifts the elements from position i on.
LEMMA InsertAtProps ==
  ASSUME NEW T, NEW s \in Seq(T), NEW e \in T, NEW i \in 1 .. Len(s) + 1
  PROVE  /\ InsertAt(s, i, e) \in Seq(T)
         /\ Len(InsertAt(s, i, e)) = Len(s) + 1
         /\ \A j \in 1 .. Len(s) + 1 :
              InsertAt(s, i, e)[j] = IF j < i THEN s[j] ELSE IF j = i THEN e ELSE s[j - 1]
<1> DEFINE a == SubSeq(s, 1, i - 1)
           b == SubSeq(s, i, Len(s))
<1>1. /\ a \in Seq(T)
      /\ Len(a) = i - 1
      /\ \A j \in 1 .. i - 1 : a[j] = s[j]
  BY SubSeqProperties
<1>2. /\ b \in Seq(T)
      /\ Len(b) = Len(s) + 1 - i
      /\ \A j \in 1 .. Len(s) + 1 - i : b[j] = s[i + j - 1]
  BY SubSeqProperties
<1> HIDE DEF a, b
<1>3. /\ a \o <<e>> \in Seq(T)
      /\ Len(a \o <<e>>) = i
      /\ \A j \in 1 .. i : (a \o <<e>>)[j] = IF j < i THEN s[j] ELSE e
  BY <1>1
<1> DEFINE c == a \o <<e>>
<1> HIDE DEF c
<1>4. /\ c \o b \in Seq(T)
      /\ Len(c \o b) = Len(s) + 1
      /\ \A j \in 1 .. Len(s) + 1 : (c \o b)[j] = IF j <= i THEN c[j] ELSE b[j - i]
  <2>1. /\ c \o b \in Seq(T)
        /\ Len(c \o b) = Len(c) + Len(b)
        /\ \A j \in 1 .. Len(c) + Len(b) : (c \o b)[j] = IF j <= Len(c) THEN c[j] ELSE b[j - Len(c)]
    <3> c \in Seq(T) /\ b \in Seq(T)
      BY <1>2, <1>3 DEF c
    <3> QED BY ConcatProperties, Zenon
  <2> QED BY <2>1, <1>2, <1>3 DEF c
<1>5. \A j \in 1 .. Len(s) + 1 :
        (c \o b)[j] = IF j < i THEN s[j] ELSE IF j = i THEN e ELSE s[j - 1]
  BY <1>2, <1>3, <1>4 DEF c
<1> QED BY <1>4, <1>5 DEF InsertAt, a, b, c

\* RemoveAt shifts the elements behind position i.
LEMMA RemoveAtProps ==
  ASSUME NEW T, NEW s \in Seq(T), NEW i \in 1 .. Len(s)
  PROVE  /\ RemoveAt(s, i) \in Seq(T)
         /\ Len(RemoveAt(s, i)) = Len(s) - 1
         /\ \A j \in 1 .. Len(s) - 1 :
              RemoveAt(s, i)[j] = IF j < i THEN s[j] ELSE s[j + 1]
<1> DEFINE a == SubSeq(s, 1, i - 1)
           b == SubSeq(s, i + 1, Len(s))
<1>1. /\ a \in Seq(T)
      /\ Len(a) = i - 1
      /\ \A j \in 1 .. i - 1 : a[j] = s[j]
  BY SubSeqProperties
<1>2. /\ b \in Seq(T)
      /\ Len(b) = Len(s) - i
      /\ \A j \in 1 .. Len(s) - i : b[j] = s[i + j]
  BY SubSeqProperties
<1> HIDE DEF a, b
<1>3. /\ a \o b \in Seq(T)
      /\ Len(a \o b) = Len(s) - 1
      /\ \A j \in 1 .. Len(s) - 1 : (a \o b)[j] = IF j <= i - 1 THEN a[j] ELSE b[j - (i - 1)]
  <2>1. /\ a \o b \in Seq(T)
        /\ Len(a \o b) = Len(a) + Len(b)
        /\ \A j \in 1 .. Len(a) + Len(b) : (a \o b)[j] = IF j <= Len(a) THEN a[j] ELSE b[j - Len(a)]
    BY <1>1, <1>2, ConcatProperties, Zenon
  <2> QED BY <2>1, <1>1, <1>2
<1>4. \A j \in 1 .. Len(s) - 1 : (a \o b)[j] = IF j < i THEN s[j] ELSE s[j + 1]
  BY <1>1, <1>2, <1>3
<1> QED BY <1>3, <1>4 DEF RemoveAt, a, b

\* ReplaceAt changes one element.
LEMMA ReplaceAtProps ==
  ASSUME NEW T, NEW s \in Seq(T), NEW e \in T, NEW i \in 1 .. Len(s)
  PROVE  /\ ReplaceAt(s, i, e) \in Seq(T)
         /\ Len(ReplaceAt(s, i, e)) = Len(s)
         /\ \A j \in 1 .. Len(s) : ReplaceAt(s, i, e)[j] = IF j = i THEN e ELSE s[j]
BY DEF ReplaceAt

\* The bounds of the intervals of a list are positive numbers.
LEMMA IntervalTypes ==
  ASSUME NEW rs \in Seq(PacketInterval)
  PROVE  \A i \in 1 .. Len(rs) :
           /\ rs[i] \in PacketInterval
           /\ rs[i].Start \in Nat \ {0}
           /\ rs[i].End \in Nat \ {0}
<1>1. \A i \in 1 .. Len(rs) : rs[i] \in PacketInterval
  OBVIOUS
<1>2. \A r \in PacketInterval : r.Start \in Nat \ {0} /\ r.End \in Nat \ {0}
  BY DEF PacketInterval
<1> QED BY <1>1, <1>2

\* What well-formedness says about the elements of a list.
LEMMA WellFormedProps ==
  ASSUME NEW rs \in Seq(PacketInterval), WellFormed(rs)
  PROVE  /\ \A i \in 1 .. Len(rs) : /\ rs[i].Start \in Nat \ {0}
                                     /\ rs[i].End \in Nat \ {0}
                                     /\ rs[i].Start <= rs[i].End
         /\ \A i, j \in 1 .. Len(rs) : i < j => rs[i].End + 1 < rs[j].Start
BY IntervalTypes DEF WellFormed

\* A number is covered when some interval of the list includes it.
LEMMA CoveredIff ==
  ASSUME NEW rs \in Seq(PacketInterval), NEW x \in Nat
  PROVE  x \in Covered(rs) <=>
           \E i \in 1 .. Len(rs) : rs[i].Start <= x /\ x <= rs[i].End
<1>1. x \in Covered(rs) <=> \E i \in DOMAIN rs : x \in rs[i].Start .. rs[i].End
  BY DEF Covered, Range
<1>2. \A i \in 1 .. Len(rs) : rs[i].Start \in Nat /\ rs[i].End \in Nat
  BY IntervalTypes
<1> QED BY <1>1, <1>2

\* Only numbers are covered.
LEMMA CoveredNat ==
  ASSUME NEW rs \in Seq(PacketInterval)
  PROVE  Covered(rs) \subseteq Nat
<1>1. \A i \in 1 .. Len(rs) : rs[i].Start \in Nat /\ rs[i].End \in Nat
  BY IntervalTypes
<1> QED BY <1>1 DEF Covered, Range
-----------------------------------------------------------------------------
(* ReceivedPacket: the four ways a packet number enters the list. *)

\* What registering p must achieve, from the list rs to the list q.
Registered(rs, q, p) ==
  /\ q \in Seq(PacketInterval)
  /\ 1 <= Len(q) /\ Len(q) <= Len(rs) + 1
  /\ WellFormed(q)
  /\ \A x \in Nat :
       (\E i \in 1 .. Len(q) : q[i].Start <= x /\ x <= q[i].End)
         <=> \/ \E i \in 1 .. Len(rs) : rs[i].Start <= x /\ x <= rs[i].End
             \/ x = p

\* The interval of one packet number.
LEMMA SingleProps ==
  ASSUME NEW p \in Nat \ {0}
  PROVE  Single(p) \in PacketInterval /\ Single(p).Start = p /\ Single(p).End = p
BY DEF Single, PacketInterval

\* A packet number below all intervals and touching none becomes the first.
LEMMA RegisterInFront ==
  ASSUME NEW rs \in Seq(PacketInterval), WellFormed(rs), NEW p \in Nat \ {0},
         \A i \in 1 .. Len(rs) : p + 1 < rs[i].Start
  PROVE  Registered(rs, <<Single(p)>> \o rs, p)
<1> DEFINE q == <<Single(p)>> \o rs
<1>0. Single(p) \in PacketInterval /\ Single(p).Start = p /\ Single(p).End = p
  BY SingleProps
<1>1. q \in Seq(PacketInterval) /\ Len(q) = Len(rs) + 1
  BY <1>0
<1>2. q[1] = Single(p) /\ \A i \in 1 .. Len(rs) : q[i + 1] = rs[i]
  BY <1>0
<1> HIDE DEF q
<1>3. \A i \in 1 .. Len(q) : i = 1 \/ (i - 1 \in 1 .. Len(rs) /\ q[i] = rs[i - 1])
  BY <1>1, <1>2
<1>4. WellFormed(q)
  <2>1. ASSUME NEW i \in 1 .. Len(q)
        PROVE  q[i].Start <= q[i].End
    <3>1. CASE i = 1
      BY <3>1, <1>0, <1>2
    <3>2. CASE i # 1
      BY <3>2, <1>3, WellFormedProps
    <3> QED BY <3>1, <3>2
  <2>2. ASSUME NEW i \in 1 .. Len(q), NEW j \in 1 .. Len(q), i < j
        PROVE  q[i].End + 1 < q[j].Start
    <3>1. j - 1 \in 1 .. Len(rs) /\ q[j] = rs[j - 1]
      BY <2>2, <1>3
    <3>2. CASE i = 1
      BY <3>1, <3>2, <1>0, <1>2
    <3>3. CASE i # 1
      <4>1. i - 1 \in 1 .. Len(rs) /\ q[i] = rs[i - 1] /\ i - 1 < j - 1
        BY <3>3, <2>2, <1>3
      <4> QED BY <4>1, <3>1, WellFormedProps
    <3> QED BY <3>2, <3>3
  <2> QED BY <2>1, <2>2, <1>1 DEF WellFormed
<1>5. ASSUME NEW x \in Nat
      PROVE  (\E i \in 1 .. Len(q) : q[i].Start <= x /\ x <= q[i].End)
               <=> \/ \E i \in 1 .. Len(rs) : rs[i].Start <= x /\ x <= rs[i].End
                   \/ x = p
  <2>1. ASSUME NEW i \in 1 .. Len(q), q[i].Start <= x /\ x <= q[i].End
        PROVE  \/ \E k \in 1 .. Len(rs) : rs[k].Start <= x /\ x <= rs[k].End
               \/ x = p
    <3>1. CASE i = 1
      BY <3>1, <2>1, <1>0, <1>2
    <3>2. CASE i # 1
      BY <3>2, <2>1, <1>3
    <3> QED BY <3>1, <3>2
  <2>2. x = p => q[1].Start <= x /\ x <= q[1].End
    BY <1>0, <1>2
  <2>3. \A i \in 1 .. Len(rs) : rs[i] = q[i + 1] /\ i + 1 \in 1 .. Len(q)
    BY <1>1, <1>2
  <2>4. 1 \in 1 .. Len(q)
    BY <1>1
  <2> QED BY <2>1, <2>2, <2>3, <2>4
<1>6. 1 <= Len(q) /\ Len(q) <= Len(rs) + 1
  BY <1>1
<1>7. Registered(rs, q, p)
  BY <1>1, <1>4, <1>5, <1>6, Zenon DEF Registered
<1> QED BY <1>7 DEF q


\* Changing one interval so that it also holds p, without touching another one.
LEMMA RegisterByExtending ==
  ASSUME NEW rs \in Seq(PacketInterval), WellFormed(rs), NEW p \in Nat \ {0},
         NEW i \in 1 .. Len(rs), NEW e \in PacketInterval,
         \/ e.Start = rs[i].Start /\ e.End = p /\ rs[i].End + 1 = p
         \/ e.Start = p /\ e.End = rs[i].End /\ rs[i].Start = p + 1,
         \A j \in 1 .. Len(rs) : j > i => p + 1 < rs[j].Start,
         i > 1 => rs[i - 1].End + 1 # e.Start
  PROVE  Registered(rs, ReplaceAt(rs, i, e), p)
<1> DEFINE q == ReplaceAt(rs, i, e)
<1>0. /\ \A j \in 1 .. Len(rs) : /\ rs[j].Start \in Nat /\ rs[j].End \in Nat
                                 /\ rs[j].Start <= rs[j].End
      /\ \A j, k \in 1 .. Len(rs) : j < k => rs[j].End + 1 < rs[k].Start
  BY WellFormedProps
<1>1. q \in Seq(PacketInterval) /\ Len(q) = Len(rs)
  BY ReplaceAtProps
<1>2. \A j \in 1 .. Len(rs) : q[j] = IF j = i THEN e ELSE rs[j]
  BY ReplaceAtProps
<1> HIDE DEF q
<1>3. e.Start \in Nat /\ e.End \in Nat
  BY DEF PacketInterval
<1>4. \A j \in 1 .. Len(rs) : j < i => rs[j].End + 1 < e.Start
  <2> SUFFICES ASSUME NEW j \in 1 .. Len(rs), j < i
               PROVE  rs[j].End + 1 < e.Start
    OBVIOUS
  <2>1. rs[j].End + 1 < rs[i].Start
    BY <1>0
  <2>2. rs[j].End + 1 <= e.Start
    BY <2>1, <1>3, <1>0
  <2>3. CASE j = i - 1
    BY <2>2, <2>3, <1>3, <1>0
  <2>4. CASE j < i - 1
    <3>1. i - 1 \in 1 .. Len(rs) /\ j < i - 1
      BY <2>4
    <3>2. rs[j].End + 1 < rs[i - 1].Start /\ rs[i - 1].Start <= rs[i - 1].End
      BY <3>1, <1>0
    <3>3. rs[i - 1].End + 1 < rs[i].Start
      BY <3>1, <1>0
    <3>4. rs[i].Start <= e.Start + 1
      BY <1>0, <1>3
    <3>5. /\ rs[j].End \in Nat /\ rs[i].Start \in Nat
          /\ rs[i - 1].Start \in Nat /\ rs[i - 1].End \in Nat
      BY <3>1, <1>0
    <3>6. \A t, u, v, w, x \in Nat :
            t + 1 < u /\ u <= v /\ v + 1 < w /\ w <= x + 1 => t + 1 < x
      OBVIOUS
    <3> QED BY <3>2, <3>3, <3>4, <3>5, <3>6, <1>3, Zenon
  <2> QED BY <2>3, <2>4
<1>5. WellFormed(q)
  <2>0. e.Start <= e.End
    BY <1>0, <1>3
  <2>1. \A j \in 1 .. Len(rs) : q[j].Start <= q[j].End
    BY <2>0, <1>2, <1>0
  <2>2. \A j, k \in 1 .. Len(rs) : j < k => q[j].End + 1 < q[k].Start
    <3> SUFFICES ASSUME NEW j \in 1 .. Len(rs), NEW k \in 1 .. Len(rs), j < k
                 PROVE  q[j].End + 1 < q[k].Start
      OBVIOUS
    <3>1. rs[j].End + 1 < rs[k].Start
      BY <1>0
    <3>2. CASE k = i
      BY <3>2, <1>2, <1>4
    <3>3. CASE j = i
      <4>1. e.End <= rs[i].End \/ e.End = p
        BY <1>0, <1>3
      <4>2. q[j] = e /\ q[k] = rs[k] /\ p + 1 < rs[k].Start
        BY <3>3, <1>2
      <4> QED BY <4>1, <4>2, <3>1, <3>3, <1>3, <1>0
    <3> QED BY <3>1, <3>2, <3>3, <1>2
  <2> QED BY <2>1, <2>2, <1>1 DEF WellFormed
<1>6. ASSUME NEW x \in Nat
      PROVE  (\E j \in 1 .. Len(q) : q[j].Start <= x /\ x <= q[j].End)
               <=> \/ \E j \in 1 .. Len(rs) : rs[j].Start <= x /\ x <= rs[j].End
                   \/ x = p
  <2>1. e.Start <= x /\ x <= e.End <=> (rs[i].Start <= x /\ x <= rs[i].End) \/ x = p
    BY <1>3, <1>0
  <2> QED BY <2>1, <1>1, <1>2
<1>7. 1 <= Len(q) /\ Len(q) <= Len(rs) + 1
  BY <1>1
<1>8. Registered(rs, q, p)
  BY <1>1, <1>5, <1>6, <1>7, Zenon DEF Registered
<1> QED BY <1>8 DEF q

\* A packet number above interval i, touching neither it nor the next one.
LEMMA RegisterBehind ==
  ASSUME NEW rs \in Seq(PacketInterval), WellFormed(rs), NEW p \in Nat \ {0},
         NEW i \in 1 .. Len(rs), rs[i].End + 1 < p,
         \A j \in 1 .. Len(rs) : j > i => p + 1 < rs[j].Start
  PROVE  Registered(rs, InsertAt(rs, i + 1, Single(p)), p)
<1> DEFINE q == InsertAt(rs, i + 1, Single(p))
<1>0. /\ \A j \in 1 .. Len(rs) : /\ rs[j].Start \in Nat /\ rs[j].End \in Nat
                                 /\ rs[j].Start <= rs[j].End
      /\ \A j, k \in 1 .. Len(rs) : j < k => rs[j].End + 1 < rs[k].Start
  BY WellFormedProps
<1>1. Single(p) \in PacketInterval /\ Single(p).Start = p /\ Single(p).End = p
  BY SingleProps
<1>2. /\ q \in Seq(PacketInterval)
      /\ Len(q) = Len(rs) + 1
      /\ \A j \in 1 .. Len(rs) + 1 :
           q[j] = IF j < i + 1 THEN rs[j] ELSE IF j = i + 1 THEN Single(p) ELSE rs[j - 1]
  <2>1. i + 1 \in 1 .. Len(rs) + 1
    OBVIOUS
  <2> QED BY <2>1, <1>1, InsertAtProps
<1> HIDE DEF q
<1>3. \A j \in 1 .. Len(q) :
        \/ j <= i /\ j \in 1 .. Len(rs) /\ q[j] = rs[j]
        \/ j = i + 1 /\ q[j] = Single(p)
        \/ j > i + 1 /\ j - 1 \in 1 .. Len(rs) /\ q[j] = rs[j - 1]
  BY <1>2
<1>4. \A j \in 1 .. Len(rs) : j <= i => rs[j].End + 1 < p
  <2> SUFFICES ASSUME NEW j \in 1 .. Len(rs), j < i
               PROVE  rs[j].End + 1 < p
    OBVIOUS
  <2>1. rs[j].End + 1 < rs[i].Start /\ rs[i].Start <= rs[i].End /\ rs[i].End + 1 < p
    BY <1>0
  <2>2. rs[j].End \in Nat /\ rs[i].Start \in Nat /\ rs[i].End \in Nat
    BY <1>0
  <2>3. \A t, u, v \in Nat : t + 1 < u /\ u <= v /\ v + 1 < p => t + 1 < p
    OBVIOUS
  <2> QED BY <2>1, <2>2, <2>3, Zenon
<1>5. WellFormed(q)
  <2>1. ASSUME NEW j \in 1 .. Len(q)
        PROVE  q[j].Start <= q[j].End
    <3>1. CASE j = i + 1
      BY <3>1, <1>1, <1>3
    <3>2. CASE j # i + 1
      BY <3>2, <1>0, <1>3
    <3> QED BY <3>1, <3>2
  <2>2. ASSUME NEW j \in 1 .. Len(q), NEW k \in 1 .. Len(q), j < k
        PROVE  q[j].End + 1 < q[k].Start
    <3>1. CASE k <= i
      BY <3>1, <2>2, <1>0, <1>3
    <3>2. CASE k = i + 1
      <4>1. q[k].Start = p /\ j <= i /\ q[j] = rs[j] /\ j \in 1 .. Len(rs)
        BY <3>2, <2>2, <1>1, <1>3
      <4> QED BY <4>1, <1>4
    <3>3. CASE k > i + 1
      <4>1. k - 1 \in 1 .. Len(rs) /\ k - 1 > i /\ q[k] = rs[k - 1]
        BY <3>3, <1>3
      <4>2. CASE j = i + 1
        BY <4>1, <4>2, <1>1, <1>3
      <4>3. CASE j <= i
        <5>1. j \in 1 .. Len(rs) /\ q[j] = rs[j] /\ j < k - 1
          BY <4>1, <4>3, <1>3
        <5> QED BY <5>1, <4>1, <1>0
      <4>4. CASE j > i + 1
        <5>1. j - 1 \in 1 .. Len(rs) /\ q[j] = rs[j - 1] /\ j - 1 < k - 1
          BY <2>2, <4>4, <1>3
        <5> QED BY <5>1, <4>1, <1>0
      <4> QED BY <4>2, <4>3, <4>4
    <3> QED BY <3>1, <3>2, <3>3
  <2> QED BY <2>1, <2>2, <1>2 DEF WellFormed
<1>6. ASSUME NEW x \in Nat
      PROVE  (\E j \in 1 .. Len(q) : q[j].Start <= x /\ x <= q[j].End)
               <=> \/ \E j \in 1 .. Len(rs) : rs[j].Start <= x /\ x <= rs[j].End
                   \/ x = p
  <2>1. ASSUME NEW j \in 1 .. Len(q), q[j].Start <= x /\ x <= q[j].End
        PROVE  \/ \E k \in 1 .. Len(rs) : rs[k].Start <= x /\ x <= rs[k].End
               \/ x = p
    <3>1. CASE j = i + 1
      BY <3>1, <2>1, <1>1, <1>3
    <3>2. CASE j # i + 1
      BY <3>2, <2>1, <1>3
    <3> QED BY <3>1, <3>2
  <2>2. i + 1 \in 1 .. Len(q) /\ (x = p => q[i + 1].Start <= x /\ x <= q[i + 1].End)
    <3>1. i + 1 \in 1 .. Len(rs) + 1 /\ ~ (i + 1 < i + 1)
      OBVIOUS
    <3>2. i + 1 \in 1 .. Len(q) /\ q[i + 1] = Single(p)
      BY <3>1, <1>2
    <3> QED BY <3>2, <1>1
  <2>3. \A j \in 1 .. Len(rs) : \E k \in 1 .. Len(q) : q[k] = rs[j]
    <3> SUFFICES ASSUME NEW j \in 1 .. Len(rs)
                 PROVE  \E k \in 1 .. Len(q) : q[k] = rs[j]
      OBVIOUS
    <3>1. CASE j <= i
      <4>1. j \in 1 .. Len(rs) + 1 /\ j < i + 1
        BY <3>1
      <4>2. q[j] = rs[j]
        BY <4>1, <1>2
      <4> QED BY <4>1, <4>2, <1>2
    <3>2. CASE j > i
      <4>1. /\ j + 1 \in 1 .. Len(rs) + 1 /\ ~ (j + 1 < i + 1)
            /\ j + 1 # i + 1 /\ (j + 1) - 1 = j
        BY <3>2
      <4>2. q[j + 1] = rs[j]
        BY <4>1, <1>2
      <4> QED BY <4>1, <4>2, <1>2
    <3> QED BY <3>1, <3>2
  <2> QED BY <2>1, <2>2, <2>3
<1>7. 1 <= Len(q) /\ Len(q) <= Len(rs) + 1
  BY <1>2
<1>8. Registered(rs, q, p)
  BY <1>2, <1>5, <1>6, <1>7, Zenon DEF Registered
<1> QED BY <1>8 DEF q

\* Extending interval i downwards closes the gap to the one before it.
LEMMA RegisterByMerging ==
  ASSUME NEW rs \in Seq(PacketInterval), WellFormed(rs), NEW p \in Nat \ {0},
         NEW i \in 2 .. Len(rs), NEW e \in PacketInterval,
         rs[i - 1].End + 1 = p, rs[i].Start = p + 1,
         e.Start = rs[i - 1].Start, e.End = rs[i].End,
         NEW d \in PacketInterval
  PROVE  Registered(rs, RemoveAt(ReplaceAt(ReplaceAt(rs, i, d), i - 1, e), i), p)
<1> DEFINE m == ReplaceAt(rs, i, d)
           n == ReplaceAt(m, i - 1, e)
           q == RemoveAt(n, i)
<1>0. /\ \A j \in 1 .. Len(rs) : /\ rs[j].Start \in Nat /\ rs[j].End \in Nat
                                 /\ rs[j].Start <= rs[j].End
      /\ \A j, k \in 1 .. Len(rs) : j < k => rs[j].End + 1 < rs[k].Start
  BY WellFormedProps
<1>i. i \in 1 .. Len(rs) /\ i - 1 \in 1 .. Len(rs)
  OBVIOUS
<1>1. /\ m \in Seq(PacketInterval) /\ Len(m) = Len(rs)
      /\ \A j \in 1 .. Len(rs) : m[j] = IF j = i THEN d ELSE rs[j]
  BY <1>i, ReplaceAtProps
<1> HIDE DEF m
<1>2. /\ n \in Seq(PacketInterval) /\ Len(n) = Len(rs)
      /\ \A j \in 1 .. Len(rs) : n[j] = IF j = i - 1 THEN e ELSE m[j]
  <2>1. i - 1 \in 1 .. Len(m)
    BY <1>i, <1>1
  <2>2. /\ n \in Seq(PacketInterval) /\ Len(n) = Len(m)
        /\ \A j \in 1 .. Len(m) : n[j] = IF j = i - 1 THEN e ELSE m[j]
    BY <2>1, <1>1, ReplaceAtProps
  <2> QED BY <2>2, <1>1
<1> HIDE DEF n
<1>3. /\ q \in Seq(PacketInterval) /\ Len(q) = Len(rs) - 1
      /\ \A j \in 1 .. Len(rs) - 1 : q[j] = IF j < i THEN n[j] ELSE n[j + 1]
  <2>1. i \in 1 .. Len(n)
    BY <1>i, <1>2
  <2>2. /\ q \in Seq(PacketInterval) /\ Len(q) = Len(n) - 1
        /\ \A j \in 1 .. Len(n) - 1 : q[j] = IF j < i THEN n[j] ELSE n[j + 1]
    BY <2>1, <1>2, RemoveAtProps
  <2> QED BY <2>2, <1>2
<1> HIDE DEF q
<1>4. \A j \in 1 .. Len(q) :
        \/ j < i - 1 /\ j \in 1 .. Len(rs) /\ q[j] = rs[j]
        \/ j = i - 1 /\ q[j] = e
        \/ j >= i /\ j + 1 \in 1 .. Len(rs) /\ q[j] = rs[j + 1]
  <2> SUFFICES ASSUME NEW j \in 1 .. Len(q)
               PROVE  \/ j < i - 1 /\ j \in 1 .. Len(rs) /\ q[j] = rs[j]
                      \/ j = i - 1 /\ q[j] = e
                      \/ j >= i /\ j + 1 \in 1 .. Len(rs) /\ q[j] = rs[j + 1]
    OBVIOUS
  <2>1. j \in 1 .. Len(rs) - 1 /\ j \in 1 .. Len(rs) /\ j + 1 \in 1 .. Len(rs)
    BY <1>3
  <2>2. CASE j < i
    <3>1. q[j] = n[j]
      BY <2>1, <2>2, <1>3
    <3> QED BY <3>1, <2>1, <2>2, <1>1, <1>2
  <2>3. CASE j >= i
    <3>1. q[j] = n[j + 1] /\ j + 1 # i - 1 /\ j + 1 # i
      BY <2>1, <2>3, <1>3
    <3> QED BY <3>1, <2>1, <2>3, <1>1, <1>2
  <2> QED BY <2>2, <2>3
<1>5. e.Start \in Nat /\ e.End \in Nat /\ e.Start <= e.End
  <2>1. /\ rs[i - 1].Start \in Nat /\ rs[i - 1].End \in Nat /\ rs[i].Start \in Nat
        /\ rs[i].End \in Nat /\ rs[i - 1].Start <= rs[i - 1].End
        /\ rs[i].Start <= rs[i].End
    BY <1>0, <1>i
  <2> QED BY <2>1
<1>6. WellFormed(q)
  <2>1. ASSUME NEW j \in 1 .. Len(q)
        PROVE  q[j].Start <= q[j].End
    <3>1. CASE j = i - 1
      BY <3>1, <1>4, <1>5
    <3>2. CASE j # i - 1
      BY <3>2, <1>0, <1>4
    <3> QED BY <3>1, <3>2
  <2>2. ASSUME NEW j \in 1 .. Len(q), NEW k \in 1 .. Len(q), j < k
        PROVE  q[j].End + 1 < q[k].Start
    <3>1. CASE k < i - 1
      BY <3>1, <2>2, <1>0, <1>4
    <3>2. CASE k = i - 1
      <4>1. q[k].Start = rs[i - 1].Start
        BY <3>2, <1>4
      <4>2. j < i - 1
        BY <3>2, <2>2
      <4>3. j \in 1 .. Len(rs) /\ q[j] = rs[j]
        BY <4>2, <1>4
      <4>4. rs[j].End + 1 < rs[i - 1].Start
        BY <4>2, <4>3, <1>0, <1>i
      <4> QED BY <4>1, <4>3, <4>4
    <3>3. CASE k >= i
      <4>1. k + 1 \in 1 .. Len(rs) /\ q[k] = rs[k + 1] /\ i < k + 1
        BY <3>3, <1>4
      <4>2. CASE j = i - 1
        <5>1. q[j].End = rs[i].End
          BY <4>2, <1>4
        <5> QED BY <5>1, <4>1, <1>0, <1>i
      <4>3. CASE j < i - 1
        <5>1. j \in 1 .. Len(rs) /\ q[j] = rs[j] /\ j < k + 1
          BY <4>1, <4>3, <1>4
        <5> QED BY <5>1, <4>1, <1>0
      <4>4. CASE j >= i
        <5>1. j + 1 \in 1 .. Len(rs) /\ q[j] = rs[j + 1] /\ j + 1 < k + 1
          <6>1. ~ (j < i - 1) /\ j # i - 1 /\ j + 1 < k + 1
            BY <2>2, <4>4
          <6> QED BY <6>1, <1>4
        <5> QED BY <5>1, <4>1, <1>0
      <4> QED BY <4>2, <4>3, <4>4
    <3> QED BY <3>1, <3>2, <3>3
  <2>3. DOMAIN q = 1 .. Len(q)
    BY <1>3
  <2> QED BY <2>1, <2>2, <2>3, Zenon DEF WellFormed
<1>7. ASSUME NEW x \in Nat
      PROVE  (\E j \in 1 .. Len(q) : q[j].Start <= x /\ x <= q[j].End)
               <=> \/ \E j \in 1 .. Len(rs) : rs[j].Start <= x /\ x <= rs[j].End
                   \/ x = p
  <2>1. e.Start <= x /\ x <= e.End
          <=> \/ rs[i - 1].Start <= x /\ x <= rs[i - 1].End
              \/ rs[i].Start <= x /\ x <= rs[i].End
              \/ x = p
    <3>1. /\ rs[i - 1].Start \in Nat /\ rs[i - 1].End \in Nat /\ rs[i].Start \in Nat
          /\ rs[i].End \in Nat /\ rs[i - 1].Start <= rs[i - 1].End
          /\ rs[i].Start <= rs[i].End
      BY <1>0, <1>i
    <3> QED BY <3>1, SMTT(30)
  <2>2. ASSUME NEW j \in 1 .. Len(q), q[j].Start <= x /\ x <= q[j].End
        PROVE  \/ \E k \in 1 .. Len(rs) : rs[k].Start <= x /\ x <= rs[k].End
               \/ x = p
    <3>1. CASE j = i - 1
      BY <3>1, <2>1, <2>2, <1>4, <1>i
    <3>2. CASE j # i - 1
      BY <3>2, <2>2, <1>4
    <3> QED BY <3>1, <3>2
  <2>3. i - 1 \in 1 .. Len(q) /\ q[i - 1] = e
    <3>1. i - 1 \in 1 .. Len(q)
      BY <1>3
    <3> QED BY <3>1, <1>4
  <2>4. ASSUME NEW j \in 1 .. Len(rs), rs[j].Start <= x /\ x <= rs[j].End
        PROVE  \E k \in 1 .. Len(q) : q[k].Start <= x /\ x <= q[k].End
    <3>1. CASE j = i \/ j = i - 1
      BY <3>1, <2>1, <2>3, <2>4
    <3>2. CASE j < i - 1
      <4>1. j \in 1 .. Len(q)
        BY <3>2, <1>3
      <4> QED BY <4>1, <3>2, <2>4, <1>4
    <3>3. CASE j > i
      <4>1. j - 1 \in 1 .. Len(q) /\ (j - 1) + 1 = j /\ j - 1 >= i
        BY <3>3, <1>3
      <4>2. q[j - 1] = rs[j]
        BY <4>1, <1>4
      <4> QED BY <4>1, <4>2, <2>4
    <3> QED BY <3>1, <3>2, <3>3
  <2> QED BY <2>1, <2>2, <2>3, <2>4
<1>8. 1 <= Len(q) /\ Len(q) <= Len(rs) + 1
  BY <1>3
<1>9. Registered(rs, q, p)
  BY <1>3, <1>6, <1>7, <1>8, Zenon DEF Registered
<1> QED BY <1>9 DEF q, n, m

\* What the walk does at element i, where it stops.
LEMMA ReceivedAtProps ==
  ASSUME NEW rs \in Seq(PacketInterval), WellFormed(rs), NEW p \in Nat \ {0},
         NEW i \in 1 .. Len(rs), StopsAt(rs[i], p),
         \A j \in 1 .. Len(rs) : j > i => p + 1 < rs[j].Start
  PROVE  Registered(rs, ReceivedAt(rs, i, p), p)
<1> DEFINE el == rs[i]
<1>0. /\ \A j \in 1 .. Len(rs) : /\ rs[j].Start \in Nat \ {0} /\ rs[j].End \in Nat \ {0}
                                 /\ rs[j].Start <= rs[j].End
      /\ \A j, k \in 1 .. Len(rs) : j < k => rs[j].End + 1 < rs[k].Start
  BY WellFormedProps
<1>1. /\ el \in PacketInterval /\ el.Start \in Nat \ {0} /\ el.End \in Nat \ {0}
      /\ el.Start <= el.End
  BY IntervalTypes, <1>0
<1>2. CASE Includes(el, p)
  <2>1. ReceivedAt(rs, i, p) = rs
    BY <1>2 DEF ReceivedAt
  <2>2. el.Start <= p /\ p <= el.End
    BY <1>2, <1>1 DEF Includes
  <2>3. 1 <= Len(rs) /\ Len(rs) <= Len(rs) + 1
    OBVIOUS
  <2> QED BY <2>1, <2>2, <2>3 DEF Registered
<1>3. CASE ~ Includes(el, p) /\ el.End + 1 = p
  <2> DEFINE e == [el EXCEPT !.End = p]
             m == ReplaceAt(rs, i, e)
  <2>1. e \in PacketInterval /\ e.Start = el.Start /\ e.End = p
    BY <1>1 DEF PacketInterval
  <2> HIDE DEF e
  <2>2. m[i] = e /\ (i > 1 => m[i - 1] = rs[i - 1])
    BY <2>1, ReplaceAtProps
  <2>3. i > 1 => rs[i - 1].End + 1 # e.Start
    <3>1. i > 1 => rs[i - 1].End + 1 < rs[i].Start /\ rs[i - 1].End \in Nat
      BY <1>0
    <3> QED BY <3>1, <2>1, <1>1
  <2>4. ReceivedAt(rs, i, p) = m
    <3>0. el.Start # p + 1
      BY <1>1, <1>3
    <3>1. ReceivedAt(rs, i, p) = MergeWithPrev(m, i)
      BY <3>0, <1>3 DEF ReceivedAt, e
    <3>2. MergeWithPrev(m, i) = m
      BY <2>2, <2>3 DEF MergeWithPrev
    <3> QED BY <3>1, <3>2
  <2> HIDE DEF m
  <2>5. Registered(rs, ReplaceAt(rs, i, e), p)
    BY <2>1, <2>3, <1>3, RegisterByExtending
  <2> QED BY <2>4, <2>5 DEF m
<1>4. CASE ~ Includes(el, p) /\ el.End + 1 # p /\ el.Start = p + 1
  <2> DEFINE e == [el EXCEPT !.Start = p]
             m == ReplaceAt(rs, i, e)
  <2>1. e \in PacketInterval /\ e.Start = p /\ e.End = el.End
    BY <1>1 DEF PacketInterval
  <2> HIDE DEF e
  <2>2. m[i] = e /\ (i > 1 => m[i - 1] = rs[i - 1])
    BY <2>1, ReplaceAtProps
  <2>3. ReceivedAt(rs, i, p) = MergeWithPrev(m, i)
    BY <1>4 DEF ReceivedAt, e
  <2>4. CASE i > 1 /\ rs[i - 1].End + 1 = p
    <3> DEFINE f == [rs[i - 1] EXCEPT !.End = el.End]
    <3>1. i - 1 \in 1 .. Len(rs) /\ i \in 2 .. Len(rs)
      BY <2>4
    <3>2. f \in PacketInterval /\ f.Start = rs[i - 1].Start /\ f.End = el.End
      <4>1. rs[i - 1] \in PacketInterval
        BY <3>1, IntervalTypes
      <4> QED BY <4>1, <1>1 DEF PacketInterval
    <3> HIDE DEF f
    <3>3. MergeWithPrev(m, i) = RemoveAt(ReplaceAt(m, i - 1, f), i)
      BY <2>1, <2>2, <2>4 DEF MergeWithPrev, f
    <3>4. Registered(rs, RemoveAt(ReplaceAt(ReplaceAt(rs, i, e), i - 1, f), i), p)
      BY <3>1, <3>2, <2>1, <2>4, <1>4, RegisterByMerging
    <3> QED BY <3>3, <3>4, <2>3
  <2>5. CASE ~ (i > 1 /\ rs[i - 1].End + 1 = p)
    <3>1. MergeWithPrev(m, i) = m
      BY <2>1, <2>2, <2>5 DEF MergeWithPrev
    <3> HIDE DEF m
    <3>2. Registered(rs, ReplaceAt(rs, i, e), p)
      BY <2>1, <2>5, <1>4, RegisterByExtending
    <3> QED BY <3>1, <3>2, <2>3 DEF m
  <2> QED BY <2>4, <2>5
<1>5. CASE ~ Includes(el, p) /\ el.End + 1 # p /\ el.Start # p + 1
  <2>1. ReceivedAt(rs, i, p) = InsertAt(rs, i + 1, Single(p))
    BY <1>5 DEF ReceivedAt
  <2>2. el.End + 1 < p
    BY <1>1, <1>5 DEF StopsAt
  <2> QED BY <2>1, <2>2, RegisterBehind
<1> QED BY <1>2, <1>3, <1>4, <1>5

\* receivedPacketHistory.ReceivedPacket adds exactly p and keeps the list sorted
\* with gaps between its intervals; the list grows by one interval at most.
THEOREM ReceivedPacketCorrect ==
  ASSUME NEW rs \in Seq(PacketInterval), WellFormed(rs), NEW p \in Nat \ {0}
  PROVE  LET q == ReceivedPacketRanges(rs, p) IN
         /\ q \in Seq(PacketInterval)
         /\ q # <<>> /\ Len(q) <= Len(rs) + 1
         /\ WellFormed(q)
         /\ Covered(q) = Covered(rs) \cup {p}
<1> DEFINE q == ReceivedPacketRanges(rs, p)
           stops == {i \in DOMAIN rs : StopsAt(rs[i], p)}
<1>0. \A j \in 1 .. Len(rs) : /\ rs[j].Start \in Nat /\ rs[j].End \in Nat
                              /\ rs[j].Start <= rs[j].End
  BY WellFormedProps
<1>1. \A j \in 1 .. Len(rs) : ~ StopsAt(rs[j], p) => p + 1 < rs[j].Start
  BY <1>0 DEF StopsAt, Includes
<1>2. Registered(rs, q, p)
  <2>1. CASE stops = {}
    <3>1. q = <<Single(p)>> \o rs
      BY <2>1 DEF ReceivedPacketRanges
    <3>2. \A j \in 1 .. Len(rs) : p + 1 < rs[j].Start
      BY <2>1, <1>1
    <3> QED BY <3>1, <3>2, RegisterInFront
  <2>2. CASE stops # {}
    <3> DEFINE i == Max(stops)
    <3>1. q = ReceivedAt(rs, i, p)
      BY <2>2 DEF ReceivedPacketRanges
    <3>2. i \in stops /\ \A j \in stops : i >= j
      <4>1. stops \in SUBSET Nat /\ Len(rs) \in Nat /\ \A j \in stops : j <= Len(rs)
        OBVIOUS
      <4> HIDE DEF stops
      <4> QED BY <4>1, <2>2, MaxProps
    <3> HIDE DEF i
    <3>3. i \in 1 .. Len(rs) /\ StopsAt(rs[i], p)
      BY <3>2
    <3>4. \A j \in 1 .. Len(rs) : j > i => p + 1 < rs[j].Start
      BY <3>2, <3>3, <1>1
    <3> HIDE DEF q
    <3> QED BY <3>1, <3>3, <3>4, ReceivedAtProps
  <2> QED BY <2>1, <2>2
<1> HIDE DEF q
<1>3. q \in Seq(PacketInterval) /\ WellFormed(q) /\ 1 <= Len(q) /\ Len(q) <= Len(rs) + 1
  BY <1>2 DEF Registered
<1>4. q # <<>>
  BY <1>3
<1>5. Covered(q) = Covered(rs) \cup {p}
  <2>1. \A x \in Nat : x \in Covered(q) <=> x \in Covered(rs) \/ x = p
    BY <1>2, <1>3, CoveredIff DEF Registered
  <2>2. Covered(q) \subseteq Nat /\ Covered(rs) \subseteq Nat
    BY <1>3, CoveredNat
  <2> QED BY <2>1, <2>2
<1> QED BY <1>3, <1>4, <1>5 DEF q
-----------------------------------------------------------------------------
(* DeleteUpTo and GetAckRanges *)

\* receivedPacketHistory.DeleteUpTo removes exactly the numbers up to p and
\* keeps the list sorted with gaps between its intervals.
THEOREM DeleteUpToCorrect ==
  ASSUME NEW rs \in Seq(PacketInterval), WellFormed(rs), NEW p \in Nat
  PROVE  LET q == DeleteUpTo(rs, p) IN
         /\ q \in Seq(PacketInterval)
         /\ Len(q) <= Len(rs)
         /\ WellFormed(q)
         /\ Covered(q) = {x \in Covered(rs) : x > p}
<1> DEFINE q == DeleteUpTo(rs, p)
           above == {i \in DOMAIN rs : rs[i].End > p}
<1>0. /\ \A j \in 1 .. Len(rs) : /\ rs[j].Start \in Nat \ {0} /\ rs[j].End \in Nat \ {0}
                                 /\ rs[j].Start <= rs[j].End
      /\ \A j, k \in 1 .. Len(rs) : j < k => rs[j].End + 1 < rs[k].Start
  BY WellFormedProps
<1>1. /\ q \in Seq(PacketInterval)
      /\ Len(q) <= Len(rs)
      /\ WellFormed(q)
      /\ \A x \in Nat :
           (\E i \in 1 .. Len(q) : q[i].Start <= x /\ x <= q[i].End)
             <=> /\ \E i \in 1 .. Len(rs) : rs[i].Start <= x /\ x <= rs[i].End
                 /\ x > p
  <2>1. CASE above = {}
    <3>1. q = <<>>
      BY <2>1 DEF DeleteUpTo
    <3>2. \A i \in 1 .. Len(rs) : rs[i].End <= p
      BY <2>1, <1>0
    <3>3. q \in Seq(PacketInterval) /\ Len(q) = 0 /\ WellFormed(q)
      BY <3>1 DEF WellFormed
    <3> QED BY <3>2, <3>3, <1>0
  <2>2. CASE above # {}
    <3> DEFINE k == Min(above)
               kept == SubSeq(rs, k, Len(rs))
               start == IF rs[k].Start <= p THEN p + 1 ELSE rs[k].Start
               first == [Start |-> start, End |-> rs[k].End]
    <3>1. k \in above /\ \A j \in above : k <= j
      <4>1. above \in SUBSET Nat
        OBVIOUS
      <4> HIDE DEF above
      <4> QED BY <4>1, <2>2, MinProps
    <3>q. q = IF rs[k].Start <= p
              THEN ReplaceAt(kept, 1, [rs[k] EXCEPT !.Start = p + 1])
              ELSE kept
      BY <2>2 DEF DeleteUpTo
    <3> HIDE DEF k
    <3>2. k \in 1 .. Len(rs) /\ rs[k].End > p
      BY <3>1
    <3>3. \A j \in 1 .. Len(rs) : j < k => rs[j].End <= p
      <4> SUFFICES ASSUME NEW j \in 1 .. Len(rs), j < k
                   PROVE  rs[j].End <= p
        OBVIOUS
      <4>1. j \in Nat /\ k \in Nat /\ ~ (k <= j)
        BY <3>2
      <4>2. j \notin above
        <5> HIDE DEF above
        <5> QED BY <3>1, <4>1
      <4>3. rs[j].End \in Nat /\ ~ (rs[j].End > p)
        BY <4>2, <1>0
      <4> QED BY <4>3
    <3>4. /\ kept \in Seq(PacketInterval) /\ Len(kept) = Len(rs) - k + 1
          /\ \A j \in 1 .. Len(rs) - k + 1 : kept[j] = rs[k + j - 1]
      <4>1. \A j \in k .. Len(rs) : rs[j] \in PacketInterval
        BY <3>2, IntervalTypes
      <4> QED BY <4>1, <3>2, SubSeqProperties
    <3>5. rs[k] \in PacketInterval /\ rs[k].Start \in Nat \ {0} /\ rs[k].End \in Nat \ {0}
      BY <3>2, IntervalTypes
    <3>6. /\ first \in PacketInterval /\ first.End = rs[k].End
          /\ first.Start = IF rs[k].Start <= p THEN p + 1 ELSE rs[k].Start
      <4>1. start \in Nat \ {0}
        BY <3>5
      <4> QED BY <4>1, <3>5 DEF PacketInterval
    <3>7. /\ q \in Seq(PacketInterval) /\ Len(q) = Len(rs) - k + 1
          /\ q[1].Start = first.Start /\ q[1].End = first.End
          /\ \A j \in 2 .. Len(q) : q[j] = rs[k + j - 1]
      <4> HIDE DEF kept, q
      <4>1. CASE rs[k].Start <= p
        <5> DEFINE e == [rs[k] EXCEPT !.Start = p + 1]
        <5>1. e \in PacketInterval /\ e.Start = first.Start /\ e.End = first.End
          BY <4>1, <3>5, <3>6 DEF PacketInterval
        <5>2. q = ReplaceAt(kept, 1, e)
          BY <4>1, <3>q
        <5>3. 1 \in 1 .. Len(kept)
          BY <3>2, <3>4
        <5> HIDE DEF e, first
        <5>4. /\ q \in Seq(PacketInterval) /\ Len(q) = Len(kept)
              /\ \A j \in 1 .. Len(kept) : q[j] = IF j = 1 THEN e ELSE kept[j]
          BY <5>1, <5>2, <5>3, <3>4, ReplaceAtProps
        <5> QED BY <5>1, <5>3, <5>4, <3>4
      <4>2. CASE ~ (rs[k].Start <= p)
        <5>1. q = kept
          BY <4>2, <3>q
        <5>2. 1 \in 1 .. Len(rs) - k + 1 /\ k + 1 - 1 = k
          BY <3>2
        <5>3. kept[1] = rs[k]
          BY <5>2, <3>4
        <5> HIDE DEF first
        <5> QED BY <5>1, <5>3, <4>2, <3>4, <3>6
      <4> QED BY <4>1, <4>2
    <3> HIDE DEF q, first, kept
    <3>8. /\ first.Start \in Nat /\ first.End \in Nat /\ first.Start <= first.End
          /\ rs[k].Start <= first.Start
          /\ \A x \in Nat : first.Start <= x /\ x <= first.End
                          <=> rs[k].Start <= x /\ x <= rs[k].End /\ x > p
      BY <3>2, <3>5, <3>6, <1>0
    <3>9. \A j \in 2 .. Len(q) : k + j - 1 \in 1 .. Len(rs) /\ k < k + j - 1
      BY <3>2, <3>7
    <3>10. WellFormed(q)
      <4>1. ASSUME NEW j \in 1 .. Len(q)
            PROVE  q[j].Start <= q[j].End
        <5>1. CASE j = 1
          BY <5>1, <3>7, <3>8
        <5>2. CASE j # 1
          <6>1. j \in 2 .. Len(q)
            BY <5>2
          <6> QED BY <6>1, <3>7, <3>9, <1>0
        <5> QED BY <5>1, <5>2
      <4>2. ASSUME NEW i \in 1 .. Len(q), NEW j \in 1 .. Len(q), i < j
            PROVE  q[i].End + 1 < q[j].Start
        <5>1. j \in 2 .. Len(q)
          BY <4>2
        <5>2. q[j] = rs[k + j - 1] /\ k + j - 1 \in 1 .. Len(rs) /\ k < k + j - 1
          BY <5>1, <3>7, <3>9
        <5>3. CASE i = 1
          BY <5>2, <5>3, <3>2, <3>6, <3>7, <1>0
        <5>4. CASE i # 1
          <6>1. i \in 2 .. Len(q) /\ k + i - 1 < k + j - 1
            BY <5>4, <4>2, <3>2
          <6>2. q[i] = rs[k + i - 1] /\ k + i - 1 \in 1 .. Len(rs)
            BY <6>1, <3>7, <3>9
          <6> QED BY <6>1, <6>2, <5>2, <1>0
        <5> QED BY <5>3, <5>4
      <4>3. DOMAIN q = 1 .. Len(q)
        BY <3>7
      <4> QED BY <4>1, <4>2, <4>3, Zenon DEF WellFormed
    <3>11. ASSUME NEW x \in Nat
           PROVE  (\E i \in 1 .. Len(q) : q[i].Start <= x /\ x <= q[i].End)
                    <=> /\ \E i \in 1 .. Len(rs) : rs[i].Start <= x /\ x <= rs[i].End
                        /\ x > p
      <4>1. ASSUME NEW i \in 1 .. Len(q), q[i].Start <= x, x <= q[i].End
            PROVE  /\ \E j \in 1 .. Len(rs) : rs[j].Start <= x /\ x <= rs[j].End
                   /\ x > p
        <5>1. CASE i = 1
          BY <5>1, <4>1, <3>2, <3>7, <3>8
        <5>2. CASE i # 1
          <6>1. i \in 2 .. Len(q)
            BY <5>2
          <6>2. q[i] = rs[k + i - 1] /\ k + i - 1 \in 1 .. Len(rs) /\ k < k + i - 1
            BY <6>1, <3>7, <3>9
          <6>3. rs[k].End + 1 < rs[k + i - 1].Start
            BY <6>2, <3>2, <1>0
          <6>4. rs[k + i - 1].Start \in Nat
            BY <6>2, <1>0
          <6>5. x > p
            <7> DEFINE a == rs[k].End
                       b == rs[k + i - 1].Start
            <7>1. a \in Nat /\ b \in Nat /\ a > p /\ a + 1 < b /\ b <= x
              BY <6>2, <6>3, <6>4, <4>1, <3>2, <3>5
            <7> HIDE DEF a, b
            <7> QED BY <7>1
          <6> QED BY <6>2, <6>5, <4>1
        <5> QED BY <5>1, <5>2
      <4>2. ASSUME NEW j \in 1 .. Len(rs), rs[j].Start <= x, x <= rs[j].End, x > p
            PROVE  \E i \in 1 .. Len(q) : q[i].Start <= x /\ x <= q[i].End
        <5>1. j >= k
          <6>1. rs[j].End \in Nat
            BY <1>0
          <6>2. ~ (rs[j].End <= p)
            BY <6>1, <4>2
          <6> QED BY <6>2, <3>2, <3>3
        <5>2. CASE j = k
          <6>1. 1 \in 1 .. Len(q)
            BY <3>2, <3>7
          <6>2. first.Start <= x /\ x <= first.End
            BY <5>2, <4>2, <3>8
          <6> QED BY <6>1, <6>2, <3>7
        <5>3. CASE j > k
          <6>1. j - k + 1 \in 2 .. Len(q) /\ k + (j - k + 1) - 1 = j
            BY <5>3, <3>2, <3>7
          <6>2. q[j - k + 1] = rs[j] /\ j - k + 1 \in 1 .. Len(q)
            BY <6>1, <3>7
          <6> QED BY <6>2, <4>2
        <5> QED BY <5>1, <5>2, <5>3, <3>2
      <4> QED BY <4>1, <4>2
    <3>12. Len(q) <= Len(rs)
      BY <3>2, <3>7
    <3> QED BY <3>7, <3>10, <3>11, <3>12
  <2> QED BY <2>1, <2>2
<1> HIDE DEF q
<1>2. Covered(q) = {x \in Covered(rs) : x > p}
  <2>1. \A x \in Nat : x \in Covered(q) <=> x \in Covered(rs) /\ x > p
    BY <1>1, CoveredIff
  <2>2. Covered(q) \subseteq Nat /\ Covered(rs) \subseteq Nat
    BY <1>1, CoveredNat
  <2> QED BY <2>1, <2>2
<1> QED BY <1>1, <1>2 DEF q
=============================================================================
