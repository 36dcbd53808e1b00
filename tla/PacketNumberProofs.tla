------------------------- MODULE PacketNumberProofs -------------------------
(***************************************************************************)
(* What InferPacketNumber computes, for every number of values of a byte   *)
(* and every length of a packet number.                                    *)
(***************************************************************************)
EXTENDS PacketNumber, TLAPS

\* Division with remainder, for the two remainders that Infer takes
LEMMA DivMod ==
  ASSUME NEW E \in Nat \ {0}, NEW n \in Nat
  PROVE  /\ n = E * (n \div E) + (n % E)
         /\ n \div E \in Nat /\ n % E \in 0..E - 1
  BY Z3

\* A multiple of E below 2 * E and above - 2 * E is one of three.
LEMMA SmallMultiple ==
  ASSUME NEW E \in Nat \ {0}, NEW k \in Int, k * E < 2 * E, -(2 * E) < k * E
  PROVE  k \in {-1, 0, 1}
<1>1. ~ (k >= 2)
  BY Z3
<1>2. ~ (k <= -2)
  BY Z3
<1> QED
  BY <1>1, <1>2

\* An unsigned sum that does not overflow is the sum; an epoch before the first one
\* wraps around.
LEMMA Wrap ==
  ASSUME NEW M \in Nat \ {0}, NEW n \in Int
  PROVE  /\ 0 <= n /\ n < M => n % M = n
         /\ n < 0 /\ -M <= n => n % M = n + M
  BY Z3

\* InferPacketNumber: a number that is less than half an epoch away from the one
\* expected next is the only one among the three candidates that is, so it comes back
\* from its last bytes.  The numbers are far from the largest one that fits M.
THEOREM InferExact ==
  ASSUME NEW E \in Nat \ {0}, NEW M \in Nat \ {0}, NEW last \in Nat, NEW p \in Nat,
         2 * delta(last + 1, p) < E, last + 3 * E < M
  PROVE  Infer(E, M, last, p % E) = p
<1> DEFINE w == p % E
           e == last - (last % E)
           k == (p \div E) - (last \div E)
<1>1. /\ w \in 0..E - 1 /\ e \in Nat /\ e <= last /\ last < e + E
      /\ p = w + e + k * E /\ k \in Int /\ e = E * (last \div E)
  <2>1. p = E * (p \div E) + w /\ p \div E \in Nat /\ w \in 0..E - 1
    BY DivMod
  <2>2. last = E * (last \div E) + (last % E) /\ last \div E \in Nat /\ last % E \in 0..E - 1
    BY DivMod
  <2>3. E * (last \div E) \in Nat /\ E * (p \div E) \in Nat
    BY <2>1, <2>2
  <2>4. k * E = E * (p \div E) - E * (last \div E)
    BY <2>1, <2>2
  <2> QED
    BY <2>1, <2>2, <2>3, <2>4
<1>2. /\ 2 * (p - (last + 1)) < E /\ 2 * ((last + 1) - p) < E
  BY DEF delta
<1> HIDE DEF w, e, k
<1>3. k \in {-1, 0, 1}
  <2>1. k * E \in Int
    BY <1>1
  <2>2. k * E < 2 * E /\ -(2 * E) < k * E
    BY <1>1, <1>2, <2>1
  <2> QED
    BY <1>1, <2>2, SmallMultiple
<1> DEFINE prev == (((e - E) % M) + w) % M
           next == (((e + E) % M) + w) % M
<1>4. next = e + E + w
  <2>1. (e + E) % M = e + E
    <3>1. e + E \in Int /\ 0 <= e + E /\ e + E < M
      BY <1>1
    <3> QED
      BY <3>1, Wrap
  <2>2. (e + E + w) % M = e + E + w
    <3>1. e + E + w \in Int /\ 0 <= e + E + w /\ e + E + w < M
      BY <1>1
    <3> QED
      BY <3>1, Wrap
  <2> QED
    BY <2>1, <2>2
<1>5. \/ e >= E /\ prev = e - E + w
      \/ e = 0 /\ prev = M - E + w
  <2>1. CASE e >= E
    <3>1. (e - E) % M = e - E
      BY <1>1, <2>1, Wrap
    <3>2. (e - E + w) % M = e - E + w
      <4>1. e - E + w \in Int /\ 0 <= e - E + w /\ e - E + w < M
        BY <1>1, <2>1
      <4> QED
        BY <4>1, Wrap
    <3> QED
      BY <2>1, <3>1, <3>2
  <2>2. CASE e < E
    <3>1. e = 0
      <4>1. last \div E \in Nat
        BY DivMod
      <4>2. ~ (last \div E >= 1)
        BY <1>1, <2>2, <4>1
      <4> QED
        BY <1>1, <4>1, <4>2
    <3>2. (e - E) % M = M - E
      <4>1. e - E \in Int /\ e - E < 0 /\ -M <= e - E
        BY <3>1
      <4>2. (e - E) % M = e - E + M
        BY <4>1, Wrap
      <4> QED
        BY <3>1, <4>2
    <3>3. (M - E + w) % M = M - E + w
      <4>1. M - E + w \in Int /\ 0 <= M - E + w /\ M - E + w < M
        BY <1>1
      <4> QED
        BY <4>1, Wrap
    <3> QED
      BY <3>1, <3>2, <3>3
  <2> QED
    BY <1>1, <2>1, <2>2
<1>6. Infer(E, M, last, w) = closestTo(last + 1, e + w, closestTo(last + 1, prev, next))
  BY DEF Infer, w, e
<1> HIDE DEF prev, next
<1>7. p = w + e - E \/ p = w + e \/ p = w + e + E
  BY <1>1, <1>3
<1>8. closestTo(last + 1, e + w, closestTo(last + 1, prev, next)) = p
  <2>1. CASE p = w + e
    BY <2>1, <1>1, <1>2, <1>4, <1>5 DEF closestTo, delta
  <2>2. CASE p = w + e + E
    BY <2>2, <1>1, <1>2, <1>4, <1>5 DEF closestTo, delta
  <2>3. CASE p = w + e - E
    BY <2>3, <1>1, <1>2, <1>4, <1>5 DEF closestTo, delta
  <2> QED
    BY <1>7, <2>1, <2>2, <2>3
<1> QED
  BY <1>6, <1>8 DEF w

=============================================================================
