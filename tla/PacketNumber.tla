---------------------------- MODULE PacketNumber ----------------------------
(***************************************************************************)
(* internal/protocol/packet_number.go: packet numbers are sent truncated   *)
(* to a few bytes.  The sender chooses the length from the packets that    *)
(* are outstanding, the receiver infers the number from the largest one it *)
(* has received.                                                           *)
(***************************************************************************)
EXTENDS Integers

CONSTANT B        \* number of values of a byte: 256 in the program

ASSUME ByteAssumption == B \in Nat /\ B > 1

delta(a, b) == IF a < b THEN b - a ELSE a - b

closestTo(target, a, b) == IF delta(target, a) < delta(target, b) THEN a ELSE b

\* Mutant: the epoch before the current one is not considered.
Infer_NoPrevious(E, M, last, wire) ==
  LET epoch == last - (last % E)
  IN closestTo(last + 1, epoch + wire, (((epoch + E) % M) + wire) % M)

\* The number closest to last + 1 among those that end in wire: E is the number
\* of different values on the wire, and numbers are unsigned, below M.
Infer(E, M, last, wire) ==
  LET epoch == last - (last % E)
      prevEpochBegin == (epoch - E) % M
      nextEpochBegin == (epoch + E) % M
  IN closestTo(last + 1, epoch + wire,
       closestTo(last + 1, (prevEpochBegin + wire) % M, (nextEpochBegin + wire) % M))

InferPacketNumber(len, last, wire) == Infer(B^len, B^8, last, wire)

GetPacketNumberLengthForPublicHeader(packet, leastUnacked) ==
  LET diff == (packet - leastUnacked) % B^8 IN
  IF diff < B^2 \div 2 THEN 2 ELSE IF diff < B^4 \div 2 THEN 4 ELSE 6

GetPacketNumberLength(n) ==
  IF n < B THEN 1 ELSE IF n < B^2 THEN 2 ELSE IF n < B^4 THEN 4 ELSE 6

=============================================================================
