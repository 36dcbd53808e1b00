----------------------- MODULE ReceivedPacketHistory -----------------------
(***************************************************************************)
(* ackhandler/received_packet_history.go: the packet numbers received on   *)
(* one path, kept as a list of intervals in ascending order.  The linked   *)
(* list is a sequence; every operation of the Go type is an operator from  *)
(* the list before the call to the list after it.                          *)
(***************************************************************************)
EXTENDS Naturals, Sequences, SequencesExt, FiniteSetsExt

CONSTANT MaxTrackedReceivedAckRanges

ASSUME MaxRangesAssumption == MaxTrackedReceivedAckRanges \in Nat \ {0}

PacketInterval == [Start : Nat \ {0}, End : Nat \ {0}]

\* The interval inserted for a packet number that extends no other one.
Single(p) == [Start |-> p, End |-> p]

Includes(r, p) == p >= r.Start /\ p <= r.End

\* The packet numbers the list stands for.
Covered(ranges) == UNION {r.Start .. r.End : r \in Range(ranges)}

\* Intervals are in ascending order, and between two of them at least one
\* packet number is missing.
WellFormed(ranges) ==
  /\ \A i \in DOMAIN ranges : ranges[i].Start <= ranges[i].End
  /\ \A i, j \in DOMAIN ranges :
        i < j => ranges[i].End + 1 < ranges[j].Start

-----------------------------------------------------------------------------
(* ReceivedPacket *)

RangesFull(ranges) == Len(ranges) >= MaxTrackedReceivedAckRanges

\* The walk from the back of the list ends at the first element that holds p,
\* touches p, or lies below p.
StopsAt(el, p) ==
  \/ Includes(el, p)
  \/ el.End + 1 = p
  \/ el.Start = p + 1
  \/ p > el.End

\* Element i has just been extended: join it with its predecessor when no
\* number is missing between them any more.
MergeWithPrev(ranges, i) ==
  IF i > 1 /\ ranges[i - 1].End + 1 = ranges[i].Start
  THEN RemoveAt(ReplaceAt(ranges, i - 1,
                  [ranges[i - 1] EXCEPT !.End = ranges[i].End]), i)
  ELSE ranges

\* What the walk does at element i, where it ends.
ReceivedAt(ranges, i, p) ==
  LET el == ranges[i] IN
  CASE Includes(el, p) -> ranges
    [] ~ Includes(el, p) /\ el.End + 1 = p ->
         MergeWithPrev(ReplaceAt(ranges, i, [el EXCEPT !.End = p]), i)
    [] ~ Includes(el, p) /\ el.Start = p + 1 ->
         MergeWithPrev(ReplaceAt(ranges, i, [el EXCEPT !.Start = p]), i)
    [] OTHER -> InsertAt(ranges, i + 1, Single(p))

ReceivedPacketRanges(ranges, p) ==
  LET stops == {i \in DOMAIN ranges : StopsAt(ranges[i], p)} IN
  IF stops = {} THEN <<Single(p)>> \o ranges
                ELSE ReceivedAt(ranges, Max(stops), p)

-----------------------------------------------------------------------------
(* DeleteUpTo, GetAckRanges, GetHighestAckRange *)

\* Mutant: a range that p cuts through is dropped as a whole.
DeleteUpTo_DropsCutRange(ranges, p) == SelectSeq(ranges, LAMBDA r : r.Start > p)

\* The walk from the front: intervals up to p are dropped, the one p cuts
\* through starts behind p, and the walk ends at the first one above p.
DeleteUpTo(ranges, p) ==
  LET above == {i \in DOMAIN ranges : ranges[i].End > p} IN
  IF above = {} THEN <<>>
  ELSE LET k == Min(above)
           kept == SubSeq(ranges, k, Len(ranges))
       IN  IF ranges[k].Start <= p
           THEN ReplaceAt(kept, 1, [ranges[k] EXCEPT !.Start = p + 1])
           ELSE kept

\* Mutant: the list is handed out in its own order.
GetAckRanges_Ascending(ranges) == ranges

\* Highest interval first, as an ACK frame lists them.
GetAckRanges(ranges) == Reverse(ranges)

\* The zero value when nothing is tracked.
GetHighestAckRange(ranges) ==
  IF ranges = <<>> THEN [Start |-> 0, End |-> 0] ELSE Last(ranges)
=============================================================================
