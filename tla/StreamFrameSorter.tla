------------------------- MODULE StreamFrameSorter -------------------------
(***************************************************************************)
(* stream_frame_sorter.go: STREAM frames of one stream arrive in any order *)
(* and overlap each other; the sorter cuts them so that every byte is      *)
(* queued once and hands them out in order.                                *)
(*                                                                         *)
(* A frame is [Offset, Data, FinBit].  The bytes of the stream are told    *)
(* apart by their positions: Data is the sequence of the positions its     *)
(* bytes really have in the stream, so that a wrong cut is visible.  The   *)
(* linked list of gaps is a sequence of intervals [Start, End), the last   *)
(* of which is open-ended.                                                 *)
(***************************************************************************)
EXTENDS Naturals, Sequences, SequencesExt, FiniteSetsExt

CONSTANTS
  StreamLength,             \* bound: bytes of the stream
  Frames,                   \* the frames that may arrive
  MaxByteCount,             \* protocol.MaxByteCount
  MaxStreamFrameSorterGaps  \* protocol.MaxStreamFrameSorterGaps

\* The frame with the bytes from offset to end (exclusive)
FrameOf(offset, end, fin) ==
  [Offset |-> offset, FinBit |-> fin,
   Data |-> [i \in 1 .. end - offset |-> offset + i - 1]]

ASSUME SorterAssumption ==
  /\ StreamLength \in Nat /\ MaxByteCount \in Nat /\ StreamLength < MaxByteCount
  /\ MaxStreamFrameSorterGaps \in Nat
  /\ \A f \in Frames :
       \E offset, end \in 0 .. StreamLength :
         offset <= end /\ f = FrameOf(offset, end, f.FinBit)

VARIABLES
  queuedFrames,  \* from offsets to frames
  readPosition,
  gaps,
  failed,        \* an error other than errDuplicateStreamData was returned
  pushed         \* history variable: the bytes of all frames that arrived

vars == <<queuedFrames, readPosition, gaps, failed, pushed>>

Init ==
  /\ queuedFrames = [o \in {} |-> FrameOf(0, 0, FALSE)]
  /\ readPosition = 0
  /\ gaps = <<[Start |-> 0, End |-> MaxByteCount]>>
  /\ failed = FALSE
  /\ pushed = {}

DataLen(f) == Len(f.Data)
EndOf(f) == f.Offset + DataLen(f)

Queue(queue, f) ==
  [o \in DOMAIN queue \cup {f.Offset} |-> IF o = f.Offset THEN f ELSE queue[o]]

-----------------------------------------------------------------------------
(* The parts of Push *)

CutFront(f, n) ==
  [f EXCEPT !.Offset = @ + n, !.Data = SubSeq(@, n + 1, Len(@))]

CutBack(f, n) == [f EXCEPT !.Data = SubSeq(@, 1, Len(@) - n)]

\* A queued frame with the same offset, which has at least as many bytes, makes
\* f a duplicate.
IsQueued(f) ==
  /\ f.Offset \in DOMAIN queuedFrames
  /\ DataLen(f) <= DataLen(queuedFrames[f.Offset])

\* Otherwise f continues where that frame ends.
AfterQueued(f) ==
  IF f.Offset \in DOMAIN queuedFrames
  THEN CutFront(f, DataLen(queuedFrames[f.Offset])) ELSE f

\* The walk over the gaps stops at the first one behind f or touched by f.
FirstGap(f) ==
  Min({i \in DOMAIN gaps : EndOf(f) <= gaps[i].Start \/ f.Offset <= gaps[i].End})

\* Bytes in front of that gap have been received already.
IntoGap(f, gap) ==
  IF f.Offset < gap.Start THEN CutFront(f, gap.Start - f.Offset) ELSE f

\* The gap in which f ends, or behind which it ends before the next one
EndGap(f, first) ==
  Min({i \in first .. Len(gaps) :
         \/ EndOf(f) < gaps[i].End
         \/ i < Len(gaps) /\ EndOf(f) <= gaps[i + 1].Start})

\* Mutant: the queued frame is deleted before it is known that f covers it.
CoveredOffsets_BehindLast(first, last) == {gaps[i].End : i \in first .. last}

\* The frames behind all gaps but the last one that f covers are deleted (of
\* several frames in a row only the first one).
CoveredOffsets(first, last) == {gaps[i].End : i \in first .. last - 1}

OutOfGap(f, gap) ==
  IF EndOf(f) > gap.End THEN CutBack(f, EndOf(f) - gap.End) ELSE f

\* What is left of the gaps from first to last when f fills them
Gap(start, end) == IF start < end THEN <<[Start |-> start, End |-> end]>> ELSE <<>>

\* Mutant: the rest of the last gap is forgotten when several gaps are filled.
GapsWithout_LosesRest(f, first, last) ==
  SubSeq(gaps, 1, first - 1)
    \o Gap(gaps[first].Start, f.Offset)
    \o (IF first = last THEN Gap(EndOf(f), gaps[last].End) ELSE <<>>)
    \o SubSeq(gaps, last + 1, Len(gaps))

GapsWithout(f, first, last) ==
  SubSeq(gaps, 1, first - 1)
    \o Gap(gaps[first].Start, f.Offset)
    \o Gap(EndOf(f), gaps[last].End)
    \o SubSeq(gaps, last + 1, Len(gaps))

TooManyGaps(gs) == Len(gs) > MaxStreamFrameSorterGaps

-----------------------------------------------------------------------------
(* Push *)

\* A frame without data is queued for its FIN bit, whatever is queued there.
PushEmpty(f) ==
  /\ DataLen(f) = 0
  /\ IF f.FinBit
     THEN queuedFrames' = Queue(queuedFrames, f) /\ UNCHANGED failed
     ELSE failed' = TRUE /\ UNCHANGED queuedFrames
  /\ UNCHANGED <<readPosition, gaps, pushed>>

\* errDuplicateStreamData, which stream.AddStreamFrame ignores
PushDuplicate(f) ==
  /\ DataLen(f) > 0
  /\ \/ IsQueued(f)
     \/ LET cut == AfterQueued(f) IN EndOf(cut) <= gaps[FirstGap(cut)].Start
  /\ UNCHANGED vars

PushNew(f) ==
  LET cut == AfterQueued(f)
      first == FirstGap(cut)
      in == IntoGap(cut, gaps[first])
      last == EndGap(in, first)
      new == OutOfGap(in, gaps[last])
      remaining == [o \in DOMAIN queuedFrames \ CoveredOffsets(first, last)
                      |-> queuedFrames[o]]
  IN
  /\ DataLen(f) > 0
  /\ ~ IsQueued(f)
  /\ EndOf(cut) > gaps[first].Start
  /\ gaps' = GapsWithout(new, first, last)
  /\ IF TooManyGaps(gaps')
     THEN failed' = TRUE /\ queuedFrames' = remaining
     ELSE UNCHANGED failed /\ queuedFrames' = Queue(remaining, new)
  /\ pushed' = pushed \cup Range(f.Data)
  /\ UNCHANGED readPosition

Pop ==
  /\ readPosition \in DOMAIN queuedFrames
  /\ readPosition' = EndOf(queuedFrames[readPosition])
  /\ queuedFrames' = [o \in DOMAIN queuedFrames \ {readPosition} |-> queuedFrames[o]]
  /\ UNCHANGED <<gaps, failed, pushed>>

Next ==
  /\ ~ failed
  /\ \/ \E f \in Frames : PushEmpty(f) \/ PushDuplicate(f) \/ PushNew(f)
     \/ Pop

Spec == Init /\ [][Next]_vars

-----------------------------------------------------------------------------
(* Properties *)

\* The gaps are in ascending order, do not touch each other, and leave out
\* exactly the bytes that have arrived: no overlap makes the sorter forget a
\* byte it has, or believe that it has one it never got.  There are no more of
\* them than allowed, unless the stream fails.
GapsExact ==
  /\ ~ failed => Len(gaps) <= MaxStreamFrameSorterGaps
  /\ \A i \in DOMAIN gaps : gaps[i].Start < gaps[i].End
  /\ \A i, j \in DOMAIN gaps : i < j => gaps[i].End < gaps[j].Start
  /\ \A b \in 0 .. StreamLength - 1 :
       b \in pushed <=> ~ \E g \in Range(gaps) : g.Start <= b /\ b < g.End

\* When the next byte has arrived, a frame that starts with it is queued: the
\* reader never waits for data that the sorter has, although frames are cut,
\* replaced and deleted while they are queued.  And what is queued, however it was
\* cut, are the bytes at its offset.
HeadAvailable ==
  /\ readPosition \in pushed /\ ~ failed =>
       /\ readPosition \in DOMAIN queuedFrames
       /\ DataLen(queuedFrames[readPosition]) > 0
  /\ \A o \in DOMAIN queuedFrames :
       /\ queuedFrames[o].Offset = o
       /\ \A i \in DOMAIN queuedFrames[o].Data : queuedFrames[o].Data[i] = o + i - 1

\* stream.Read implements io.Reader: it reports EOF, after the frame with the
\* FIN bit, only when the whole stream has been read.
EOFAtTheEnd ==
  readPosition \in DOMAIN queuedFrames /\ queuedFrames[readPosition].FinBit =>
    EndOf(queuedFrames[readPosition]) = StreamLength
=============================================================================
