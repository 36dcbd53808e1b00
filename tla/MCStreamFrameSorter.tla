------------------------ MODULE MCStreamFrameSorter ------------------------
(* StreamFrameSorter with two sets of frames.                               *)
EXTENDS StreamFrameSorter

CONSTANT Length

Pieces == {p \in (0 .. Length) \X (0 .. Length) : p[1] < p[2]}

\* Any part of the stream, with FIN when the sender knew that it was the last
\* one, and the FIN on its own
AnyFrames ==
  {FrameOf(p[1], p[2], FALSE) : p \in Pieces}
    \cup {FrameOf(p[1], Length, TRUE) : p \in {q \in Pieces : q[2] = Length}}
    \cup {FrameOf(Length, Length, TRUE)}

\* A frame with all data and FIN, and the two frames into which
\* maybeSplitOffFrame cuts it when it is retransmitted
SplitFrames ==
  {FrameOf(0, Length, TRUE)}
    \cup UNION {{FrameOf(0, n, FALSE), FrameOf(n, Length, TRUE)} : n \in 1 .. Length - 1}
=============================================================================
