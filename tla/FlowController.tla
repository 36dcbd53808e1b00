--------------------------- MODULE FlowController ---------------------------
(***************************************************************************)
(* internal/flowcontrol/flow_controller.go: the windows of one stream or   *)
(* of the connection.  A controller is a record with the fields of the Go  *)
(* struct; every method is an operator from the record before the call to  *)
(* the record after it.                                                    *)
(*                                                                         *)
(* Of lastWindowUpdateTime only whether it is set is kept (autotune).      *)
(* Whether the last update is less than two round trips ago, so that the   *)
(* increment is doubled, is a parameter (recent).                          *)
(***************************************************************************)
EXTENDS Naturals

ByteCount == Nat

Controllers ==
  [bytesSent : ByteCount, sendWindow : ByteCount, bytesRead : ByteCount,
   highestReceived : ByteCount, receiveWindow : ByteCount,
   receiveWindowIncrement : ByteCount, autotune : BOOLEAN]

MinByteCount(a, b) == IF a < b THEN a ELSE b

newFlowController(window) ==
  [bytesSent |-> 0, sendWindow |-> 0, bytesRead |-> 0, highestReceived |-> 0,
   receiveWindow |-> window, receiveWindowIncrement |-> window,
   autotune |-> FALSE]

-----------------------------------------------------------------------------
(* Sending.  negotiated is the window of the connection parameters, which   *)
(* is used until the first WINDOW_UPDATE frame arrives.                     *)

getSendWindow(c, negotiated) ==
  IF c.sendWindow = 0 THEN negotiated ELSE c.sendWindow

SendWindowSize(c, negotiated) ==
  IF c.bytesSent > getSendWindow(c, negotiated) THEN 0
  ELSE getSendWindow(c, negotiated) - c.bytesSent

AddBytesSent(c, n) == [c EXCEPT !.bytesSent = @ + n]

\* Mutant: the last frame wins.
UpdateSendWindow_Any(c, newOffset) == [c EXCEPT !.sendWindow = newOffset]

UpdateSendWindow(c, newOffset) ==
  IF newOffset > c.sendWindow THEN [c EXCEPT !.sendWindow = newOffset] ELSE c

-----------------------------------------------------------------------------
(* Receiving *)

\* The bytes by which an offset exceeds what was received before; a smaller
\* offset is ErrReceivedSmallerByteOffset and changes nothing.
Increment(c, byteOffset) ==
  IF byteOffset > c.highestReceived THEN byteOffset - c.highestReceived ELSE 0

IncrementHighestReceived(c, n) == [c EXCEPT !.highestReceived = @ + n]

AddBytesRead(c, n) ==
  [c EXCEPT !.bytesRead = @ + n, !.autotune = @ \/ c.bytesRead = 0]

CheckFlowControlViolation(c) == c.highestReceived > c.receiveWindow

maybeAdjustWindowIncrement(c, max, recent) ==
  IF c.autotune /\ recent
  THEN [c EXCEPT !.receiveWindowIncrement = MinByteCount(2 * @, max)]
  ELSE c

\* Mutant: the window is only updated when less than nothing is left.
UpdateNecessary_Never(c) == c.receiveWindow - c.bytesRead < 0

UpdateNecessary(c) ==
  c.receiveWindow - c.bytesRead < c.receiveWindowIncrement \div 2

\* The controller after MaybeUpdateWindow
MaybeUpdateWindow(c, max, recent) ==
  IF ~ UpdateNecessary(c) THEN c
  ELSE LET adjusted == maybeAdjustWindowIncrement(c, max, recent) IN
       [adjusted EXCEPT !.autotune = TRUE,
                        !.receiveWindow = c.bytesRead + adjusted.receiveWindowIncrement]

\* The increment MaybeUpdateWindow returns: that of a window that is updated
\* only if it changed, that of a window that is not updated always.
ReturnedIncrement(c, max, recent) ==
  LET new == MaybeUpdateWindow(c, max, recent).receiveWindowIncrement IN
  IF UpdateNecessary(c) /\ new = c.receiveWindowIncrement THEN 0 ELSE new

\* Mutant: only autotuning is switched off.
EnsureMinimumWindowIncrement_NotRaised(c, inc, max) ==
  IF inc > c.receiveWindowIncrement THEN [c EXCEPT !.autotune = FALSE] ELSE c

EnsureMinimumWindowIncrement(c, inc, max) ==
  IF inc > c.receiveWindowIncrement
  THEN [c EXCEPT !.receiveWindowIncrement = MinByteCount(inc, max),
                 !.autotune = FALSE]
  ELSE c
=============================================================================
