------------------------ MODULE FlowControlExchange ------------------------
(***************************************************************************)
(* The flow control managers of two endpoints: one sends data on its       *)
(* streams, the other one receives, reads and sends WINDOW_UPDATE frames.  *)
(* STREAM, RST_STREAM, BLOCKED and WINDOW_UPDATE frames travel on several  *)
(* paths: they arrive in any order, more than once, or not at all until    *)
(* they are retransmitted.                                                 *)
(*                                                                         *)
(* streamFramer.maybePopNormalFrames decides how much may be sent,         *)
(* stream.AddStreamFrame and stream.Read account for what arrives and is   *)
(* read, scheduler.ackRemainingPaths asks for window updates.              *)
(***************************************************************************)
EXTENDS Naturals, FiniteSets, FiniteSetsExt, Functions

CONSTANTS
  StreamIDs, NotContributing, ReceiveStreamWindow, MaxReceiveStreamWindow,
  ReceiveConnectionWindow, MaxReceiveConnectionWindow,
  InitialStreamWindow, InitialConnectionWindow, \* protocol.Initial...Window
  StreamLength,       \* bound: the bytes of each stream, after which FIN is sent
  MaxFrameLength,     \* bound: bytes of a STREAM frame
  Resettable          \* streams the sender may reset

\* The initial connection window is 1.5 times that of a stream, like the increments
\* (protocol.ReceiveConnectionFlowControlWindow).
ASSUME ExchangeAssumption ==
  /\ IsFiniteSet(StreamIDs) /\ 0 \notin StreamIDs
  /\ NotContributing \subseteq StreamIDs
  /\ ReceiveStreamWindow \in Nat /\ MaxReceiveStreamWindow \in Nat
  /\ ReceiveStreamWindow <= MaxReceiveStreamWindow
  /\ ReceiveConnectionWindow \in Nat /\ MaxReceiveConnectionWindow \in Nat
  /\ ReceiveConnectionWindow <= MaxReceiveConnectionWindow
  /\ (3 * ReceiveStreamWindow) \div 2 <= ReceiveConnectionWindow
  /\ InitialStreamWindow \in Nat \ {0}
  /\ InitialStreamWindow <= ReceiveStreamWindow
  /\ InitialConnectionWindow \in Nat \ {0}
  /\ InitialConnectionWindow <= ReceiveConnectionWindow
  /\ StreamLength \in [StreamIDs -> Nat]
  /\ MaxFrameLength \in Nat
  /\ Resettable \subseteq StreamIDs

VARIABLES
  sndStreams, sndConn,          \* the sender's controllers
  rcvStreams, rcvConn, failed,  \* the receiver's manager
  removed,                      \* streams the receiver has removed
  negotiated,  \* the sender knows the receiver's windows
  frames,      \* the STREAM frames sent, as [StreamID, Offset, End]
  resetSent,   \* streams for which a RST_STREAM frame was sent
  resetRemotely, \* streams whose RST_STREAM frame arrived
  arrived,     \* the bytes of each stream that arrived
  readOffset,  \* stream.readOffset of each stream
  blockedSent, \* a BLOCKED frame is under way
  peerBlocked, \* session.peerBlocked of the receiver
  updates      \* the WINDOW_UPDATE frames sent

sndVars == <<sndStreams, sndConn, negotiated, frames, resetSent, blockedSent>>
rcvVars == <<rcvStreams, rcvConn, failed, removed, resetRemotely, arrived,
             readOffset, peerBlocked, updates>>
vars == <<sndVars, rcvVars>>

\* failed and removed are the receiver's in both: the operations of the sender
\* used here leave them unchanged.
S == INSTANCE FlowControlManager
       WITH streamFlowController <- sndStreams, connFlowController <- sndConn
R == INSTANCE FlowControlManager
       WITH streamFlowController <- rcvStreams, connFlowController <- rcvConn

Init ==
  /\ sndStreams = [id \in StreamIDs |-> S!newFlowController(ReceiveStreamWindow)]
  /\ sndConn = S!newFlowController(ReceiveConnectionWindow)
  /\ R!Init
  /\ negotiated = FALSE
  /\ frames = {}
  /\ resetSent = {}
  /\ resetRemotely = {}
  /\ arrived = [id \in StreamIDs |-> {}]
  /\ readOffset = [id \in StreamIDs |-> 0]
  /\ blockedSent = FALSE
  /\ peerBlocked = FALSE
  /\ updates = {}

-----------------------------------------------------------------------------
(* The sender *)

\* The windows of connectionParametersManager before and after the peer's
\* parameters were read
StreamParameter == IF negotiated THEN ReceiveStreamWindow ELSE InitialStreamWindow
ConnectionParameter ==
  IF negotiated THEN ReceiveConnectionWindow ELSE InitialConnectionWindow

SetFromMap ==
  /\ ~ negotiated
  /\ negotiated' = TRUE
  /\ UNCHANGED <<sndStreams, sndConn, frames, resetSent, blockedSent, rcvVars>>

\* Mutant: the window of the connection is not looked at.
Sendable_StreamOnly(id) == S!SendWindowSize(sndStreams[id], StreamParameter)

Sendable(id) == S!Sendable(id, StreamParameter, ConnectionParameter)

\* A frame with as many bytes as fit the windows, the packet, and the data;
\* writeOffset and bytesSent of a stream advance together.
SendStreamFrame(id) ==
  LET offset == sndStreams[id].bytesSent
      n == Min({Sendable(id), MaxFrameLength, StreamLength[id] - offset})
  IN
  /\ id \notin resetSent
  /\ n > 0
  /\ S!SendBytes(id, n)
  /\ frames' = frames \cup {[StreamID |-> id, Offset |-> offset, End |-> offset + n]}
  /\ blockedSent' =
       \/ blockedSent
       \/ S!SendWindowSize(sndConn', ConnectionParameter) = 0
       \/ Sendable(id) = n /\ offset + n < StreamLength[id]
  /\ UNCHANGED <<negotiated, resetSent, rcvVars>>

\* stream.Reset: the RST_STREAM frame has the write offset as its ByteOffset.
ResetLocally(id) ==
  /\ id \in Resettable \ resetSent
  /\ resetSent' = resetSent \cup {id}
  /\ UNCHANGED <<sndStreams, sndConn, negotiated, frames, blockedSent, rcvVars>>

ReceiveWindowUpdate(u) ==
  /\ S!UpdateWindow(u.StreamID, u.ByteOffset)
  /\ UNCHANGED <<negotiated, frames, resetSent, blockedSent, rcvVars>>

-----------------------------------------------------------------------------
(* The receiver *)

\* session.handleStreamFrame: frames of removed streams are ignored, a new
\* stream is opened.
ReceiveStreamFrame(f) ==
  /\ f.StreamID \notin removed
  /\ R!Received(R!WithNewStream(rcvStreams, f.StreamID), f.StreamID, f.End)
  /\ arrived' = [arrived EXCEPT ![f.StreamID] = @ \cup (f.Offset .. f.End - 1)]
  /\ UNCHANGED <<resetRemotely, readOffset, peerBlocked, updates, sndVars>>

\* The bytes that are there without a gap, from the start
InOrder(id) == {n \in 0 .. StreamLength[id] : 0 .. n - 1 \subseteq arrived[id]}

\* stream.Read, in the application's goroutine: bytes read after a RST_STREAM
\* frame are not reported to flow control.
Read(id) ==
  \E n \in {m - readOffset[id] : m \in {k \in InOrder(id) : k > readOffset[id]}} :
    /\ IF id \in resetRemotely
       THEN UNCHANGED <<rcvStreams, rcvConn, failed, removed>>
       ELSE R!ReadBytes(id, n)
    /\ readOffset' = [readOffset EXCEPT ![id] = @ + n]
    /\ UNCHANGED <<resetRemotely, arrived, peerBlocked, updates, sndVars>>

\* session.handleRstStreamFrame; one for a stream that is gone is ignored.
ReceiveReset(id) ==
  /\ id \in resetSent \ removed
  /\ resetRemotely' = resetRemotely \cup {id}
  /\ R!Reset(R!WithNewStream(rcvStreams, id), id, sndStreams[id].bytesSent)
  /\ UNCHANGED <<arrived, readOffset, peerBlocked, updates, sndVars>>

\* The receiver has nothing to send on the stream: it is finished once FIN was
\* read, or when RegisterRemoteError has answered the peer's reset.
finished(id) == id \in resetRemotely \/ readOffset[id] = StreamLength[id]

garbageCollectStreams ==
  \E id \in DOMAIN rcvStreams :
    /\ finished(id)
    /\ R!RemoveStream(id)
    /\ UNCHANGED <<resetRemotely, arrived, readOffset, peerBlocked, updates, sndVars>>

ReceiveBlocked ==
  /\ blockedSent
  /\ peerBlocked' = TRUE
  /\ UNCHANGED <<rcvStreams, rcvConn, failed, removed, resetRemotely, arrived,
                 readOffset, updates, sndVars>>

\* ackRemainingPaths: forced when the peer said that it is blocked
SendWindowUpdates ==
  \E recent \in R!Recency :
    /\ R!GetWindowUpdates(peerBlocked, recent)
    /\ updates' = updates \cup R!WindowUpdates(peerBlocked, recent)
    /\ peerBlocked' = FALSE
    /\ UNCHANGED <<resetRemotely, arrived, readOffset, sndVars>>

-----------------------------------------------------------------------------
Next ==
  /\ ~ failed
  /\ \/ SetFromMap
     \/ \E id \in StreamIDs : SendStreamFrame(id)
     \/ \E id \in StreamIDs : ResetLocally(id)
     \/ \E u \in updates : ReceiveWindowUpdate(u)
     \/ \E f \in frames : ReceiveStreamFrame(f)
     \/ \E id \in StreamIDs : Read(id)
     \/ \E id \in StreamIDs : ReceiveReset(id)
     \/ garbageCollectStreams
     \/ ReceiveBlocked
     \/ SendWindowUpdates

Spec == Init /\ [][Next]_vars

\* scheduler.getRetransmission sends a lost WINDOW_UPDATE frame again as long
\* as no larger window has been announced since.
CurrentWindow(id) ==
  IF id = 0 THEN rcvConn.receiveWindow
  ELSE IF id \in DOMAIN rcvStreams THEN rcvStreams[id].receiveWindow ELSE 0

IsCurrent(u) == u.ByteOffset >= CurrentWindow(u.StreamID)

\* What makes a transfer go on.  STREAM frames are retransmitted until they
\* arrive, and so are the latest window updates; the application keeps reading;
\* the run loop sends.
Transfer ==
  \/ SetFromMap
  \/ \E id \in StreamIDs : SendStreamFrame(id) \/ Read(id)
  \/ \E f \in frames : f.Offset \notin arrived[f.StreamID] /\ ReceiveStreamFrame(f)
  \/ \E u \in updates : IsCurrent(u) /\ ReceiveWindowUpdate(u)

\* As long as a transfer can go on it does, but not in a particular order, and
\* window updates are asked for with every packet that is built.  BLOCKED frames
\* and resets are not relied on.
FairSpec == Spec /\ WF_vars(Transfer) /\ WF_vars(SendWindowUpdates)

-----------------------------------------------------------------------------
(* Properties *)

\* A sender that obeys its windows never makes the receiver close the session
\* with FLOW_CONTROL_RECEIVED_TOO_MUCH_DATA or STREAM_DATA_AFTER_TERMINATION,
\* however STREAM, RST_STREAM and WINDOW_UPDATE frames are reordered.
NoFalseViolation == ~ failed

\* Of every open stream and of the connection, whose counters are advanced apart,
\* by the run loop and by the application: what was read has been received and
\* what was received was allowed, so that the unsigned subtraction of
\* MaybeUpdateWindow does not wrap.  And autotuning, which may raise the increments
\* of several streams in one call, leaves the connection 1.5 times the increment of
\* any stream (protocol.ConnectionFlowControlMultiplier), or its maximum.
ReceiveWindowsSound ==
  /\ \A c \in Range(rcvStreams) \cup {rcvConn} :
       c.bytesRead <= c.highestReceived /\ c.highestReceived <= c.receiveWindow
  /\ \A id \in {i \in DOMAIN rcvStreams : R!Contributes(i)} :
       LET increment == rcvStreams[id].receiveWindowIncrement IN
       /\ increment <= MaxReceiveStreamWindow
       /\ rcvConn.receiveWindowIncrement
            >= Min({(3 * increment) \div 2, MaxReceiveConnectionWindow})

\* No window is ever taken back: neither the one a receiver announces, which is
\* computed anew from the bytes read and an increment that changes, nor the one a
\* sender uses when the first WINDOW_UPDATE frame replaces the negotiated window or
\* an old one arrives late.
WindowsNeverShrink ==
  [][/\ rcvConn.receiveWindow <= rcvConn'.receiveWindow
     /\ \A id \in DOMAIN rcvStreams \cap DOMAIN rcvStreams' :
          rcvStreams[id].receiveWindow <= rcvStreams'[id].receiveWindow
     /\ S!getSendWindow(sndConn, ConnectionParameter)
          <= S!getSendWindow(sndConn, ConnectionParameter)'
     /\ \A id \in StreamIDs :
          S!getSendWindow(sndStreams[id], StreamParameter)
            <= S!getSendWindow(sndStreams[id], StreamParameter)']_vars

\* As long as no stream was reset, what counts against the window of the
\* connection is exactly what has arrived on open streams and was not read yet,
\* although the counters are kept apart and streams are removed: all credit
\* that data takes comes back.  (Of a stream that is reset, the bytes that were
\* not read before count against the connection for good.)
CreditComesBack ==
  LET open == {id \in DOMAIN rcvStreams : R!Contributes(id)} IN
  resetRemotely = {} =>
    rcvConn.highestReceived - rcvConn.bytesRead
      = SumFunctionOnSet([id \in open |-> rcvStreams[id].highestReceived
                                            - rcvStreams[id].bytesRead], open)

\* Flow control never stops a transfer for good: unless a stream is reset, all
\* bytes of every stream are sent, received and read in the end.
EverythingIsRead ==
  <>(\/ resetSent # {}
     \/ \A id \in StreamIDs : readOffset[id] = StreamLength[id])
=============================================================================
