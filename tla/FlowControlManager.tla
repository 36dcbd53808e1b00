------------------------- MODULE FlowControlManager -------------------------
(***************************************************************************)
(* internal/flowcontrol/flow_control_manager.go: the controllers of all    *)
(* streams of a session and the one of the connection.  The operations are *)
(* atomic, as each of them holds the manager's mutex.                      *)
(***************************************************************************)
EXTENDS FlowController

CONSTANTS
  StreamIDs,               \* IDs of streams; 0 stands for the connection
  NotContributing,         \* the crypto and header streams (session.newStream)
  ReceiveStreamWindow, MaxReceiveStreamWindow,         \* connection parameters
  ReceiveConnectionWindow, MaxReceiveConnectionWindow

VARIABLES
  streamFlowController,  \* the controllers of the streams that are open
  connFlowController,
  failed,                \* an error was returned: the session closes
  removed                \* streams that are gone: the streams map opens no ID twice

Contributes(id) == id \notin NotContributing

NoStreams == [id \in {} |-> newFlowController(ReceiveStreamWindow)]

Init ==
  /\ streamFlowController = NoStreams
  /\ connFlowController = newFlowController(ReceiveConnectionWindow)
  /\ failed = FALSE
  /\ removed = {}

-----------------------------------------------------------------------------
WithNewStream(controllers, id) ==
  IF id \in DOMAIN controllers THEN controllers
  ELSE [i \in DOMAIN controllers \cup {id} |->
          IF i = id THEN newFlowController(ReceiveStreamWindow)
                    ELSE controllers[i]]

WithoutStream(controllers, id) ==
  [i \in DOMAIN controllers \ {id} |-> controllers[i]]

RemoveStream(id) ==
  /\ streamFlowController' = WithoutStream(streamFlowController, id)
  /\ removed' = removed \cup {id}
  /\ UNCHANGED <<connFlowController, failed>>

\* Mutant: the increment is not added at the connection level.
Received_NotAtConnection(controllers, id, byteOffset) ==
  LET c == IncrementHighestReceived(controllers[id],
                                    Increment(controllers[id], byteOffset))
  IN
  /\ streamFlowController' = [controllers EXCEPT ![id] = c]
  /\ failed' = CheckFlowControlViolation(c)
  /\ UNCHANGED <<connFlowController, removed>>

\* Data up to an offset was received: first the window of the stream is
\* checked, then that of the connection.
Received(controllers, id, byteOffset) ==
  LET increment == Increment(controllers[id], byteOffset)
      c == IncrementHighestReceived(controllers[id], increment)
      conn == IncrementHighestReceived(connFlowController, increment)
  IN
  /\ streamFlowController' = [controllers EXCEPT ![id] = c]
  /\ IF CheckFlowControlViolation(c) \/ ~ Contributes(id)
     THEN /\ failed' = CheckFlowControlViolation(c)
          /\ UNCHANGED connFlowController
     ELSE /\ connFlowController' = conn
          /\ failed' = CheckFlowControlViolation(conn)
  /\ UNCHANGED removed

\* A smaller offset is StreamDataAfterTermination.
Reset(controllers, id, byteOffset) ==
  IF byteOffset < controllers[id].highestReceived
  THEN /\ failed' = TRUE
       /\ UNCHANGED <<streamFlowController, connFlowController, removed>>
  ELSE Received(controllers, id, byteOffset)

\* Called from the application's goroutine: the stream may be gone by then,
\* and the error is ignored.
ReadBytes(id, n) ==
  /\ IF id \in DOMAIN streamFlowController
     THEN /\ streamFlowController' =
               [streamFlowController EXCEPT ![id] = AddBytesRead(@, n)]
          /\ connFlowController' =
               IF Contributes(id) THEN AddBytesRead(connFlowController, n)
                                  ELSE connFlowController
     ELSE UNCHANGED <<streamFlowController, connFlowController>>
  /\ UNCHANGED <<failed, removed>>

-----------------------------------------------------------------------------
(* GetWindowUpdates.  recent says for every stream, and for the connection, *)
(* whether its last update was less than two round trips ago.  The minimum  *)
(* increments of the streams are applied one after the other; the result    *)
(* is that of the largest one.                                              *)

Recency == [StreamIDs \cup {0} -> BOOLEAN]

Announced(force) ==
  {id \in DOMAIN streamFlowController :
     force \/ UpdateNecessary(streamFlowController[id])}

\* protocol.ConnectionFlowControlMultiplier is 1.5.
MinimumIncrements(force, recent) ==
  {(3 * ReturnedIncrement(streamFlowController[id], MaxReceiveStreamWindow,
                          recent[id])) \div 2
     : id \in {i \in Announced(force) : Contributes(i)}}

RaisedConnection(force, recent) ==
  LET incs == MinimumIncrements(force, recent)
      largest == CHOOSE inc \in incs : \A other \in incs : other <= inc
  IN
  IF incs = {} THEN connFlowController
  ELSE EnsureMinimumWindowIncrement(connFlowController, largest,
                                    MaxReceiveConnectionWindow)

GetWindowUpdates(force, recent) ==
  /\ streamFlowController' =
       [id \in DOMAIN streamFlowController |->
          MaybeUpdateWindow(streamFlowController[id], MaxReceiveStreamWindow,
                            recent[id])]
  /\ connFlowController' =
       MaybeUpdateWindow(RaisedConnection(force, recent),
                         MaxReceiveConnectionWindow, recent[0])
  /\ UNCHANGED <<failed, removed>>

\* The WINDOW_UPDATE frames of that call, with the windows after it
WindowUpdates(force, recent) ==
  {[StreamID |-> id, ByteOffset |-> streamFlowController'[id].receiveWindow]
     : id \in Announced(force)}
  \cup
  {[StreamID |-> 0, ByteOffset |-> connFlowController'.receiveWindow]
     : c \in {d \in {RaisedConnection(force, recent)} :
                force \/ UpdateNecessary(d)}}

-----------------------------------------------------------------------------
(* Sending *)

\* SendWindowSize of a stream, which is limited by the connection's
Sendable(id, negotiatedStream, negotiatedConnection) ==
  LET size == SendWindowSize(streamFlowController[id], negotiatedStream) IN
  IF Contributes(id)
  THEN MinByteCount(size, SendWindowSize(connFlowController, negotiatedConnection))
  ELSE size

SendBytes(id, n) ==
  /\ streamFlowController' = [streamFlowController EXCEPT ![id] = AddBytesSent(@, n)]
  /\ connFlowController' =
       IF Contributes(id) THEN AddBytesSent(connFlowController, n)
                          ELSE connFlowController
  /\ UNCHANGED <<failed, removed>>

UpdateWindow(id, offset) ==
  /\ IF id = 0
     THEN /\ connFlowController' = UpdateSendWindow(connFlowController, offset)
          /\ UNCHANGED streamFlowController
     ELSE /\ id \in DOMAIN streamFlowController
          /\ streamFlowController' =
               [streamFlowController EXCEPT ![id] = UpdateSendWindow(@, offset)]
          /\ UNCHANGED connFlowController
  /\ UNCHANGED <<failed, removed>>

=============================================================================
