------------------------------ MODULE SendLoop ------------------------------
(***************************************************************************)
(* How the session sends: scheduler.sendPacketOriginal with the functions  *)
(* it calls, for every path selection, from the events that the session's  *)
(* goroutine handles (ACKs, alarms, packets of the peer) to its return.    *)
(* The application writes and reads at any point in between.               *)
(*                                                                         *)
(* One loop iteration is the steps retransmit, perform and after; acks is  *)
(* ackRemainingPaths.  A packet carries at most one chunk of stream        *)
(* data and any number of control frames; the congestion window of a path *)
(* is a number of packets.                                                 *)
(***************************************************************************)
EXTENDS PathScheduler, Integers

CONSTANTS
  Paths,          \* the paths the session may have, InitialPathID included
  Configs,        \* records: scheduler (pathSchedulerDebug), pers (perspective), and bounds
                  \*   on the chunks written, the alarms, the packets received and the
                  \*   windows advertised (data, alarms, packets, windows);
                  \*   early: the handshake is not complete at the start
  RTTs,           \* smoothed RTTs a path may be measured to have
  Window,         \* congestion window of every path
  MaxNonRetransmittable   \* MaxNonRetransmittablePackets

Ping == 0         \* control frames: PING, PATHS and, above 0, the WINDOW_UPDATEs
PathsFrame == -1
NoPacket == [data |-> 0, control |-> <<>>, level |-> "none"]
None == 0

VARIABLES
  config,
  paths,          \* s.paths
  complete,       \* handshakeComplete
  rtt, failed, quota,
  sent,           \* per path: the packet history of the sent packet handler
  resend,         \* per path: its retransmission queue
  stored,         \* per path: packetsNotSentYet
  ackDue, stopDue,      \* per path: an ACK, a STOP_WAITING is due
  ackFrame, stopWaiting,\* per path: the packer has one
  nonRetransmittable,   \* per path: packets since the last retransmittable one
  control,        \* the packer's control frames
  pathsFrame,     \* a PATHS frame is scheduled
  framer,         \* the framer's retransmission queue
  written, next,  \* chunks written by the application, next one to send
  acked, windowAcked,   \* chunks and windows the peer acknowledged
  early,          \* chunks that were first sent before the handshake was complete
  window, due,    \* last window advertised; a new one is due
  peerBlocked, signal, waiting,
  pc, has, from, handshake, pth, wufs, todo, pkt,  \* where the loop is
  crashed,        \* sendPackedPacket was called without a packet
  alarms, packets \* bounded by config

pathVars == <<rtt, failed, quota, sent, resend, stored>>
ackVars == <<ackDue, stopDue, ackFrame, stopWaiting, nonRetransmittable>>
appVars == <<written, due, signal>>
peerVars == <<acked, windowAcked, peerBlocked, alarms, packets>>
loopVars == <<pc, has, from, handshake, pth, wufs, todo, pkt>>
vars == <<config, paths, complete, pathVars, ackVars, control, pathsFrame, framer, next, early, appVars, peerVars,
          window, waiting, loopVars, crashed>>

Start(v) == [p \in Paths |-> v]

Init ==
  /\ config \in Configs
  /\ paths = (IF config.early THEN {InitialPathID} ELSE Paths) /\ complete = ~ config.early
  /\ rtt = Start(0) /\ failed = Start(FALSE) /\ quota = Start(0)
  /\ sent = Start(<<>>) /\ resend = Start(<<>>) /\ stored = Start(<<>>)
  /\ ackDue = Start(FALSE) /\ stopDue = Start(FALSE) /\ ackFrame = Start(FALSE)
  /\ stopWaiting = Start(FALSE) /\ nonRetransmittable = Start(0)
  /\ control = <<>> /\ pathsFrame = FALSE /\ framer = <<>> /\ written = 0 /\ next = 1
  /\ acked = {} /\ early = {} /\ windowAcked = 1 /\ window = 1 /\ due = FALSE
  /\ peerBlocked = FALSE /\ signal = FALSE /\ waiting = 0
  /\ pc = "idle" /\ has = FALSE /\ from = NoPath /\ handshake = NoPacket /\ pth = NoPath
  /\ wufs = None /\ todo = {} /\ pkt = NoPacket
  /\ crashed = FALSE /\ alarms = 0 /\ packets = 0

-----------------------------------------------------------------------------
(* The sent packet handler and the packer, as far as the loop sees them.    *)

SendingAllowed(p) == Len(sent[p]) < Window \/ resend[p] # <<>>

Level == IF complete THEN "forward_secure" ELSE "secure"

\* Before the handshake is complete only a client has data it can send.
canSendData == complete \/ config.pers = "client"

IsPing(queue) == queue # <<>> /\ Head(queue) = Ping

\* PING goes out alone; otherwise all control frames, then what is to be
\* retransmitted or else new data.
composeNextPacket(queue, withData) ==
  LET again == withData /\ framer # <<>>
      new == withData /\ framer = <<>> /\ next <= written
  IN IF IsPing(queue)
     THEN [control |-> <<Ping>>, queue |-> Tail(queue), data |-> 0, framer |-> framer, next |-> next]
     ELSE [control |-> queue, queue |-> <<>>,
           data |-> IF again THEN Head(framer) ELSE IF new THEN next ELSE 0,
           framer |-> IF again THEN Tail(framer) ELSE framer, next |-> IF new THEN next + 1 ELSE next]

Take(c) ==
  /\ framer' = c.framer /\ next' = c.next
  /\ early' = early \cup (IF complete THEN {} ELSE {c.data} \ {0})

Packet(c) == [data |-> c.data, control |-> c.control, level |-> Level]
Retransmittable(packet) == packet.data # 0 \/ packet.control # <<>>

\* sendPackedPacket: only retransmittable packets are kept in the history.
sendPackedPacket(packet, p) ==
  /\ sent' = IF Retransmittable(packet) THEN [sent EXCEPT ![p] = Append(@, packet)] ELSE sent
  /\ nonRetransmittable' = [nonRetransmittable EXCEPT ![p] = IF Retransmittable(packet) THEN 0 ELSE @ + 1]

QueueControlFrame(queue, frame) == IF frame = None THEN queue ELSE Append(queue, frame)

\* getWindowUpdateFrames: a new window if one is due, the current one if forced.
WindowUpdate(force) == IF due THEN window + 1 ELSE IF force THEN window ELSE None
TakeWindowUpdate == window' = (IF due THEN window + 1 ELSE window) /\ due' = FALSE

-----------------------------------------------------------------------------
(* sendPacketOriginal.                                                      *)

sendPacketOriginal ==
  /\ pc = "start" \/ (pc = "idle" /\ signal)
  /\ pc' = "retransmit" /\ signal' = FALSE
  /\ TakeWindowUpdate /\ wufs' = WindowUpdate(FALSE)
  /\ control' = QueueControlFrame(control, WindowUpdate(FALSE))
  /\ has' = FALSE /\ from' = NoPath
  /\ UNCHANGED <<config, paths, complete, pathVars, ackVars, pathsFrame, framer, next, early, written, peerVars,
                 waiting, handshake, pth, todo, pkt, crashed>>

\* Mutant: a WINDOW_UPDATE is never sent again.
Requeue_NoWindowUpdate(packet) ==
  /\ framer' = IF packet.data = 0 THEN framer ELSE Append(framer, packet.data)
  /\ control' = control \o SelectSeq(packet.control, LAMBDA f : f = Ping)
  /\ pathsFrame' = (pathsFrame \/ PathsFrame \in Range(packet.control))

\* The frames of a lost packet are queued again, except WINDOW_UPDATEs that are
\* overtaken; a PATHS frame is made anew.
Requeue(packet) ==
  /\ framer' = IF packet.data = 0 THEN framer ELSE Append(framer, packet.data)
  /\ control' = control \o SelectSeq(packet.control, LAMBDA f : f = Ping \/ f >= window)
  /\ pathsFrame' = (pathsFrame \/ PathsFrame \in Range(packet.control))

\* One turn of the loop of getRetransmission.  A packet that is not forward-secure is
\* sent again whole, or dropped if the handshake is complete.
getRetransmission ==
  /\ pc = "retransmit" /\ handshake = NoPacket
  /\ \E p \in paths :
       /\ resend[p] # <<>>
       /\ resend' = [resend EXCEPT ![p] = Tail(@)] /\ has' = TRUE /\ from' = p
       /\ LET packet == Head(resend[p]) IN
          \/ packet.level = "forward_secure" /\ Requeue(packet) /\ UNCHANGED handshake
          \/ /\ packet.level # "forward_secure"
             /\ handshake' = IF complete THEN NoPacket ELSE packet
             /\ UNCHANGED <<framer, control, pathsFrame>>
  /\ UNCHANGED <<config, paths, complete, rtt, failed, quota, sent, stored, ackVars, next, early, appVars, peerVars,
                 window, waiting, pc, pth, wufs, todo, pkt, crashed>>

Selecting == pc = "retransmit" /\ (handshake # NoPacket \/ \A p \in paths : resend[p] = <<>>)

-----------------------------------------------------------------------------
View ==
  [paths |-> paths, allowed |-> [p \in paths |-> SendingAllowed(p)], failed |-> failed, rtt |-> rtt,
   cwnd |-> Start(Window), quota |-> quota, stored |-> [p \in paths |-> Len(stored[p])],
   queue |-> written - next + 1, left |-> <<written - next + 1>>]

\* selectPath: the possible answers, with what becomes of waiting.  For saecf one
\* stream has data, and its turn comes unless the stream scheduler has none to offer.
selectPath(hasStream) ==
  LET v == View
      Answer(p) == [path |-> p, waiting |-> waiting]
      Of(order) ==
        CASE config.scheduler = "saecf" ->
               {LET a == selectPathStreamAwareEarliestCompletionFirst(v, has, hasStream, from, order, turns, <<waiting>>)
                IN [path |-> a.path, waiting |-> a.waiting[1]] : turns \in {<<>>, <<1>>}}
          [] config.scheduler = "ecf" ->
               {[path |-> a.path, waiting |-> a.waiting] :
                  a \in {selectPathEarliestCompletionFirst(v, has, hasStream, from, order, waiting)}}
          [] config.scheduler = "roundrobin" -> {Answer(selectPathRoundRobin(v, has, hasStream, from, order))}
          [] config.scheduler = "mine" /\ config.pers = "server" ->
               {Answer(mySelectPathByArrivalTime(v, has, hasStream, from, order))}
          [] OTHER -> {Answer(selectPathLowLatency(v, has, hasStream, from, order))}
  IN UNION {Of(order) : order \in Orders(paths)}

\* No path: what is left to do is to acknowledge.
SelectNoPath ==
  /\ Selecting
  /\ \E a \in selectPath(framer # <<>>) : a.path = NoPath /\ waiting' = a.waiting
  /\ pc' = "acks" /\ todo' = paths /\ handshake' = NoPacket
  /\ wufs' = (IF WindowUpdate(FALSE) # None THEN WindowUpdate(FALSE) ELSE WindowUpdate(peerBlocked))
  /\ TakeWindowUpdate
  /\ UNCHANGED <<config, paths, complete, pathVars, ackVars, control, pathsFrame, framer, next, early, written, signal,
                 peerVars, has, from, pth, pkt, crashed>>

\* A packet of the handshake is sent at once on the selected path.
RetransmitHandshake ==
  /\ Selecting /\ handshake # NoPacket
  /\ \E a \in selectPath(framer # <<>>) :
       /\ a.path # NoPath /\ waiting' = a.waiting
       /\ sendPackedPacket(handshake, a.path)
       /\ stopWaiting' = [stopWaiting EXCEPT ![a.path] = FALSE]
       /\ stopDue' = [stopDue EXCEPT ![a.path] = FALSE]
  /\ handshake' = NoPacket /\ has' = FALSE /\ from' = NoPath
  /\ UNCHANGED <<config, paths, complete, rtt, failed, quota, resend, stored, ackDue, ackFrame, control, pathsFrame,
                 framer, next, early, appVars, peerVars, window, pc, pth, wufs, todo, pkt, crashed>>

\* A path: its ACK, STOP_WAITING and the scheduled frames go to the packer.
SelectPath ==
  LET hasStream == framer # <<>> IN
  /\ Selecting /\ handshake = NoPacket
  /\ \E a \in selectPath(hasStream) :
       LET p == a.path
           stop == (ackDue[p] \/ hasStream) /\ (stopDue[p] \/ hasStream)
       IN /\ p # NoPath /\ pth' = p /\ waiting' = a.waiting
          /\ ackFrame' = [ackFrame EXCEPT ![p] = @ \/ ackDue[p]] /\ ackDue' = [ackDue EXCEPT ![p] = FALSE]
          /\ stopWaiting' = [stopWaiting EXCEPT ![p] = @ \/ stop]
          /\ stopDue' = [stopDue EXCEPT ![p] = @ /\ ~ stop]
  /\ control' = (IF pathsFrame THEN Append(control, PathsFrame) ELSE control) /\ pathsFrame' = FALSE
  /\ pc' = "perform"
  /\ UNCHANGED <<config, paths, complete, pathVars, nonRetransmittable, framer, next, early, appVars, peerVars, window,
                 has, from, handshake, wufs, todo, pkt, crashed>>

-----------------------------------------------------------------------------
(* performPacketSendingOfMine, for the selected path.                       *)

\* A PING if too many packets went out that the peer need not acknowledge.
Queue(p) == IF nonRetransmittable[p] >= MaxNonRetransmittable THEN Append(control, Ping) ELSE control

\* ackRemainingPaths begins.
AckRemaining ==
  /\ pc' = "acks" /\ todo' = paths /\ pth' = NoPath
  /\ wufs' = WindowUpdate(peerBlocked) /\ TakeWindowUpdate

Continue == pc' = "retransmit" /\ has' = FALSE /\ from' = NoPath /\ pth' = NoPath /\ pkt' = NoPacket

\* The packet goes out; window updates are queued once more, so that they are sent twice.
Sent(packet, queue) ==
  /\ sendPackedPacket(packet, pth)
  /\ control' = QueueControlFrame(queue, wufs) /\ wufs' = None
  /\ quota' = [quota EXCEPT ![pth] = @ + 1]
  /\ pkt' = packet /\ pc' = "after"


PackPacket ==
  LET c == composeNextPacket(Queue(pth), canSendData) IN
  /\ pc = "perform" /\ SendingAllowed(pth) /\ stored[pth] = <<>>
  /\ stopWaiting' = [stopWaiting EXCEPT ![pth] = FALSE]
  /\ Take(c)
  /\ \/ /\ Retransmittable(c) \/ ackFrame[pth]
        /\ Sent(Packet(c), c.queue) /\ ackFrame' = [ackFrame EXCEPT ![pth] = FALSE]
        /\ UNCHANGED <<pth, todo, window, due>>
     \/ /\ ~ Retransmittable(c) /\ ~ ackFrame[pth]
        /\ AckRemaining /\ control' = c.queue
        /\ UNCHANGED <<sent, quota, nonRetransmittable, ackFrame, pkt>>
  /\ UNCHANGED <<config, paths, complete, rtt, failed, resend, stored, ackDue, stopDue, pathsFrame, written, signal,
                 peerVars, waiting, has, from, handshake, crashed>>

\* Mutant: what is stored is not kept.
StoreFrames_Forgets ==
  LET c == composeNextPacket(Queue(pth), canSendData) IN
  /\ pc = "perform" /\ ~ SendingAllowed(pth)
  /\ Take(c) /\ control' = c.queue
  /\ Continue /\ wufs' = None
  /\ UNCHANGED <<config, paths, complete, pathVars, ackVars, pathsFrame, appVars, window, todo, peerVars, waiting,
                 handshake, crashed>>


\* The window of the selected path is full: the packet is stored.  A PING with a
\* STOP_WAITING is taken for a packet of STOP_WAITING alone, and dropped.
StoreFrames ==
  LET c == composeNextPacket(Queue(pth), canSendData)
      nothing == ~ Retransmittable(c) /\ ~ ackFrame[pth]
      dropped == nothing \/ (IsPing(Queue(pth)) /\ stopWaiting[pth])
  IN /\ pc = "perform" /\ ~ SendingAllowed(pth)
     /\ Take(c) /\ control' = c.queue
     /\ \/ /\ ~ dropped
           /\ stored' = [stored EXCEPT ![pth] = Append(@, Packet(c))]
           /\ stopWaiting' = [stopWaiting EXCEPT ![pth] = FALSE] /\ ackFrame' = [ackFrame EXCEPT ![pth] = FALSE]
           /\ Continue /\ wufs' = None /\ UNCHANGED <<todo, window, due>>
        \/ /\ dropped /\ AckRemaining
           /\ UNCHANGED <<stored, stopWaiting, ackFrame, has, from, pkt>>
     /\ UNCHANGED <<config, paths, complete, rtt, failed, quota, sent, resend, ackDue, stopDue, nonRetransmittable,
                    pathsFrame, written, signal, peerVars, waiting, handshake, crashed>>

\* The oldest packet that is stored goes out, or a PING before it; the ACK that was
\* due on the path is dropped.
PackPacketWithStoreFrames ==
  LET queue == Queue(pth) IN
  /\ pc = "perform" /\ SendingAllowed(pth) /\ stored[pth] # <<>>
  /\ stopWaiting' = [stopWaiting EXCEPT ![pth] = FALSE] /\ ackFrame' = [ackFrame EXCEPT ![pth] = FALSE]
  /\ \/ /\ IsPing(queue)
        /\ Sent([data |-> 0, control |-> <<Ping>>, level |-> Level], Tail(queue)) /\ UNCHANGED stored
     \/ /\ ~ IsPing(queue)
        /\ Sent([Head(stored[pth]) EXCEPT !.level = Level], queue) /\ stored' = [stored EXCEPT ![pth] = Tail(@)]
  /\ UNCHANGED <<config, paths, complete, rtt, failed, resend, ackDue, stopDue, pathsFrame, framer, next, early, appVars,
                 peerVars, window, waiting, has, from, handshake, pth, todo, crashed>>

\* A packet that went on a path whose RTT is not known is duplicated if another path
\* was used less and has window.  A failed path, of which a packet was to be
\* retransmitted, is sent a PING.
AfterSending ==
  /\ pc = "after"
  /\ resend' = IF /\ rtt[pth] = 0
                  /\ \E p \in paths \ {InitialPathID, pth} : quota[p] < quota[pth] /\ SendingAllowed(p)
               THEN [resend EXCEPT ![pth] = Append(@, pkt)] ELSE resend
  /\ IF from # NoPath /\ failed[from]
     THEN /\ sendPackedPacket([data |-> 0, control |-> <<Ping>>, level |-> Level], from)
          /\ ackFrame' = [ackFrame EXCEPT ![from] = FALSE] /\ stopWaiting' = [stopWaiting EXCEPT ![from] = FALSE]
     ELSE UNCHANGED <<sent, nonRetransmittable, ackFrame, stopWaiting>>
  /\ Continue
  /\ UNCHANGED <<config, paths, complete, rtt, failed, quota, stored, ackDue, stopDue, control, pathsFrame, framer,
                 next, early, appVars, peerVars, window, waiting, handshake, wufs, todo, crashed>>

-----------------------------------------------------------------------------
(* ackRemainingPaths, one path after the other.                             *)

\* Pure ACK: the control frames stay queued, those for this path included.
AckPath(p) ==
  /\ pc = "acks" /\ ~ crashed /\ p \in todo /\ ackDue[p]
  /\ todo' = todo \ {p}
  /\ control' = QueueControlFrame(control, wufs)
  /\ ackDue' = [ackDue EXCEPT ![p] = FALSE] /\ stopDue' = [stopDue EXCEPT ![p] = FALSE]
  /\ ackFrame' = [ackFrame EXCEPT ![p] = FALSE] /\ stopWaiting' = [stopWaiting EXCEPT ![p] = FALSE]
  /\ sendPackedPacket(NoPacket, p)
  /\ UNCHANGED <<config, paths, complete, rtt, failed, quota, resend, stored, pathsFrame, framer, next, early, appVars,
                 peerVars, window, waiting, pc, has, from, handshake, pth, wufs, pkt, crashed>>

\* No ACK, but WINDOW_UPDATEs: they go out on every path but the initial one, with
\* PackPacketOfPath, which returns no packet for a PING with a STOP_WAITING.
UpdatePath(p) ==
  LET queue == QueueControlFrame(control, wufs)
      c == composeNextPacket(queue, FALSE)
      stop == stopWaiting[p] \/ stopDue[p]
      packs == wufs # None /\ p # InitialPathID
  IN /\ pc = "acks" /\ ~ crashed /\ p \in todo /\ ~ ackDue[p]
     /\ todo' = todo \ {p}
     /\ \/ /\ ~ packs /\ control' = queue
           /\ UNCHANGED <<sent, nonRetransmittable, ackFrame, stopWaiting, stopDue, crashed>>
        \/ /\ packs /\ control' = c.queue /\ stopDue' = [stopDue EXCEPT ![p] = FALSE]
           /\ IF IsPing(queue) /\ stop
              THEN /\ crashed' = TRUE /\ stopWaiting' = [stopWaiting EXCEPT ![p] = stop]
                   /\ UNCHANGED <<sent, nonRetransmittable, ackFrame>>
              ELSE /\ sendPackedPacket(Packet(c), p) /\ UNCHANGED crashed
                   /\ ackFrame' = [ackFrame EXCEPT ![p] = FALSE] /\ stopWaiting' = [stopWaiting EXCEPT ![p] = FALSE]
     /\ UNCHANGED <<config, paths, complete, rtt, failed, quota, resend, stored, ackDue, pathsFrame, framer, next, early,
                    appVars, peerVars, window, waiting, pc, has, from, handshake, pth, wufs, pkt>>

AcksDone ==
  /\ pc = "acks" /\ todo = {} /\ ~ crashed
  /\ pc' = "idle" /\ peerBlocked' = FALSE /\ wufs' = None /\ has' = FALSE /\ from' = NoPath /\ pkt' = NoPacket
  /\ UNCHANGED <<config, paths, complete, pathVars, ackVars, control, pathsFrame, framer, next, early, appVars,
                 acked, windowAcked, alarms, packets, window, waiting, handshake, pth, todo, crashed>>

-----------------------------------------------------------------------------
(* What the session's goroutine handles before it sends, and the application. *)

Handled == pc = "idle" /\ pc' = "start"
UnchangedByEvents == UNCHANGED <<config, quota, stored, ackFrame, stopWaiting, nonRetransmittable, control, framer,
                                 next, early, appVars, window, waiting, has, from, handshake, pth, wufs, todo, pkt, crashed>>

\* The peer acknowledges the i-th packet of the history.
ReceivedAck(p, i, r) ==
  LET packet == sent[p][i] IN
  /\ Handled /\ p \in paths
  /\ sent' = [sent EXCEPT ![p] = RemoveAt(@, i)]
  /\ rtt' = [rtt EXCEPT ![p] = r] /\ failed' = [failed EXCEPT ![p] = FALSE]
  /\ stopDue' = [stopDue EXCEPT ![p] = @ \/ i = 1]
  /\ acked' = acked \cup ({packet.data} \ {0})
  /\ windowAcked' = Max({windowAcked} \cup Range(packet.control))
  /\ UnchangedByEvents
  /\ UNCHANGED <<paths, complete, resend, ackDue, pathsFrame, peerBlocked, alarms, packets>>

\* An alarm: a tail loss probe, the two oldest packets or, if nothing was received
\* since the last packet was sent, all of them; then the path is potentially failed.
OnAlarm(p, first, last, fails) ==
  /\ Handled /\ p \in paths /\ alarms < config.alarms /\ alarms' = alarms + 1
  /\ sent' = [sent EXCEPT ![p] = SubSeq(@, 1, first - 1) \o SubSeq(@, last + 1, Len(@))]
  /\ resend' = [resend EXCEPT ![p] = @ \o SubSeq(sent[p], first, last)]
  /\ failed' = [failed EXCEPT ![p] = @ \/ fails] /\ pathsFrame' = (pathsFrame \/ fails)
  /\ UnchangedByEvents
  /\ UNCHANGED <<paths, complete, rtt, ackDue, stopDue, acked, windowAcked, peerBlocked, packets>>

\* A packet that has to be acknowledged, and that may say that the peer is blocked.
ReceivedPacket(p, blocked) ==
  /\ Handled /\ p \in paths /\ packets < config.packets /\ packets' = packets + 1
  /\ ackDue' = [ackDue EXCEPT ![p] = TRUE] /\ failed' = [failed EXCEPT ![p] = FALSE]
  /\ peerBlocked' = (peerBlocked \/ blocked)
  /\ UnchangedByEvents
  /\ UNCHANGED <<paths, complete, rtt, sent, resend, stopDue, pathsFrame, acked, windowAcked, alarms>>

HandshakeComplete ==
  /\ Handled /\ ~ complete /\ complete' = TRUE
  /\ UnchangedByEvents
  /\ UNCHANGED <<paths, rtt, failed, sent, resend, ackDue, stopDue, pathsFrame, peerVars>>

\* The path manager's goroutine creates a path and sends a PING on it, under the write
\* lock of s.paths, which ackRemainingPaths holds for reading.
createPath(p) ==
  /\ complete /\ p \notin paths /\ pc # "acks"
  /\ paths' = paths \cup {p}
  /\ sendPackedPacket([data |-> 0, control |-> <<Ping>>, level |-> Level], p)
  /\ UNCHANGED <<config, complete, rtt, failed, quota, resend, stored, ackDue, stopDue, ackFrame, stopWaiting, control,
                 pathsFrame, framer, next, early, appVars, peerVars, window, waiting, loopVars, crashed>>

\* The application, in goroutines of its own; sending is scheduled.  Where the loop
\* looks neither at the data nor at the windows, it makes no difference when.
AppMayRun == pc \in {"idle", "retransmit", "perform"}
UnchangedByApp == UNCHANGED <<config, paths, complete, pathVars, ackVars, control, pathsFrame, framer, next, early, peerVars,
                              window, waiting, loopVars, crashed>>
Write ==
  /\ AppMayRun /\ written < config.data /\ written' = written + 1 /\ signal' = TRUE /\ UNCHANGED due /\ UnchangedByApp
Read ==
  /\ AppMayRun /\ ~ due /\ window < config.windows /\ due' = TRUE /\ signal' = TRUE /\ UNCHANGED written /\ UnchangedByApp

Send ==
  \/ sendPacketOriginal \/ getRetransmission \/ SelectNoPath \/ RetransmitHandshake \/ SelectPath
  \/ PackPacket \/ StoreFrames \/ PackPacketWithStoreFrames \/ AfterSending
  \/ (\E p \in Paths : AckPath(p) \/ UpdatePath(p)) \/ AcksDone

Next ==
  \/ Send
  \/ \E p \in Paths : \E i \in DOMAIN sent[p], r \in RTTs : ReceivedAck(p, i, r)
  \/ \E p \in Paths : LET n == Len(sent[p]) IN
       n > 0 /\ (OnAlarm(p, n, n, FALSE) \/ OnAlarm(p, 1, Min({n, 2}), FALSE) \/ OnAlarm(p, 1, n, TRUE))
  \/ \E p \in Paths, blocked \in BOOLEAN : ReceivedPacket(p, blocked)
  \/ HandshakeComplete \/ (\E p \in Paths : createPath(p)) \/ Write \/ Read

\* The goroutine of the session goes on sending once it began; nothing is assumed of
\* the network, the peer or the application.  In the loop the application only adds
\* data or makes a window due and paths are created: every other step is one of Send,
\* and this is WF_vars(Send) in the loop, without the cost of ENABLED.
LoopStep == written' = written /\ (due' => due) /\ paths' = paths
Spec == Init /\ [][Next]_vars /\ ([]<>(pc = "idle" \/ crashed) \/ []<><<LoopStep>>_vars)

-----------------------------------------------------------------------------
(* Properties.                                                              *)

Everywhere == UNION {Range(sent[p]) \cup Range(resend[p]) \cup Range(stored[p]) : p \in Paths} \cup {handshake}

\* No byte the streams have handed out is forgotten (getRetransmission, StoreFrames,
\* PackPacketWithStoreFrames, DuplicatePacket): it is acknowledged, queued to be
\* retransmitted, stored for a path, or in a packet that a path still accounts for.
\* Not so for data sent before the handshake was complete: getRetransmission drops it
\* if it is lost and the handshake completes before it is retransmitted.
DataAccounted ==
  \A c \in (1..next - 1) \ early : c \in acked \/ c \in Range(framer) \/ \E packet \in Everywhere : packet.data = c

\* The last window the session has advertised (getWindowUpdateFrames moves it) is
\* acknowledged or on its way, whatever paths fail and packets are lost: the peer,
\* blocked by the old window, waits for nothing else.
WindowUpdateAccounted ==
  \/ windowAcked >= window \/ window \in Range(control) \/ wufs = window
  \/ \E packet \in Everywhere : window \in Range(packet.control)



=============================================================================
