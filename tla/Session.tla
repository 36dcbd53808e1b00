------------------------------ MODULE Session -------------------------------
(***************************************************************************)
(* The goroutines of a session: the run loop of session.go, one run loop   *)
(* per path (path.go) and the path manager (path_manager.go), with the     *)
(* channels between them and the lock on s.paths.                          *)
(*                                                                         *)
(* What a packet carries is left out, except for what makes goroutines     *)
(* start, end or wait: CONNECTION_CLOSE and CLOSE_PATH frames, packets on  *)
(* new paths, ACKs that are due and WINDOW_UPDATEs; of the packer, the     *)
(* PING that createPath puts in front of its control frames.               *)
(***************************************************************************)
EXTENDS Naturals, FiniteSets

CONSTANTS
  Paths,     \* IDs of the paths there may be
  Configs    \* records: established (the handshake is complete at the start), creates (the path manager may create paths), accepts (the peer may),
             \*   closePath (the peer sends CLOSE_PATH), fails (the network refuses packets), and
             \*   bounds on chunks written, packets received, windows updated: data, packets, updates

InitialPathID == 0
HandshakeEvents == 3    \* capacity of handshakeChan
NoPath == 255

VARIABLES
  config,
  paths, open, closedPaths,  \* s.paths, path.open, s.closedPaths
  told, sentPacket, runClosed,   \* per path: its channels closeChan, sentPacket, runClosed
  ppc, timer,                \* per path: where its goroutine is, its timer runs
  once, closeChan, closeErr, \* closeOnce was used, closeChan, the error the loop ended with
  complete, aead, handshakeChan,   \* handshakeComplete, levels to come, events nobody has read
  launched, pmHandshake, pmClose,  \* pathManagerLaunched, channels handshakeCompleted, runClosed
  pmpc, pmPath, pmFirst,     \* where the path manager is; first createPaths
  readers, writing, writeWait,     \* pathsLock: read locks of the session, write lock of the manager
  signal, data, ping,        \* sendingScheduled, chunks to send, PING in the packer
  pc, cur, todo,             \* where the run loop is; path, paths of the step
  ackDue, update,            \* paths with an ACK due, a WINDOW_UPDATE is due
  packets, updates, writes   \* bounded by config

pathVars == <<open, told, sentPacket, runClosed, ppc, timer>>
closeVars == <<once, closeChan, closeErr>>
levelVars == <<complete, aead, handshakeChan>>
handshakeVars == <<levelVars, launched>>
managerVars == <<pmHandshake, pmClose, pmpc, pmPath, pmFirst>>
lockVars == <<readers, writing, writeWait>>
appVars == <<signal, data, update, updates, writes>>
loopVars == <<pc, cur, todo, ackDue, packets>>
vars == <<config, paths, closedPaths, pathVars, closeVars, handshakeVars, managerVars, lockVars, appVars, ping, loopVars>>

Init ==
  /\ config \in Configs
  /\ paths = {InitialPathID} /\ closedPaths = {}
  /\ open = [p \in Paths |-> p = InitialPathID]
  /\ told = [p \in Paths |-> FALSE] /\ sentPacket = told /\ runClosed = told
  /\ ppc = [p \in Paths |-> IF p = InitialPathID THEN "select" ELSE "none"] /\ timer = open
  /\ once = FALSE /\ closeChan = "none" /\ closeErr = "none"
  /\ complete = config.established /\ aead = (IF complete THEN 0 ELSE 2) /\ handshakeChan = 0 /\ launched = FALSE
  /\ pmHandshake = FALSE /\ pmClose = FALSE /\ pmpc = "wait" /\ pmPath = NoPath /\ pmFirst = TRUE
  /\ readers = 0 /\ writing = FALSE /\ writeWait = FALSE
  /\ signal = FALSE /\ data = 0 /\ update = FALSE /\ updates = 0 /\ writes = 0 /\ ping = FALSE
  /\ pc = "top" /\ cur = NoPath /\ todo = {} /\ ackDue = {} /\ packets = 0

-----------------------------------------------------------------------------
CanRead == ~ writing /\ ~ writeWait       \* RLock does not wait

closeLocal(reason) == once' = TRUE /\ closeChan' = (IF once THEN closeChan ELSE reason) /\ UNCHANGED closeErr

\* pathManager.closePaths: tells the open paths, without waiting for any.
closePaths == CanRead /\ told' = [p \in Paths |-> told[p] \/ (p \in paths /\ open[p])]

\* path.setup: a new path, with its goroutine.
setup(p) ==
  /\ paths' = paths \cup {p} /\ open' = [open EXCEPT ![p] = TRUE]
  /\ ppc' = [ppc EXCEPT ![p] = "select"] /\ timer' = [timer EXCEPT ![p] = TRUE]

\* sendPackedPacket: the path's goroutine is notified, after which its timer is reset.
Notify(p) ==
  /\ ~ sentPacket[p]
  /\ sentPacket' = [sentPacket EXCEPT ![p] = TRUE]

-----------------------------------------------------------------------------
(* path.run                                                                 *)

PathUnchanged == UNCHANGED <<config, paths, closedPaths, closeVars, handshakeVars, managerVars, lockVars, appVars, ping, loopVars>>

\* The top of the loop: closes at once if told to, otherwise resets the timer.
PathTop(p) ==
  IF told[p]
  THEN ppc' = [ppc EXCEPT ![p] = "break"] /\ told' = [told EXCEPT ![p] = FALSE] /\ UNCHANGED timer
  ELSE ppc' = [ppc EXCEPT ![p] = "select"] /\ timer' = [timer EXCEPT ![p] = TRUE] /\ UNCHANGED told

PathClose(p) ==
  /\ ppc[p] \in {"select", "fired"} /\ told[p]
  /\ ppc' = [ppc EXCEPT ![p] = "break"] /\ told' = [told EXCEPT ![p] = FALSE]
  /\ UNCHANGED <<open, sentPacket, runClosed, timer>> /\ PathUnchanged


\* In the inner select too: the session may want to send while the path wants to
\* hand over its timer.
PathSentPacket(p) ==
  /\ ppc[p] \in {"select", "fired"} /\ sentPacket[p]
  /\ sentPacket' = [sentPacket EXCEPT ![p] = FALSE] /\ PathTop(p)
  /\ UNCHANGED <<open, runClosed>> /\ PathUnchanged

PathTimer(p) ==
  /\ ppc[p] = "select" /\ timer[p]
  /\ timer' = [timer EXCEPT ![p] = FALSE] /\ ppc' = [ppc EXCEPT ![p] = "fired"]
  /\ UNCHANGED <<open, told, sentPacket, runClosed>> /\ PathUnchanged

PathEnds(p) ==
  /\ ppc[p] = "break" /\ ppc' = [ppc EXCEPT ![p] = "ended"]
  /\ open' = [open EXCEPT ![p] = FALSE] /\ runClosed' = [runClosed EXCEPT ![p] = TRUE]
  /\ UNCHANGED <<told, sentPacket, timer>> /\ PathUnchanged

PathRun(p) == PathClose(p) \/ PathSentPacket(p) \/ PathTimer(p) \/ PathEnds(p)

-----------------------------------------------------------------------------
(* pathManager.run                                                          *)

ManagerUnchanged == UNCHANGED <<config, closedPaths, closeVars, handshakeVars, appVars, ackDue, packets, pc, cur>>

ManagerStops ==
  /\ pmpc = "wait" /\ pmClose /\ pmClose' = FALSE /\ pmpc' = "done"
  /\ ManagerUnchanged /\ UNCHANGED <<paths, pathVars, pmHandshake, pmPath, pmFirst, lockVars, ping, todo>>

\* The handshake is complete: a server only advertises its addresses.
ManagerLaunched ==
  /\ pmpc = "wait" /\ pmHandshake /\ pmHandshake' = FALSE
  /\ pmpc' = (IF config.creates THEN "create" ELSE "loop")
  /\ ManagerUnchanged /\ UNCHANGED <<paths, pathVars, pmClose, pmPath, pmFirst, lockVars, ping, todo>>

\* createPaths, also when the interfaces change: the paths that are missing, one after
\* the other.  createPath asks for the write lock.
createPaths ==
  /\ \/ /\ pmpc = "create" \/ (pmpc = "loop" /\ config.creates)
        /\ \E p \in Paths \ paths : pmPath' = p /\ pmpc' = "lock" /\ writeWait' = TRUE /\ UNCHANGED pmFirst
     \/ pmpc = "create" /\ pmpc' = "loop" /\ pmFirst' = FALSE /\ UNCHANGED <<pmPath, writeWait>>
  /\ ManagerUnchanged /\ UNCHANGED <<paths, pathVars, pmHandshake, pmClose, readers, writing, ping, todo>>

\* The path is set up, and a PING put in front of the packer's control frames.  The
\* loop of closePaths, which takes no lock, may meet the new path or not.
createPath ==
  /\ pmpc = "lock" /\ readers = 0 /\ writeWait' = FALSE /\ writing' = TRUE
  /\ setup(pmPath) /\ ping' = TRUE /\ pmpc' = "pack"
  /\ todo' \in (IF pc = "wait" THEN {todo, todo \cup {pmPath}} ELSE {todo})
  /\ ManagerUnchanged
  /\ UNCHANGED <<told, sentPacket, runClosed, pmHandshake, pmClose, pmPath, pmFirst, readers>>

\* PackPacket of sendPing: if the session has packed the PING meanwhile, data of a
\* stream is packed in its place, or there is no packet.
sendPing ==
  /\ pmpc = "pack"
  /\ \/ (ping \/ data > 0) /\ pmpc' = "notify" /\ UNCHANGED <<writing, pmPath>>
     \/ ~ ping /\ data = 0 /\ pmpc' = "error" /\ writing' = FALSE /\ pmPath' = NoPath
  /\ ping' = FALSE /\ data' = (IF ping \/ data = 0 THEN data ELSE data - 1)
  /\ UNCHANGED <<config, paths, closedPaths, pathVars, closeVars, handshakeVars, pmHandshake, pmClose, pmFirst,
                 readers, writeWait, signal, update, updates, writes, loopVars>>

sendPingPacket ==
  /\ pmpc = "notify" /\ Notify(pmPath)
  /\ pmpc' \in {"create"} \cup (IF config.fails THEN {"error"} ELSE {})
  /\ writing' = FALSE /\ pmPath' = NoPath
  /\ ManagerUnchanged
  /\ UNCHANGED <<paths, open, told, runClosed, ppc, timer, pmHandshake, pmClose, pmFirst, readers, writeWait, ping, todo>>

\* An error of the first createPaths closes all paths and ends the path manager; a
\* later one is ignored.
createPathsFails ==
  /\ pmpc = "error"
  /\ \/ pmFirst /\ closePaths /\ pmpc' = "done"
     \/ ~ pmFirst /\ pmpc' = "loop" /\ UNCHANGED told
  /\ ManagerUnchanged
  /\ UNCHANGED <<paths, open, sentPacket, runClosed, ppc, timer, pmHandshake, pmClose, pmPath, pmFirst, lockVars, ping, todo>>

ManagerCloses_NotPaths ==
  /\ pmpc = "loop" /\ pmClose /\ pmClose' = FALSE /\ pmpc' = "done"
  /\ ManagerUnchanged
  /\ UNCHANGED <<paths, pathVars, pmHandshake, pmPath, pmFirst, lockVars, ping, todo>>

\* The last thing it does: paths created since SelectClose are told too.
ManagerCloses ==
  /\ pmpc = "loop" /\ pmClose /\ pmClose' = FALSE
  /\ closePaths /\ pmpc' = "done"
  /\ ManagerUnchanged
  /\ UNCHANGED <<paths, open, sentPacket, runClosed, ppc, timer, pmHandshake, pmPath, pmFirst, lockVars, ping, todo>>

Manager ==
  \/ ManagerStops \/ ManagerLaunched \/ createPaths \/ createPath \/ sendPing \/ sendPingPacket
  \/ createPathsFails \/ ManagerCloses

-----------------------------------------------------------------------------
(* session.run                                                              *)

SessionUnchanged == UNCHANGED <<config, pmpc, pmPath, pmFirst, writing, writeWait, writes, updates>>

\* Every event but a close is followed by sendPacket; the first one after the handshake
\* launches the path manager.
Handled(handshakeComplete) ==
  /\ pc' = "send" /\ launched' = (launched \/ handshakeComplete)
  /\ pmHandshake' = (pmHandshake \/ (handshakeComplete /\ ~ launched))

\* Close immediately if requested.
CloseImmediately ==
  /\ pc = "top" /\ closeChan # "none" /\ CanRead
  /\ told' = [p \in Paths |-> told[p] \/ p \in paths]
  /\ closeErr' = closeChan /\ closeChan' = "none" /\ pc' = "end"
  /\ SessionUnchanged
  /\ UNCHANGED <<paths, closedPaths, open, sentPacket, runClosed, ppc, timer, once, handshakeVars, pmHandshake, pmClose,
                 readers, signal, data, update, ping, cur, todo, ackDue, packets>>

Select ==
  /\ pc = "top" /\ closeChan = "none" /\ pc' = "select"
  /\ SessionUnchanged
  /\ UNCHANGED <<paths, closedPaths, pathVars, closeVars, handshakeVars, pmHandshake, pmClose, readers, signal, data, update, ping,
                 cur, todo, ackDue, packets>>

\* The other close: the path manager is stopped, after the paths are told.
SelectClose ==
  /\ pc = "select" /\ closeChan # "none" /\ closePaths
  /\ closeErr' = closeChan /\ closeChan' = "none" /\ pc' = "stop"
  /\ SessionUnchanged
  /\ UNCHANGED <<paths, closedPaths, open, sentPacket, runClosed, ppc, timer, once, handshakeVars, pmHandshake, pmClose,
                 readers, signal, data, update, ping, cur, todo, ackDue, packets>>

StopManager ==
  /\ pc = "stop" /\ pmClose' = TRUE /\ pc' = "end"
  /\ SessionUnchanged
  /\ UNCHANGED <<paths, closedPaths, pathVars, closeVars, handshakeVars, pmHandshake, readers, signal, data, update, ping,
                 cur, todo, ackDue, packets>>

\* The session's own timer or sendingScheduled.
SelectScheduled ==
  /\ pc = "select" /\ signal /\ signal' = FALSE /\ Handled(complete)
  /\ SessionUnchanged
  /\ UNCHANGED <<paths, closedPaths, pathVars, closeVars, levelVars, pmClose, readers, data, update, ping,
                 cur, todo, ackDue, packets>>

\* The timer of a path, handed over by its goroutine.
SelectPathTimer(p) ==
  /\ pc = "select" /\ ppc[p] = "fired" /\ PathTop(p)
  /\ Handled(complete)
  /\ SessionUnchanged
  /\ UNCHANGED <<paths, closedPaths, open, sentPacket, runClosed, closeVars, levelVars, pmClose, readers, signal,
                 data, update, ping, cur, todo, ackDue, packets>>

ReceivePacket == pc = "select" /\ packets < config.packets /\ packets' = packets + 1

\* A packet on a path that is open: an ACK is due, and it may close the connection.  A
\* packet that cannot be opened is kept for later or, like a bad frame, closes it.
handlePacketImpl(p) ==
  /\ ReceivePacket /\ p \in paths
  /\ \/ /\ Handled(complete)
        /\ \/ open[p] /\ ackDue' = ackDue \cup {p} /\ (UNCHANGED closeVars \/ closeLocal("remote"))
           \/ ~ open[p] /\ UNCHANGED <<ackDue, closeVars>>
     \/ /\ open[p] /\ pc' = "top" /\ UNCHANGED <<launched, pmHandshake, ackDue>>
        /\ UNCHANGED closeVars \/ closeLocal("local")
  /\ SessionUnchanged
  /\ UNCHANGED <<paths, closedPaths, pathVars, levelVars, pmClose, readers, signal, data, update, ping, cur, todo>>

\* The first packet on a path the peer created.
createPathFromRemote(p) ==
  /\ ReceivePacket /\ config.accepts /\ complete /\ p \notin paths /\ ~ writing
  /\ setup(p) /\ ackDue' = ackDue \cup {p} /\ Handled(complete)
  /\ SessionUnchanged
  /\ UNCHANGED <<closedPaths, told, sentPacket, runClosed, closeVars, levelVars, pmClose, readers, signal,
                 data, update, ping, cur, todo>>

\* A CLOSE_PATH frame: closePath takes a read lock, and pathManager.closePath another.
closePath(p) ==
  /\ ReceivePacket /\ config.closePath /\ p \in paths /\ CanRead
  /\ \/ p \in closedPaths /\ Handled(complete) /\ UNCHANGED <<readers, cur>>
     \/ /\ p \notin closedPaths /\ pc' = "closePath" /\ readers' = 1 /\ cur' = p
        /\ UNCHANGED <<launched, pmHandshake>>
  /\ SessionUnchanged
  /\ UNCHANGED <<paths, closedPaths, pathVars, closeVars, levelVars, pmClose, signal, data, update, ping, todo, ackDue>>

closePathManager ==
  /\ pc = "closePath" /\ CanRead
  /\ \/ open[cur] /\ ~ told[cur] /\ told' = [told EXCEPT ![cur] = TRUE]
     \/ ~ open[cur] /\ UNCHANGED told
  /\ closedPaths' = closedPaths \cup {cur} /\ readers' = 0 /\ cur' = NoPath /\ Handled(complete)
  /\ SessionUnchanged
  /\ UNCHANGED <<paths, open, sentPacket, runClosed, ppc, timer, closeVars, levelVars, pmClose, signal,
                 data, update, ping, todo, ackDue, packets>>

\* A new encryption level, or the end of the handshake (aeadChanged is closed).
SelectAead ==
  /\ pc = "select" /\ ~ complete /\ Handled(aead = 0)
  /\ \/ aead > 0 /\ aead' = aead - 1 /\ handshakeChan < HandshakeEvents /\ handshakeChan' = handshakeChan + 1
        /\ UNCHANGED complete
     \/ aead = 0 /\ complete' = TRUE /\ UNCHANGED <<aead, handshakeChan>>
  /\ SessionUnchanged
  /\ UNCHANGED <<paths, closedPaths, pathVars, closeVars, pmClose, readers, signal, data, update, ping,
                 cur, todo, ackDue, packets>>

-----------------------------------------------------------------------------
(* sendPacket                                                               *)

\* Paths that may be selected: not the initial one if there are others.
Usable == {p \in (IF paths = {InitialPathID} THEN paths ELSE paths \ {InitialPathID}) : open[p]}

SelectPath(p) ==
  /\ pc = "send" /\ CanRead /\ p \in Usable /\ cur' = p /\ pc' = "pack"
  /\ SessionUnchanged
  /\ UNCHANGED <<paths, closedPaths, pathVars, closeVars, handshakeVars, pmHandshake, pmClose, readers, signal, data, update,
                 ping, todo, ackDue, packets>>

\* PackPacket, without a lock; an ACK goes along.
PackPacket ==
  /\ pc = "pack"
  /\ IF ping \/ data > 0 \/ cur \in ackDue
     THEN pc' = "notify" /\ UNCHANGED cur
     ELSE pc' = "remaining" /\ cur' = NoPath
  /\ ackDue' = ackDue \ {cur} /\ ping' = FALSE /\ data' = (IF ping \/ data = 0 THEN data ELSE data - 1)
  /\ SessionUnchanged
  /\ UNCHANGED <<paths, closedPaths, pathVars, closeVars, handshakeVars, pmHandshake, pmClose, readers, signal, update, todo, packets>>

SendPacket ==
  /\ pc = "notify" /\ Notify(cur) /\ cur' = NoPath
  /\ \/ pc' = "send" /\ UNCHANGED closeVars
     \/ config.fails /\ pc' = "top" /\ closeLocal("local")
  /\ SessionUnchanged
  /\ UNCHANGED <<paths, closedPaths, open, told, runClosed, ppc, timer, handshakeVars, pmHandshake, pmClose, readers, signal,
                 data, update, ping, todo, ackDue, packets>>

\* ackRemainingPaths, which holds a read lock: ACKs that are due, and WINDOW_UPDATEs on
\* all paths but the initial one.
ackRemainingPaths ==
  /\ pc \in {"send", "remaining"} /\ CanRead /\ readers' = 1 /\ pc' = "acks"
  /\ todo' = ackDue \cup (IF update THEN paths \ {InitialPathID} ELSE {}) /\ ackDue' = {} /\ update' = FALSE
  /\ SessionUnchanged
  /\ UNCHANGED <<paths, closedPaths, pathVars, closeVars, handshakeVars, pmHandshake, pmClose, signal, data, ping, cur, packets>>

AckPath(p) ==
  /\ pc = "acks" /\ p \in todo /\ Notify(p) /\ todo' = todo \ {p}
  /\ SessionUnchanged
  /\ UNCHANGED <<paths, closedPaths, open, told, runClosed, ppc, timer, closeVars, handshakeVars, pmHandshake, pmClose, readers, signal,
                 data, update, ping, pc, cur, ackDue, packets>>

\* The loop is done, and the timeouts of the session may have passed.
AcksDone ==
  /\ pc = "acks" /\ todo = {} /\ readers' = 0 /\ pc' = "top"
  /\ UNCHANGED closeVars \/ closeLocal("local")
  /\ SessionUnchanged
  /\ UNCHANGED <<paths, closedPaths, pathVars, handshakeVars, pmHandshake, pmClose, signal, data, update, ping, cur, todo,
                 ackDue, packets>>

-----------------------------------------------------------------------------
(* The end of the run loop: handleCloseError.                               *)

\* The handshake event, if the handshake is not complete; then the paths are told
\* (again), unless the session is replaced by one of another version.
handleCloseError ==
  /\ pc = "end" /\ (complete \/ handshakeChan < HandshakeEvents)
  /\ handshakeChan' = (IF complete THEN handshakeChan ELSE handshakeChan + 1)
  /\ \/ closeErr = "version" /\ pc' = "ended" /\ UNCHANGED <<told, todo>>
     \/ closeErr # "version" /\ closePaths /\ pc' = "wait" /\ todo' = paths
  /\ SessionUnchanged
  /\ UNCHANGED <<paths, closedPaths, open, sentPacket, runClosed, ppc, timer, closeVars, complete, aead, launched,
                 pmHandshake, pmClose, readers, signal, data, update, ping, cur, ackDue, packets>>

\* Wait for the run loops of the paths to finish.
WaitForPath(p) ==
  /\ pc = "wait" /\ p \in todo /\ runClosed[p]
  /\ runClosed' = [runClosed EXCEPT ![p] = FALSE] /\ todo' = todo \ {p}
  /\ SessionUnchanged
  /\ UNCHANGED <<paths, closedPaths, open, told, sentPacket, ppc, timer, closeVars, handshakeVars, pmHandshake, pmClose,
                 readers, signal, data, update, ping, pc, cur, ackDue, packets>>

Ends ==
  /\ pc = "wait" /\ todo = {} /\ pc' = "ended"
  /\ SessionUnchanged
  /\ UNCHANGED <<paths, closedPaths, pathVars, closeVars, handshakeVars, pmHandshake, pmClose, readers, signal, data, update, ping,
                 cur, todo, ackDue, packets>>

Run ==
  \/ CloseImmediately \/ Select \/ SelectClose \/ StopManager \/ SelectScheduled \/ SelectAead
  \/ (\E p \in Paths : SelectPathTimer(p) \/ handlePacketImpl(p) \/ createPathFromRemote(p) \/ closePath(p))
  \/ closePathManager \/ (\E p \in Paths : SelectPath(p)) \/ PackPacket \/ SendPacket
  \/ ackRemainingPaths \/ (\E p \in Paths : AckPath(p)) \/ AcksDone
  \/ handleCloseError \/ (\E p \in Paths : WaitForPath(p)) \/ Ends

-----------------------------------------------------------------------------
(* The application, and the readers of the handshake's events.              *)

OthersUnchanged == UNCHANGED <<config, paths, closedPaths, pathVars, complete, aead, launched, managerVars, lockVars, ping, loopVars>>

Write ==
  /\ writes < config.data /\ writes' = writes + 1 /\ data' = data + 1 /\ signal' = TRUE
  /\ OthersUnchanged /\ UNCHANGED <<closeVars, handshakeChan, update, updates>>

Read ==
  /\ updates < config.updates /\ updates' = updates + 1 /\ update' = TRUE /\ signal' = TRUE
  /\ OthersUnchanged /\ UNCHANGED <<closeVars, handshakeChan, data, writes>>

\* Close, or by the client that another version is to be spoken.
Close ==
  /\ ~ once /\ \E reason \in {"local"} \cup (IF complete THEN {} ELSE {"version"}) : closeLocal(reason)
  /\ OthersUnchanged /\ UNCHANGED <<handshakeChan, appVars>>

ReadHandshake ==
  /\ ~ complete /\ handshakeChan > 0 /\ handshakeChan' = handshakeChan - 1
  /\ OthersUnchanged /\ UNCHANGED <<closeVars, appVars>>

Next == Run \/ (\E p \in Paths : PathRun(p)) \/ Manager \/ Write \/ Read \/ Close \/ ReadHandshake

\* Every goroutine goes on while it can, and the timers of the paths run out.
Spec == Init /\ [][Next]_vars
FairSpec ==
  /\ Spec /\ WF_vars(Run) /\ WF_vars(Manager)
  /\ \A p \in Paths : WF_vars(PathRun(p))

-----------------------------------------------------------------------------
(* Properties.                                                              *)

\* A packet waits for a path whose goroutine has ended, and will wait for ever.
Orphaned == \E p \in Paths : /\ ppc[p] = "ended" /\ sentPacket[p]
                             /\ (pc = "notify" /\ cur = p) \/ (pc = "acks" /\ p \in todo)

\* closePaths waits for a path that was created after the paths were told to end.
Late == pc = "wait" /\ \E p \in todo : ppc[p] # "ended" /\ ~ told[p]

\* closePath waits for its second read lock, behind createPath, which waits for the first.
LockedOut == pc = "closePath" /\ writeWait


\* A session that is closed while it waits leaves no goroutine behind, whatever paths
\* are being created meanwhile (StopManager, pathManager.run, closePaths).
EveryGoroutineEnds == pc = "stop" ~> pc = "ended" /\ pmpc = "done" /\ \A p \in paths : ppc[p] = "ended"

\* The run loop is never stuck with a packet for a path whose goroutine has ended.
NeverStuck == ~ Orphaned
=============================================================================
