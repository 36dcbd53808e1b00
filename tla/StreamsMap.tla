----------------------------- MODULE StreamsMap -----------------------------
(***************************************************************************)
(* streams_map.go with the two schedulers every stream is put into, and    *)
(* what the session and the framer do with them: opening streams (by the   *)
(* peer, by the application), accepting them, prioritising them, choosing  *)
(* the next one to send, and collecting the finished ones.                 *)
(*                                                                         *)
(* m is the streamsMap with its streamTree and streamScheduler; every      *)
(* operation on it holds its mutex.  Goroutines that wait for a stream are *)
(* asleep or woken.  Of a stream only what the schedulers and the garbage  *)
(* collector look at is kept.  Init is the session after setup: the crypto *)
(* stream 1 is open, and accepted by a server.                             *)
(***************************************************************************)
EXTENDS StreamScheduler, FiniteSets, FiniteSetsExt

CONSTANTS
  Configs,        \* records: perspective, stream scheduler, number of paths, limit
                  \* on the streams a peer may open, and the bounds: largest stream
                  \* ID, weights given to streams, and the events that happen
  MaxOutgoing,    \* limit of the connection parameters on streams opened here
  Exclusives,     \* values of the exclusive flag
  Openers         \* goroutines that call OpenStreamSync and its variants

VARIABLES
  config,       \* the configuration of this behaviour; never changes
  m,            \* the streamsMap
  st,           \* the streams: what was ever opened, by ID
  openers,      \* the goroutines that open streams
  acceptor,     \* the goroutine that calls AcceptStream
  failed,       \* an error was returned that makes the session close
  prioritised,  \* streams whose priority was set (bound: once)
  picked,       \* history variable: the streams of the last scheduling step
  turn          \* history variable: flipped by every scheduling step

history == <<picked, turn>>
vars == <<config, m, st, openers, acceptor, failed, prioritised, history>>

IDs == 1..config.max

Happens(event) == event \in config.events

Server == config.perspective = "server"

newStream ==
  [data |-> FALSE, window |-> TRUE, closed |-> FALSE, finSent |-> FALSE,
   readDone |-> FALSE, rstSent |-> FALSE, cancelled |-> FALSE, sized |-> FALSE]

finishedWriteAndSentFin(s) == s.closed /\ s.finSent

finished(s) ==
  \/ s.cancelled
  \/ s.readDone /\ (finishedWriteAndSentFin(s) \/ s.rstSent)

\* What the schedulers see of a stream.  Flow control knows nothing of a stream
\* that was removed, and answers that it has no window.
Facts ==
  [i \in DOMAIN st |->
     [sent |-> finishedWriteAndSentFin(st[i]), data |-> st[i].data,
      window |-> st[i].window /\ i \in m.streams]]

Sent == {i \in DOMAIN st : finishedWriteAndSentFin(st[i])}
Sized == {i \in DOMAIN st : st[i].sized}

\* Mutant: the order of the streams is kept in the map only.
putStream_NotListed(mm, id) ==
  [mm EXCEPT !.streams = @ \cup {id}, !.tree = addNode(@, id),
             !.sched = addStreamNode(@, id)]

putStream(mm, id) ==
  [mm EXCEPT !.streams = @ \cup {id}, !.openStreams = Append(@, id),
             !.tree = addNode(@, id), !.sched = addStreamNode(@, id)]

\* Streams of the client have odd IDs.  numIncoming counts them on both sides.
Count(mm, id, d) ==
  IF id % 2 = 1 THEN [mm EXCEPT !.numIncoming = @ + d] ELSE [mm EXCEPT !.numOutgoing = @ + d]

newStreamsMapTree(server) ==
  [streams |-> {}, openStreams |-> <<>>, roundRobinIndex |-> 0,
   nextStream |-> IF server THEN 2 ELSE 1, highest |-> 0,
   nextToAccept |-> IF server THEN 1 ELSE 2, closeErr |-> FALSE,
   numIncoming |-> 0, numOutgoing |-> 0,
   tree |-> newStreamTree, sched |-> newStreamScheduler]

\* Mutant: the highest ID that the peer has opened is not kept.
openRemoteStream_Forgotten(mm, sid) == putStream(Count(mm, sid, 1), sid)

openRemoteStream(mm, sid) ==
  putStream([Count(mm, sid, 1) EXCEPT !.highest = sid], sid)

\* openStreamImpl, without the limit
openLocalStream(mm) ==
  putStream([Count(mm, mm.nextStream, 1) EXCEPT !.nextStream = @ + 2], mm.nextStream)

Init ==
  /\ config \in Configs
  /\ m = IF Server THEN [openRemoteStream(newStreamsMapTree(TRUE), 1) EXCEPT !.nextToAccept = 3]
         ELSE openLocalStream(newStreamsMapTree(FALSE))
  /\ st = [i \in {1} |-> newStream]
  /\ openers = [o \in Openers |-> "idle"]
  /\ acceptor = "idle"
  /\ failed = FALSE
  /\ prioritised = {}
  /\ picked = {}
  /\ turn = FALSE

-----------------------------------------------------------------------------
(* Opening streams.                                                         *)

\* Streams that a frame for stream id opens, in order
ToOpen(id) == SelectSeq([i \in 1..id |-> i],
                        LAMBDA i : i > m.highest /\ i % 2 = id % 2)

RoomFor(mm) == mm.numIncoming < config.limit

RECURSIVE openAll(_, _)
openAll(mm, ids) ==
  IF ids = <<>> \/ ~ RoomFor(mm) THEN mm
  ELSE openAll(openRemoteStream(mm, Head(ids)), Tail(ids))

\* What GetOrOpenStream does when there is no such stream: nothing if it was
\* closed already, an error if the peer may not open it
KnownClosed(id) ==
  IF Server = (id % 2 = 0) THEN id <= m.nextStream ELSE id <= m.highest

WrongSide(id) == Server = (id % 2 = 0)

\* The map after GetOrOpenStream(id)
Opened(id) ==
  IF id \in m.streams \/ KnownClosed(id) \/ WrongSide(id) THEN m
  ELSE openAll(m, ToOpen(id))

OpenFails(id) == id \notin m.streams /\ ~ KnownClosed(id) /\ id \notin Opened(id).streams

NewStreams(mm) ==
  [i \in DOMAIN st \cup mm.streams |-> IF i \in DOMAIN st THEN st[i] ELSE newStream]

WakeAcceptor(cond) ==
  acceptor' = IF cond /\ acceptor = "asleep" THEN "woken" ELSE acceptor

\* A frame for stream id arrives.  Skipped streams are opened too.  The
\* acceptors are only told when all of them could be opened; an error ends the
\* session.
GetOrOpenStream(id) ==
  /\ Happens("frame") /\ ~ failed /\ id \notin m.streams
  /\ m' = Opened(id)
  /\ st' = NewStreams(m')
  /\ failed' = OpenFails(id)
  /\ WakeAcceptor(m' # m /\ ~ OpenFails(id))
  /\ UNCHANGED <<config, openers, prioritised, history>>

\* SetStreamPriority: the four calls end with the first one that fails.
SetStreamPriority(mm, id, weight, dep, exclusive) ==
  LET weighed == [mm EXCEPT !.tree = maybeSetWeight(@, id, weight),
                            !.sched = setStreamWeight(@, id, weight)]
      placed == [weighed EXCEPT !.tree = maybeSetParent(@, id, dep, exclusive)]
  IN IF id # 3 /\ id \notin Known(mm.sched) \cap DOMAIN mm.tree.node THEN mm
     ELSE IF ParentRefused(weighed.tree, id, dep, exclusive) THEN weighed
     ELSE [placed EXCEPT !.sched = setStreamParent(@, id, dep, exclusive)]

\* Dependencies that the peers give: the root, or a stream with a smaller ID
Dependencies(id) == {0} \cup {d \in DOMAIN st : d < id /\ d >= 5 /\ Happens("dependency")}

\* A HEADERS frame on the server: GetOrOpenStreamPrioritySize of the session
GetOrOpenStreamPrioritySize(id, weight, dep, exclusive) ==
  LET mm == Opened(id) IN
  /\ Happens("headers") /\ ~ failed /\ id >= 5 /\ id \notin prioritised
  /\ m' = IF id \in mm.streams THEN SetStreamPriority(mm, id, weight, dep, exclusive) ELSE mm
  /\ st' = NewStreams(m')
  /\ failed' = OpenFails(id)
  /\ prioritised' = prioritised \cup {id}
  /\ WakeAcceptor(m'.streams # m.streams /\ ~ OpenFails(id))
  /\ UNCHANGED <<config, openers, history>>

\* OpenStreamSync, and with a priority OpenStreamPrioritySizeSync: called, or
\* woken; mm is the map with the new stream.  A priority that cannot be set is an
\* error, but the stream stays open.
Attempt(o, mm, priorities) ==
  /\ Happens("open") /\ openers[o] # "asleep"
  /\ m.nextStream <= config.max \/ m.closeErr
  /\ IF m.closeErr
     THEN /\ openers' = [openers EXCEPT ![o] = "idle"]
          /\ UNCHANGED <<m, st, prioritised>>
     ELSE IF m.numOutgoing >= MaxOutgoing
     THEN /\ openers' = [openers EXCEPT ![o] = "asleep"]
          /\ UNCHANGED <<m, st, prioritised>>
     ELSE /\ openers' = [openers EXCEPT ![o] = "idle"]
          /\ m' = mm /\ prioritised' = priorities
          /\ st' = NewStreams(m')
  /\ UNCHANGED <<config, acceptor, failed, history>>

OpenStreamSync(o) == Attempt(o, openLocalStream(m), prioritised)

\* openStreamPrioritySizeImpl, without the limit
openLocalWithPriority(mm, weight, dep, exclusive) ==
  LET id == mm.nextStream
      weighed == [openLocalStream(mm) EXCEPT !.tree = maybeSetWeight(@, id, weight)]
      placed == [weighed EXCEPT !.tree = maybeSetParent(@, id, dep, exclusive),
                                !.sched = setStreamWeight(@, id, weight)]
  IN IF ParentRefused(weighed.tree, id, dep, exclusive) THEN weighed
     ELSE [placed EXCEPT !.sched = setStreamParent(@, id, dep, exclusive)]

OpenStreamPrioritySizeSync(o, weight, dep, exclusive) ==
  /\ ~ Server /\ m.nextStream >= 5
  /\ Attempt(o, openLocalWithPriority(m, weight, dep, exclusive), prioritised \cup {m.nextStream})

AcceptStream ==
  /\ Happens("accept") /\ acceptor # "asleep"
  /\ IF m.closeErr THEN acceptor' = "idle" /\ UNCHANGED m
     ELSE IF m.nextToAccept \in m.streams
     THEN acceptor' = "idle" /\ m' = [m EXCEPT !.nextToAccept = @ + 2]
     ELSE acceptor' = "asleep" /\ UNCHANGED m
  /\ UNCHANGED <<config, st, openers, failed, prioritised, history>>
-----------------------------------------------------------------------------
(* What happens on the streams.                                             *)

OnStream(i, s) ==
  /\ i \in m.streams /\ i # 1
  /\ st' = [st EXCEPT ![i] = s]
  /\ UNCHANGED <<config, m, openers, acceptor, failed, prioritised, history>>

\* Requests and responses: the header stream is written on once there is one
MayWrite(i) ==
  /\ i = 3 => Happens("header") /\ prioritised # {}
  /\ i # 3 => i \in prioritised \/ ~ Happens("headers")
  /\ ~ st[i].closed /\ ~ st[i].rstSent

Write(i) == Happens("write") /\ ~ st[i].data /\ MayWrite(i) /\ OnStream(i, [st[i] EXCEPT !.data = TRUE])

Close(i) == Happens("close") /\ i # 3 /\ MayWrite(i) /\ OnStream(i, [st[i] EXCEPT !.closed = TRUE])

\* A WINDOW_UPDATE frame arrives
UpdateWindow(i) == ~ st[i].window /\ OnStream(i, [st[i] EXCEPT !.window = TRUE])

PeerFinishes(i) ==
  Happens("finish") /\ ~ st[i].readDone /\ OnStream(i, [st[i] EXCEPT !.readDone = TRUE])

\* Reset, and the peer's RST_STREAM: pending data are dropped and an RST_STREAM
\* is sent unless FIN was.
Reset(i, byPeer) ==
  /\ Happens("reset") /\ i # 3 /\ ~ st[i].rstSent /\ ~ finishedWriteAndSentFin(st[i])
  /\ OnStream(i, [st[i] EXCEPT !.data = FALSE, !.rstSent = TRUE, !.readDone = @ \/ byPeer])

\* RemoveStream.  The schedulers keep their nodes.
RemoveStream(mm, id) ==
  LET i == SelectInSeq(mm.openStreams, LAMBDA s : s = id) IN
  [Count(mm, id, -1) EXCEPT
     !.streams = @ \ {id}, !.openStreams = RemoveAt(@, i),
     !.roundRobinIndex = IF i - 1 < @ THEN @ - 1 ELSE @]

Collectable == {i \in m.streams : finished(st[i])}

\* Mutant: the goroutines that wait for room are not told.
SignalOpeners_Never(n) == UNCHANGED openers

\* One Signal for every removed stream
SignalOpeners(n) ==
  LET asleep == {o \in Openers : openers[o] = "asleep"} IN
  \E woken \in kSubset(Min({n, Cardinality(asleep)}), asleep) :
    openers' = [o \in Openers |-> IF o \in woken THEN "woken" ELSE openers[o]]

garbageCollectStreams ==
  /\ Collectable # {}
  /\ m' = FoldSeq(LAMBDA i, mm : RemoveStream(mm, i), m,
                  SelectSeq(m.openStreams, LAMBDA i : i \in Collectable))
  /\ SignalOpeners(Cardinality(Collectable))
  /\ UNCHANGED <<config, st, acceptor, failed, prioritised, history>>

\* CloseWithError: everybody is woken, and the streams are cancelled.
CloseWithError ==
  /\ Happens("end") /\ ~ m.closeErr
  /\ m' = [m EXCEPT !.closeErr = TRUE]
  /\ st' = [i \in DOMAIN st |-> IF i \in m.streams THEN [st[i] EXCEPT !.cancelled = TRUE,
                                                                   !.data = FALSE]
                                ELSE st[i]]
  /\ openers' = [o \in Openers |-> IF openers[o] = "asleep" THEN "woken" ELSE openers[o]]
  /\ acceptor' = IF acceptor = "asleep" THEN "woken" ELSE acceptor
  /\ UNCHANGED <<config, failed, prioritised, history>>

-----------------------------------------------------------------------------
(* Sending.                                                                 *)

Scheduled == turn' = ~ turn

\* send: what the framer takes from the stream that was chosen.  The data may
\* use up its window.
AfterSend(s, window) ==
  LET taken == [s EXCEPT !.data = FALSE, !.window = IF s.data THEN window ELSE @] IN
  IF s.data /\ ~ s.window THEN s
  ELSE IF s.closed /\ ~ s.rstSent THEN [taken EXCEPT !.finSent = TRUE]
  ELSE taken

Windows(id) == IF id # 3 /\ Happens("window") THEN BOOLEAN ELSE {TRUE}

ScheduleResult ==
  CASE config.scheduler = "WRR" -> wrrSchedule(m.sched, Facts)
    [] config.scheduler = "DFCFS" -> dynamicFCFSSchedule(m.sched, Facts)
    [] config.scheduler = "PRR" -> PRRSchedule(m.sched, Facts)

\* maybePopNormalFrames, when the stream scheduler is used
PopNormalFrames ==
  LET r == ScheduleResult
      id == StreamOf(r.pick)
      chosen == r.pick # NoNode /\ r.sch.tree.node[r.pick].stream
  IN
  /\ config.scheduler \in {"WRR", "DFCFS", "PRR"} /\ ~ m.closeErr
  /\ m' = [m EXCEPT !.sched = r.sch]
  /\ picked' = IF chosen THEN {id} ELSE {}
  /\ \E window \in Windows(id) :
       st' = IF chosen THEN [st EXCEPT ![id] = AfterSend(@, window)] ELSE st
  /\ Scheduled
  /\ UNCHANGED <<config, openers, acceptor, failed, prioritised>>

\* The loop of the stream-aware path scheduler, which runs when the best of
\* several paths is blocked: choose(i) says whether the i-th stream looked at
\* may use the second best path.
RECURSIVE lookAhead(_, _, _, _)
lookAhead(sch, i, visited, choose) ==
  LET r == wrrSchedule(sch, Facts) IN
     IF i >= sch.open \/ Cardinality(visited) >= sch.open THEN sch
     ELSE IF r.pick = NoNode THEN r.sch
     ELSE IF r.pick \in visited
     THEN lookAhead([r.sch EXCEPT !.tree = skip(@, r.pick)], i + 1, visited, choose)
     ELSE IF i \in choose THEN r.sch
     ELSE lookAhead(r.sch, i + 1, visited \cup {r.pick}, choose)

LookAhead(choose) ==
  /\ config.paths > 1 /\ config.scheduler = "PRR" /\ ~ m.closeErr
  /\ m' = [m EXCEPT !.sched = lookAhead(@, 0, {}, choose)]
  /\ UNCHANGED <<config, st, openers, acceptor, failed, prioritised, history>>

\* Mutant: the index of the stream to begin with is not moved.
NextIndex_Forgotten(i) == i

NextIndex(i) == (i + 1) % Cardinality(m.streams)

\* RoundRobinIterate: fn gets the header stream first; it refuses to go on after
\* n more streams, or at once when the header stream has data.
RoundRobinIterate(n) ==
  LET size == Cardinality(m.streams)
      order == [i \in 1..size |-> m.openStreams[1 + ((i - 1 + m.roundRobinIndex) % size)]]
      others == SelectSeq(order, LAMBDA i : i \notin {1, 3})
      served == SubSeq(others, 1, Min({n, Len(others)}))
  IN
  /\ config.scheduler = "RR" /\ ~ m.closeErr
  /\ n = 0 => 3 \in m.streams /\ st[3].data
  /\ picked' = ToSet(served) \cup (m.streams \cap {3})
  /\ m' = [m EXCEPT !.roundRobinIndex =
                      FoldSeq(LAMBDA i, index : NextIndex(index), @, served)]
  /\ st' = [i \in DOMAIN st |-> IF i \in picked' THEN AfterSend(st[i], TRUE) ELSE st[i]]
  /\ Scheduled
  /\ UNCHANGED <<config, openers, acceptor, failed, prioritised>>

\* scheduleToMultiplePaths: the streams that the tree offers are given to paths,
\* as far as their size is known.
ScheduleToPaths(sized) ==
  LET walk == schedule(m.tree, Sent, Sized) IN
  /\ config.scheduler = "tree" /\ ~ m.closeErr
  /\ sized \subseteq (ToSet(walk.found) \cap m.streams) \ {1, 3}
  /\ m' = [m EXCEPT !.tree = walk.tree]
  /\ picked' = ToSet(walk.found)
  /\ st' = [i \in DOMAIN st |-> IF i \in sized THEN [st[i] EXCEPT !.sized = TRUE] ELSE st[i]]
  /\ Scheduled
  /\ UNCHANGED <<config, openers, acceptor, failed, prioritised>>

\* Packets of a stream that has a path are sent independently of the tree.
SendOnPath(i) ==
  /\ config.scheduler = "tree" /\ i \in Sized
  /\ st[i] # AfterSend(st[i], TRUE)
  /\ OnStream(i, AfterSend(st[i], TRUE))
-----------------------------------------------------------------------------
ByPeer == \E id \in IDs : GetOrOpenStream(id)

ByHeaders ==
  \E id \in IDs, w \in config.weights, x \in Exclusives : \E d \in Dependencies(id) :
    GetOrOpenStreamPrioritySize(id, w, d, x)

ByApplication ==
  \E o \in Openers :
    \/ (Server \/ m.nextStream < 5) /\ OpenStreamSync(o)
    \/ \E w \in config.weights, x \in Exclusives : \E d \in Dependencies(m.nextStream) :
         OpenStreamPrioritySizeSync(o, w, d, x)

StreamUse ==
  \E i \in DOMAIN st :
    \/ Write(i) \/ Close(i) \/ UpdateWindow(i) \/ PeerFinishes(i)
    \/ \E byPeer \in BOOLEAN : Reset(i, byPeer)

Sending ==
  \/ PopNormalFrames
  \/ \E choose \in SUBSET {0, 1} : LookAhead(choose)
  \/ \E n \in 0..2 : RoundRobinIterate(n)
  \/ \E sized \in SUBSET DOMAIN st : ScheduleToPaths(sized)
  \/ \E i \in DOMAIN st : SendOnPath(i)

Next ==
  \/ ByPeer \/ ByHeaders \/ ByApplication \/ AcceptStream
  \/ StreamUse \/ garbageCollectStreams \/ CloseWithError
  \/ Sending

Spec == Init /\ [][Next]_vars
-----------------------------------------------------------------------------
(* Properties of the map.                                                   *)

\* The order of the streams (openStreams), which RoundRobinIterate walks along by
\* index while streams are opened and removed, lists every open stream once; the
\* index stays within it; the two counters that the limits are compared with
\* count what is open, and a server never exceeds them.
MapConsistent ==
  /\ ToSet(m.openStreams) = m.streams /\ IsInjective(m.openStreams)
  /\ m.roundRobinIndex <= Len(m.openStreams)
  /\ m.numIncoming = Cardinality({i \in m.streams : i % 2 = 1})
  /\ m.numOutgoing = Cardinality({i \in m.streams : i % 2 = 0})
  /\ Server => m.numIncoming <= config.limit /\ m.numOutgoing <= MaxOutgoing

\* A stream that was open once and was removed is never opened again, by
\* whatever late frame for it, or for a stream after it, arrives.
NeverReopened == [][(m'.streams \ m.streams) \cap DOMAIN st = {}]_vars

\* Nobody sleeps for ever: a goroutine that waits in OpenStreamSync has room to
\* wait for, counting the ones that are woken already, one that waits in
\* AcceptStream has no stream to take, and nobody sleeps once the map is closed.
WaitersWake ==
  LET asleep == {o \in Openers : openers[o] = "asleep"}
      woken == {o \in Openers : openers[o] = "woken"}
  IN
  /\ m.closeErr => asleep = {} /\ acceptor # "asleep"
  /\ asleep # {} => m.numOutgoing + Cardinality(woken) >= MaxOutgoing
  /\ acceptor = "asleep" => m.nextToAccept \notin m.streams \/ failed
-----------------------------------------------------------------------------
(* Properties of the stream tree.                                           *)


RECURSIVE Above(_, _)
Above(t, n) ==
  LET p == t.node[n].parent IN IF p \in {Root, NoNode} THEN {} ELSE {p} \cup Above(t, p)

\* Streams without a path whose ancestors have all sent their last byte
Ready ==
  LET live == {n \in DOMAIN m.tree.node \ {Root} : m.tree.node[n].stream} IN
  {n \in live \ (Sent \cup Sized) :
     ~ m.tree.node[n].visited /\ Above(m.tree, n) \cap live \subseteq Sent}

\* What schedule() hands out for path scheduling, in one walk that moves nextChild
\* and unlinks finished nodes as it goes, are streams without a path whose
\* ancestors have finished sending; and all of those, unless a stream was found
\* finished on the way.
ScheduledIsReady ==
  [][(\E sized \in SUBSET DOMAIN st : ScheduleToPaths(sized))
       => /\ picked' \subseteq Ready
          /\ (\A n \in Sent \cap DOMAIN m.tree.node : ~ m.tree.node[n].stream) => picked' = Ready
     ]_vars
-----------------------------------------------------------------------------
(* Properties of the stream scheduler.                                      *)


\* The run loop keeps sending, and the peer keeps granting window.
Fairness ==
  /\ WF_turn(Scheduled)
  /\ \A i \in {5, 7} : WF_vars(i \in DOMAIN st /\ UpdateWindow(i))

FairSpec == Spec /\ Fairness

Pending(i) == i \in DOMAIN st /\ st[i].data

\* Data that were written are taken by the framer sooner or later, unless the
\* header stream has data too: with round robin, with the weighted schedulers
\* whatever windows the other streams have, and with PRR as long as all streams
\* have the same weight.
EveryStreamGetsATurn ==
  \A i \in {5, 7} :
    (config.scheduler \in {"RR", "WRR", "PRR"} /\ config.paths = 1 /\ Pending(i))
      ~> (~ Pending(i) \/ Pending(3))

=============================================================================
