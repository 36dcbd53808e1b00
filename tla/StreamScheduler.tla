-------------------------- MODULE StreamScheduler --------------------------
(***************************************************************************)
(* stream_scheduler.go: which stream sends next, by weighted round robin   *)
(* over the dependency tree (WRR), first come first served (DFCFS) or      *)
(* round robin by priority (PRR).                                          *)
(*                                                                         *)
(* A scheduler is a record: tree is the dependency tree, whose root is the *)
(* header stream once that is open; open, list, zero and start are         *)
(* openStreams, sortedList, zeroQuantumStream and startStreamIdPRR.        *)
(* (toSend is only ever set to nil.)  What the traversals ask about        *)
(* streams is in a function f from stream IDs to records: sent is          *)
(* finishedWriteAndSentFin, data whether there are data to write, window   *)
(* whether flow control lets it send.  The result of a traversal is the    *)
(* scheduler sch with pick, the node found or NoNode.                      *)
(***************************************************************************)
EXTENDS PriorityTree

newStreamScheduler ==
  [tree |-> newStreamTree, open |-> 0, list |-> <<>>, zero |-> <<>>, start |-> 0]

NodeOf(id) == IF id = 3 THEN Root ELSE id
StreamOf(n) == IF n = Root THEN 3 ELSE n

\* The streams in nodeMap
Known(sch) ==
  (DOMAIN sch.tree.node \ {Root}) \cup (IF sch.tree.node[Root].stream THEN {3} ELSE {})

NodeIn(sch, id) == sch.tree.node[NodeOf(id)]

SchedulerPanic(sch) == [sch EXCEPT !.tree = Panicked(@)]

\* addNode.  The crypto stream has no node, the header stream is the root.
addStreamNode(sch, id) ==
  IF id = 1 THEN sch
  ELSE IF id = 3 THEN [sch EXCEPT !.tree.node[Root].stream = TRUE,
                                  !.tree.node[Root].state = "active"]
  ELSE [sch EXCEPT !.tree = addNode(@, id), !.open = @ + 1]

\* Where maybeSetWeight inserts a stream: before the first stream that weighs
\* less, at the end if there is none or if it is at the front
SortedPlace(sch, weight) ==
  LET lighter(id) == id \notin {1, 3} /\ NodeIn(sch, id).weight < weight
      first == SelectInSeq(sch.list, lighter)
  IN IF first <= 1 THEN Len(sch.list) + 1 ELSE first


insertSorted(sch, id, weight) ==
  LET started == [sch EXCEPT !.list = IF @ = <<>> THEN <<3>> ELSE @]
  IN IF Last(started.list) = 3
     THEN [started EXCEPT !.list = Append(@, id)]
     ELSE [started EXCEPT !.list = InsertAt(@, SortedPlace(started, weight), id)]

\* maybeSetWeight
setStreamWeight(sch, id, weight) ==
  IF id \in {1, 3} THEN [sch EXCEPT !.list = Append(@, id)]
  ELSE IF id \notin Known(sch) \/ NodeIn(sch, id).weight = weight THEN sch
  ELSE insertSorted([sch EXCEPT !.tree = setNodeWeight(@, id, weight)], id, weight)

\* maybeSetParent.  Here the root is in nodeMap, as stream 3, and 0 means 3.
StreamParentRefused(sch, child, parent) ==
  LET p == IF parent = 0 THEN 3 ELSE parent IN
  \/ child = parent \/ child \in {1, 3} \/ parent = 1
  \/ child \notin Known(sch) \/ p \notin Known(sch)

setStreamParent(sch, child, parent, exclusive) ==
  LET p == NodeOf(IF parent = 0 THEN 3 ELSE parent) IN
  IF \/ StreamParentRefused(sch, child, parent)
     \/ ~ exclusive /\ sch.tree.node[child].parent = p
  THEN sch
  ELSE [sch EXCEPT !.tree = setNodeParent(@, child, p, exclusive)]

\* A stream that is not in the list is taken to be the first one.
removeStreamFromSortedList(sch, id) ==
  IF sch.list = <<>> THEN SchedulerPanic(sch)
  ELSE [sch EXCEPT !.list = RemoveAt(@, ChildIndex(@, id))]

\* What the three traversals do with a stream whose FIN was sent
closeStream(sch, n) ==
  LET removed == removeStreamFromSortedList([sch EXCEPT !.open = @ - 1], StreamOf(n))
  IN [removed EXCEPT !.tree = deactivateNode(@, n)]

Finished(sch, n, f) == sch.tree.node[n].stream /\ f[StreamOf(n)].sent

\* The header stream is chosen when it has data, any other stream if its
\* window is open, whether it has data or not
MaySend(sch, n, f) ==
  LET s == StreamOf(n) IN
  /\ sch.tree.node[n].stream
  /\ f[s].window
  /\ IF s = 3 THEN f[s].data ELSE sch.tree.node[n].state = "active"

-----------------------------------------------------------------------------
(* Weighted round robin: traverse.                                          *)

NewQuantum(sch, n) ==
  [sch EXCEPT !.tree.node[n].quantum = IF @ = 0 THEN sch.tree.node[n].weight ELSE @]

SpendQuantum(r, n) == [r EXCEPT !.sch.tree.node[n].quantum = @ - 1]

RECURSIVE traverseWRR(_, _, _), traverseWRRChildren(_, _, _, _)
traverseWRR(sch0, n, f) ==
  LET sch == NewQuantum(sch0, n)
      nd == sch.tree.node[n]
      none == [sch |-> sch, pick |-> NoNode]
      here == [sch |-> sch, pick |-> n]
      found == IF n = Root /\ MaySend(sch, n, f) THEN here
               ELSE IF n # Root /\ MaySend(sch, n, f) /\ nd.quantum > 0
               THEN SpendQuantum(here, n)
               ELSE IF nd.activeChildren > 0 /\ nd.quantum > 0
               THEN traverseWRRChildren(none, n, 0, f)
               ELSE none
      turnOver == found.pick = NoNode \/ found.sch.tree.node[n].quantum = 0
  IN IF Finished(sch, n, f) THEN [none EXCEPT !.sch = closeStream(sch, n)]
     ELSE IF turnOver THEN [found EXCEPT !.sch.tree = NextSibling(@, n)]
     ELSE found

traverseWRRChildren(r, n, i, f) ==
  LET nd == r.sch.tree.node[n]
      down == traverseWRR(r.sch, nd.children[nd.nextChild + 1], f)
  IN IF r.sch.tree.panic \/ i >= Len(nd.children) THEN r
     ELSE IF down.pick # NoNode THEN SpendQuantum(down, n)
     ELSE traverseWRRChildren(down, n, i + 1, f)

wrrSchedule(sch, f) == traverseWRR(sch, Root, f)

\* skip: the turn of a stream and of everything above it is over.
RECURSIVE skip(_, _)
skip(t, n) ==
  LET p == t.node[n].parent
      over == [t EXCEPT !.node[n].quantum = 0]
  IN IF p = NoNode THEN over
     ELSE IF t.node[p].children = <<>> THEN Panicked(over)
     ELSE skip(NextSibling(over, n), p)

-----------------------------------------------------------------------------
(* The sorted list: findNextStream and the schedulers that walk along it.   *)

\* Only the first openStreams entries are looked at; the code indexes out of
\* range when there are fewer.
findNextStream(sch, id) ==
  LET i == SelectInSeq(sch.list, LAMBDA s : s = id)
  IN IF id = Last(sch.list) THEN sch.list[1]
     ELSE IF i \in 1..sch.open THEN sch.list[i + 1]
     ELSE id

OutOfRange(sch, id) ==
  /\ id # Last(sch.list) /\ id \notin ToSet(sch.list)
  /\ sch.open > Len(sch.list)

RECURSIVE traverseDFCFS(_, _, _, _), tryDFCFS(_, _, _, _)
traverseDFCFS(sch, from, first, f) ==
  LET id == IF from = 0 THEN sch.list[1] ELSE from
      n == NodeOf(id)
      none == [sch |-> sch, pick |-> NoNode]
  IN IF sch.list = <<>> THEN none
     ELSE IF id \notin Known(sch) THEN [none EXCEPT !.sch = SchedulerPanic(sch)]
     ELSE IF Finished(sch, n, f) THEN [none EXCEPT !.sch = closeStream(sch, n)]
     ELSE IF MaySend(sch, n, f) THEN [none EXCEPT !.pick = n]
     ELSE IF first THEN tryDFCFS(none, id, 0, f)
     ELSE none

tryDFCFS(r, id, i, f) ==
  LET next == findNextStream(r.sch, id)
      down == traverseDFCFS(r.sch, next, FALSE, f)
  IN IF i >= r.sch.open \/ r.pick # NoNode \/ r.sch.tree.panic THEN r
     ELSE IF r.sch.list = <<>> \/ OutOfRange(r.sch, id)
     THEN [r EXCEPT !.sch = SchedulerPanic(@)]
     ELSE tryDFCFS(down, next, i + 1, f)

dynamicFCFSSchedule(sch, f) == traverseDFCFS(sch, 0, TRUE, f)

renewQuantum(sch) ==
  LET renewed(n) == LET nd == sch.tree.node[n] IN
                    IF n \in ToSet(sch.zero) THEN [nd EXCEPT !.quantum = nd.weight] ELSE nd
  IN [sch EXCEPT !.tree.node = [n \in DOMAIN @ |-> renewed(n)], !.zero = <<>>]

\* The weight of the first stream of the list that is not 1 or 3
HighWeight(sch) ==
  LET i == SelectInSeq(sch.list, LAMBDA s : s \notin {1, 3})
  IN IF i = 0 THEN 0 ELSE NodeIn(sch, sch.list[i]).weight

\* A stream with an open window: its quantum is spent, or given to it for the
\* first time, or it has to wait for a renewal.
prrTurn(sch, n) ==
  LET nd == sch.tree.node[n]
      spent == [sch EXCEPT !.tree.node[n].quantum = @ - 1]
      out == [spent EXCEPT !.zero = Append(@, n)]
  IN IF nd.quantum > 1 THEN [sch |-> spent, pick |-> n]
     ELSE IF nd.quantum = 1
     THEN [sch |-> IF nd.weight = HighWeight(sch) THEN renewQuantum(out) ELSE out, pick |-> n]
     ELSE IF n \in ToSet(sch.zero) THEN [sch |-> sch, pick |-> NoNode]
     ELSE [sch |-> [sch EXCEPT !.tree.node[n].quantum = nd.weight], pick |-> n]

RECURSIVE traversePRR(_, _, _, _), tryPRR(_, _, _)
traversePRR(sch0, from, first, f) ==
  LET id == IF from = 0 THEN sch0.list[1] ELSE from
      n == NodeOf(id)
      sch == [sch0 EXCEPT !.start = findNextStream(sch0, id)]
      none == [sch |-> sch, pick |-> NoNode]
  IN IF sch0.list = <<>> THEN [sch |-> sch0, pick |-> NoNode]
     ELSE IF id \notin Known(sch0) \/ OutOfRange(sch0, id)
     THEN [sch |-> SchedulerPanic(sch0), pick |-> NoNode]
     ELSE IF Finished(sch, n, f) THEN [none EXCEPT !.sch = closeStream(sch, n)]
     ELSE IF MaySend(sch, n, f)
     THEN IF n = Root THEN [none EXCEPT !.pick = n] ELSE prrTurn(sch, n)
     ELSE IF first THEN tryPRR(none, 0, f)
     ELSE none

tryPRR(r, i, f) ==
  IF i >= r.sch.open \/ r.pick # NoNode \/ r.sch.tree.panic THEN r
  ELSE tryPRR(traversePRR(r.sch, r.sch.start, FALSE, f), i + 1, f)

PRRSchedule(sch, f) == traversePRR(sch, sch.start, TRUE, f)
=============================================================================
