---------------------------- MODULE PriorityTree ----------------------------
(***************************************************************************)
(* stream_tree.go: the dependency tree of a session, and the scheduling of *)
(* streams by it.  The nodes and what addWeight, removeWeight and          *)
(* maybeSetParent do with them are the same in stream_scheduler.go, which  *)
(* StreamScheduler models with the operators of this module.               *)
(*                                                                         *)
(* A tree is a record: node maps the keys of its nodes to them, key 0 is   *)
(* the root, the key of any other node is the stream ID, and panic says    *)
(* that the code indexed or divided out of range.  childrensWeight wraps   *)
(* as the code's uint32 does: a wrapped value is written as the negative   *)
(* number it stands for.                                                   *)
(***************************************************************************)
EXTENDS Integers, Sequences, SequencesExt

CONSTANT DefaultStreamWeight

Root == 0
NoNode == -1

Max16 == 2^16

newNode(parent, hasStream) ==
  [weight |-> DefaultStreamWeight, childrensWeight |-> 0, state |-> "active",
   activeChildren |-> 0, parent |-> parent, children |-> <<>>, nextChild |-> 0,
   stream |-> hasStream, visited |-> FALSE, quantum |-> 0]

newStreamTree ==
  [node |-> [n \in {Root} |-> newNode(NoNode, FALSE)], panic |-> FALSE]

WithNode(t, n, new) ==
  [t EXCEPT !.node = [k \in DOMAIN @ \cup {n} |-> IF k = n THEN new ELSE @[k]]]

Panicked(t) == [t EXCEPT !.panic = TRUE]

\* Only active nodes, and nodes above active ones, are among the children
Weighs(t, n) == t.node[n].state = "active" \/ t.node[n].activeChildren > 0


RECURSIVE addWeight(_, _, _)
addWeight(t, n, child) ==
  LET added == [t EXCEPT
                  !.node[n].childrensWeight = @ + t.node[child].weight + 1,
                  !.node[n].activeChildren = (@ + 1) % Max16,
                  !.node[n].children = Append(@, child)]
      nd == added.node[n]
  IN IF nd.parent # NoNode /\ nd.state # "active" /\ nd.activeChildren = 1
     THEN addWeight(added, nd.parent, n)
     ELSE added

\* A child that is not among the children is taken to be the first of them.
ChildIndex(children, child) ==
  IF child \in ToSet(children) THEN SelectInSeq(children, LAMBDA c : c = child) ELSE 1

RECURSIVE removeWeight(_, _, _)
removeWeight(t, n, child) ==
  LET old == t.node[n].children
      left == RemoveAt(old, ChildIndex(old, child))
      removed == [t EXCEPT
                    !.node[n].children = left,
                    !.node[n].nextChild = IF left = <<>> THEN 0 ELSE @ % Len(left),
                    !.node[n].childrensWeight = @ - (t.node[child].weight - 1),
                    !.node[n].activeChildren = (@ - 1) % Max16]
      nd == removed.node[n]
  IN IF old = <<>> THEN Panicked(t)
     ELSE IF nd.parent # NoNode /\ nd.activeChildren = 0
          THEN removeWeight(removed, nd.parent, n)
          ELSE removed

deactivateNode(t, n) ==
  LET closed == [t EXCEPT !.node[n].state = "closed", !.node[n].stream = FALSE]
      nd == closed.node[n]
  IN IF nd.parent # NoNode /\ nd.activeChildren = 0
     THEN removeWeight(closed, nd.parent, n)
     ELSE closed

\* addNode: a new stream is an active child of the root.
addNode(t, id) ==
  LET new == WithNode(t, id, newNode(Root, TRUE)) IN addWeight(new, Root, id)

setNodeWeight(t, id, weight) ==
  LET p == t.node[id].parent
      reweighed == IF Weighs(t, id)
                   THEN [t EXCEPT !.node[p].childrensWeight =
                                    @ + weight - t.node[id].weight]
                   ELSE t
  IN [reweighed EXCEPT !.node[id].weight = weight]

maybeSetWeight(t, id, weight) ==
  IF id \in {1, 3} \/ id \notin DOMAIN t.node \/ t.node[id].weight = weight
  THEN t ELSE setNodeWeight(t, id, weight)

-----------------------------------------------------------------------------
(* Changing the parent of a node.                                           *)

\* The nodes at and above n, without the root
RECURSIVE AtAndAbove(_, _)
AtAndAbove(t, n) ==
  IF t.node[n].parent = NoNode THEN {} ELSE {n} \cup AtAndAbove(t, t.node[n].parent)

\* "If a stream is made dependent on one of its own dependencies, the formerly
\* dependent stream is first moved ..."
moveFormerlyDependent(t, child, newParent) ==
  LET oldParent == t.node[child].parent
      relinked == IF Weighs(t, newParent)
                  THEN addWeight(removeWeight(t, t.node[newParent].parent, newParent),
                                 oldParent, newParent)
                  ELSE t
  IN IF child \in AtAndAbove(t, t.node[newParent].parent)
     THEN [relinked EXCEPT !.node[newParent].parent = oldParent]
     ELSE t

removeFromParent(t, child) ==
  LET p == t.node[child].parent
      unlinked == IF p # NoNode /\ Weighs(t, child) THEN removeWeight(t, p, child) ELSE t
  IN [unlinked EXCEPT !.node[child].parent = NoNode]

\* The loop ranges over the slice of children as it was, while removeWeight
\* moves the rest of the same array up: elements is that array.
RECURSIVE adoptChildren(_, _, _, _, _)
adoptChildren(t, child, newParent, elements, i) ==
  IF i > Len(elements) \/ t.panic THEN t
  ELSE LET c == elements[i]
           taken == removeWeight(addWeight(t, child, c), newParent, c)
           moved == IF Weighs(t, c) THEN taken ELSE t
           left == moved.node[newParent].children
           after == [j \in DOMAIN elements |->
                       IF j <= Len(left) THEN left[j] ELSE elements[j]]
       IN IF c = newParent THEN adoptChildren(t, child, newParent, elements, i + 1)
          ELSE adoptChildren([moved EXCEPT !.node[c].parent = child],
                             child, newParent, after, i + 1)

setNodeParent(t, child, newParent, exclusive) ==
  LET moved == moveFormerlyDependent(t, child, newParent)
      alone == removeFromParent(moved, child)
      adopted == IF exclusive
                 THEN adoptChildren(alone, child, newParent,
                                    alone.node[newParent].children, 1)
                 ELSE alone
      placed == [adopted EXCEPT !.node[child].parent = newParent]
  IN IF t.node[newParent].parent = NoNode THEN Panicked(t)
     ELSE IF Weighs(placed, child) THEN addWeight(placed, newParent, child) ELSE placed

\* Whether maybeSetParent reports an error.  The root is not in the nodeMap of
\* the streamTree: unless it is the parent already, it is an unknown stream.
ParentRefused(t, child, parent, exclusive) ==
  LET p == IF parent = 3 THEN Root ELSE parent IN
  \/ child = parent \/ child \in {1, 3} \/ parent = 1
  \/ child \notin DOMAIN t.node \/ p \notin DOMAIN t.node
  \/ p = Root /\ (exclusive \/ t.node[child].parent # Root)

maybeSetParent(t, child, parent, exclusive) ==
  LET p == IF parent = 3 THEN Root ELSE parent IN
  IF \/ ParentRefused(t, child, parent, exclusive)
     \/ ~ exclusive /\ t.node[child].parent = p
  THEN t
  ELSE setNodeParent(t, child, p, exclusive)

-----------------------------------------------------------------------------
(* traverse: the streams to give to paths.  A walk is the tree with what   *)
(* was found; sent is the set of streams whose FIN was sent, sized the set *)
(* of those that already have a path (checksize).                           *)

NextSibling(t, n) ==
  LET p == t.node[n].parent IN
  IF p # NoNode /\ t.node[p].children # <<>>
  THEN [t EXCEPT !.node[p].nextChild = (@ + 1) % Len(t.node[p].children)]
  ELSE t

\* Mutant: a stream is found although its parent has not finished.
MayPass_Always(nd, n, sent) == nd.activeChildren > 0

MayPass(nd, n, sent) ==
  nd.activeChildren > 0 /\ (~ nd.stream \/ n \in sent \/ n \in {1, 3})

RECURSIVE traverse(_, _, _, _), traverseChildren(_, _, _, _, _)
traverse(walk, n, sent, sized) ==
  LET begun == walk.tree.node[n]
      closed == IF begun.stream /\ n \in sent THEN deactivateNode(walk.tree, n) ELSE walk.tree
      marked == IF closed.node[n].stream /\ n \in sized
                THEN [closed EXCEPT !.node[n].visited = TRUE] ELSE closed
      nd == marked.node[n]
      here == [walk EXCEPT !.tree = marked]
      down == IF ~ nd.visited /\ nd.stream
              THEN IF nd.state = "active" THEN [here EXCEPT !.found = Append(@, n)] ELSE here
              ELSE IF MayPass(nd, n, sent)
                   THEN traverseChildren(here, n, 0, sent, sized) ELSE here
  IN [down EXCEPT !.tree = NextSibling(@, n)]

traverseChildren(walk, n, i, sent, sized) ==
  LET nd == walk.tree.node[n] IN
  IF i >= Len(nd.children) THEN walk
  ELSE traverseChildren(traverse(walk, nd.children[nd.nextChild + 1], sent, sized),
                        n, i + 1, sent, sized)

schedule(t, sent, sized) ==
  traverse([tree |-> t, found |-> <<>>], Root, sent, sized)
=============================================================================
