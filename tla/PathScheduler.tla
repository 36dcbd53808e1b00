---------------------------- MODULE PathScheduler ---------------------------
(***************************************************************************)
(* On which path the next packet goes: the path selection functions of     *)
(* scheduler.go and ytxing_scheduler.go.                                   *)
(*                                                                         *)
(* They are functions of a view v of the session:                          *)
(*   v.paths    the IDs of s.paths                                         *)
(*   v.allowed, v.failed, v.rtt, v.cwnd, v.quota, v.stored                 *)
(*              per path: SendingAllowed, potentiallyFailed, SmoothedRTT   *)
(*              (0: not known yet), congestion window, packets sent by the *)
(*              scheduler, packets in packetsNotSentYet                    *)
(*   v.queue    data that the streams have to send                         *)
(* and of the order in which the loops over the map s.paths meet the paths *)
(* (Go leaves it open): a sequence of v.paths.                             *)
(***************************************************************************)
EXTENDS Naturals, FiniteSets, SequencesExt

InitialPathID == 0
NoPath == 255      \* a nil path; also the ID that selectedPathID starts with
beta == 4

Orders(paths) == SetToSeqs(paths)

Quota(v, p) == IF p \in v.paths THEN v.quota[p] ELSE 0

\* All selections: the only path there is, also when its window is full and
\* something is to be retransmitted.
OnlyPath(v, has) ==
  IF ~ has /\ ~ v.allowed[InitialPathID] THEN NoPath ELSE InitialPathID

\* A packet that was duplicated goes to a path that was used less than the path
\* it comes from.
LessUsed(v, has, hasStream, from, order) ==
  IF has /\ hasStream /\ v.rtt[from] = 0
  THEN LET less == SelectSeq(order, LAMBDA p : p \notin {InitialPathID, from} /\ v.quota[p] < v.quota[from])
       IN IF less = <<>> THEN NoPath ELSE Head(less)
  ELSE NoPath

Considered(v, order) == SelectSeq(order, LAMBDA p : p # InitialPathID /\ ~ v.failed[p])

\* For a retransmission also the paths without window
ConsideredWithWindow(v, has, order) == SelectSeq(Considered(v, order), LAMBDA p : has \/ v.allowed[p])

selectPathRoundRobin(v, has, hasStream, from, order) ==
  IF Cardinality(v.paths) <= 1 THEN OnlyPath(v, has)
  ELSE FoldLeft(LAMBDA sel, p : IF sel # NoPath /\ v.quota[p] >= v.quota[sel] THEN sel ELSE p,
                NoPath, ConsideredWithWindow(v, has, order))

\* The loop body of the selections by latency, for the time of every path: a path
\* whose time is not known (0) is taken only while none with a known time is.
Lower(v, time, sel, p) ==
  LET lower == IF sel = NoPath THEN 0 ELSE time[sel] IN
  IF \/ lower # 0 /\ time[p] = 0
     \/ time[p] = 0 /\ sel # NoPath /\ v.quota[p] > Quota(v, sel)
     \/ time[p] # 0 /\ lower # 0 /\ time[p] >= lower
  THEN sel ELSE p

LowestRTT(v, has, order) ==
  FoldLeft(LAMBDA sel, p : Lower(v, v.rtt, sel, p), NoPath, ConsideredWithWindow(v, has, order))

selectPathLowLatency(v, has, hasStream, from, order) ==
  IF Cardinality(v.paths) <= 1 THEN OnlyPath(v, has)
  ELSE LET less == LessUsed(v, has, hasStream, from, order) IN
       IF less # NoPath THEN less
       ELSE LowestRTT(v, has, order)

findPathLowLatency(v, order) ==
  IF Cardinality(v.paths) <= 1 THEN OnlyPath(v, FALSE)
  ELSE LowestRTT(v, FALSE, order)

\* The loop body of the ECF selections: the best path, window or not, and the best
\* one of those that were not better than all before them and have window.
TwoBest(v, two, p) ==
  LET lower == IF two.best = NoPath THEN 0 ELSE v.rtt[two.best]
      secondLower == IF two.second = NoPath THEN 0 ELSE v.rtt[two.second]
      r == v.rtt[p]
      second == IF r >= lower /\ (secondLower = 0 \/ r < secondLower) /\ v.allowed[p]
                THEN p ELSE two.second
  IN CASE lower # 0 /\ r = 0 -> two
       [] r = 0 /\ two.best # NoPath /\ v.quota[p] > Quota(v, two.best) -> two
       [] r # 0 /\ lower # 0 /\ r >= lower -> [two EXCEPT !.second = second]
       [] OTHER -> [best |-> p, second |-> second]

BestTwo(v, order) ==
  FoldLeft(LAMBDA two, p : TwoBest(v, two, p), [best |-> NoPath, second |-> NoPath], Considered(v, order))

\* Whether a sender with that much to send does better to wait for the best path
\* than to use the second best; the result also says whether it waits from now on.
\* xBest is the part of the data the best path is to carry.
Waits(v, two, queue, xBest, waiting) ==
  LET cwndBest == v.cwnd[two.best]
      cwndSecond == v.cwnd[two.second]
      xSecond == IF queue < cwndSecond THEN cwndSecond ELSE queue
      lhs == v.rtt[two.best] * (xBest + cwndBest)
      rhs == cwndBest * v.rtt[two.second]
  IN IF beta * lhs < beta * rhs + waiting * rhs
     THEN IF v.rtt[two.second] * xSecond > cwndSecond * 2 * v.rtt[two.best]
          THEN [wait |-> TRUE, waiting |-> 1]
          ELSE [wait |-> FALSE, waiting |-> waiting]
     ELSE [wait |-> FALSE, waiting |-> 0]

\* The choice between the two: [path, waiting], where decided is the answer when the
\* best path has no window and the second best one has.
BestOrSecond(v, has, hasStream, from, order, waiting, decided) ==
  LET less == LessUsed(v, has, hasStream, from, order)
      two == BestTwo(v, order)
      Answer(p) == [path |-> p, waiting |-> waiting]
  IN CASE Cardinality(v.paths) <= 1 -> Answer(OnlyPath(v, has))
       [] Cardinality(v.paths) > 1 /\ less # NoPath -> Answer(less)
       [] Cardinality(v.paths) > 1 /\ less = NoPath /\ two.best = NoPath -> Answer(NoPath)
       [] OTHER -> IF has \/ v.allowed[two.best] THEN Answer(two.best)
                   ELSE IF two.second = NoPath THEN Answer(NoPath)
                   ELSE decided

WaitOrSecond(v, two, waiting) ==
  LET xBest == IF v.queue > v.cwnd[two.best] THEN v.cwnd[two.best] ELSE v.queue
      w == Waits(v, two, v.queue, xBest, waiting)
  IN [path |-> IF w.wait THEN NoPath ELSE two.second, waiting |-> w.waiting]

selectPathEarliestCompletionFirst(v, has, hasStream, from, order, waiting) ==
  BestOrSecond(v, has, hasStream, from, order, waiting, WaitOrSecond(v, BestTwo(v, order), waiting))

\* The streams whose turn it is are asked one after the other, until one does not
\* want to wait; waiting is per stream, v.left what is left of each.
FirstNotWaiting(v, two, turns, waiting) ==
  FoldLeft(LAMBDA a, s :
             IF a.path # NoPath \/ s \in a.visited THEN a
             ELSE LET queue == IF a.queue > v.left[s] THEN v.left[s] ELSE a.queue
                      w == Waits(v, two, queue, queue, a.waiting[s])
                  IN [path |-> IF w.wait THEN NoPath ELSE two.second, queue |-> queue,
                      visited |-> a.visited \cup {s}, waiting |-> [a.waiting EXCEPT ![s] = w.waiting]],
           [path |-> NoPath, queue |-> v.queue, visited |-> {}, waiting |-> waiting], turns)

selectPathStreamAwareEarliestCompletionFirst(v, has, hasStream, from, order, turns, waiting) ==
  BestOrSecond(v, has, hasStream, from, order, waiting,
               FirstNotWaiting(v, BestTwo(v, order), turns, waiting))

\* Half the round trip, and the time the window needs for what is stored for the
\* path and one more packet; in half units of time, 0 if the RTT is not known.
calculateArrivalTime(v, p) == (2 * (1 + v.stored[p]) * v.rtt[p]) \div v.cwnd[p] + v.rtt[p]

\* On the server; a client takes the lowest latency.
mySelectPathByArrivalTime(v, has, hasStream, from, order) ==
  LET less == LessUsed(v, has, hasStream, from, order)
      refill == SelectSeq(order, LAMBDA p : v.stored[p] > 0 /\ v.allowed[p])
      considered == Considered(v, order)
      time == [p \in v.paths |-> calculateArrivalTime(v, p)]
  IN CASE Cardinality(v.paths) <= 1 -> OnlyPath(v, FALSE)
       [] Cardinality(v.paths) > 1 /\ less # NoPath -> less
       [] Cardinality(v.paths) > 1 /\ less = NoPath /\ refill # <<>> -> Head(refill)
       [] OTHER -> IF \A p \in Range(considered) : ~ has /\ ~ v.allowed[p] THEN NoPath
                   ELSE FoldLeft(LAMBDA sel, p : Lower(v, time, sel, p), NoPath, considered)
=============================================================================
