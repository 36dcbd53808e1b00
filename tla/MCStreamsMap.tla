---------------------------- MODULE MCStreamsMap ----------------------------
(***************************************************************************)
(* Configurations of StreamsMap: a server whose peer opens and resets      *)
(* streams; the round-robin, tree, WRR, DFCFS and PRR stream schedulers,   *)
(* on one path and, for PRR, on two.                                       *)
(***************************************************************************)
EXTENDS StreamsMap

Cfg(p, s, n, l, max, w, e) ==
  [perspective |-> p, scheduler |-> s, paths |-> n, limit |-> l, max |-> max, weights |-> w, events |-> e]

Sends == {"open", "write", "header", "close"}

AllConfigs ==
  {Cfg("server", "none", 1, 2, 5, {1}, {"frame", "accept", "reset", "open", "end"}),
   Cfg("server", "RR", 1, 4, 7, {1}, {"frame", "write", "close", "finish"}),
   Cfg("server", "tree", 2, 4, 7, {1}, {"headers", "close", "dependency"}),
   Cfg("client", "PRR", 1, 4, 7, {2}, Sends \cup {"window"}),
   Cfg("client", "PRR", 2, 4, 5, {1, 2}, Sends),
   Cfg("client", "WRR", 1, 4, 7, {1, 2}, {"open", "write", "close", "window"}),
   Cfg("client", "DFCFS", 1, 4, 7, {1, 2}, Sends \cup {"window"})}

=============================================================================
