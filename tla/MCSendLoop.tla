------------------------------ MODULE MCSendLoop ----------------------------
(* SendLoop for TLC: two paths beside the initial one.                      *)
EXTENDS SendLoop

C(scheduler, pers, e, data, a, p, windows) ==
  [scheduler |-> scheduler, pers |-> pers, early |-> e, data |-> data, alarms |-> a,
   packets |-> p, windows |-> windows]

MCConfigs ==
  {C("saecf", "server", FALSE, 3, 1, 0, 1), C("ecf", "client", FALSE, 2, 2, 0, 1),
   C("roundrobin", "server", FALSE, 2, 2, 0, 1), C("mine", "server", FALSE, 2, 2, 0, 1),
   C("minrtt", "client", TRUE, 2, 1, 0, 1), C("minrtt", "client", FALSE, 1, 1, 0, 2),
   C("mine", "client", FALSE, 1, 0, 1, 1), C("saecf", "server", FALSE, 0, 1, 1, 1)}
=============================================================================
