----------------------------- MODULE MCSession ------------------------------
(* Session for TLC: one path beside the initial one.                        *)
EXTENDS Session

C(e, creates, accepts, cp, f, d, p, u) ==
  [established |-> e, creates |-> creates, accepts |-> accepts, closePath |-> cp, fails |-> f, data |-> d,
   packets |-> p, updates |-> u]

\* A handshake; a client whose packets may fail; a client that is sent a CLOSE_PATH; a server.
MCConfigs ==
  {C(FALSE, FALSE, FALSE, FALSE, TRUE, 1, 0, 0), C(TRUE, TRUE, FALSE, FALSE, TRUE, 0, 0, 0),
   C(TRUE, TRUE, FALSE, TRUE, FALSE, 0, 1, 0), C(TRUE, FALSE, TRUE, TRUE, FALSE, 0, 2, 1)}

\* A client on a network without failures.
MCCreates == {C(TRUE, TRUE, FALSE, FALSE, FALSE, 2, 0, 0)}
=============================================================================
