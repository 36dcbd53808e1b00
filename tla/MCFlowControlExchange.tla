----------------------- MODULE MCFlowControlExchange -----------------------
(* FlowControlExchange on a small instance; the constants are set in the    *)
(* configuration files.                                                     *)
EXTENDS FlowControlExchange

\* The stream that may be reset is the shorter one.
Lengths == [id \in StreamIDs |-> IF id \in Resettable THEN 1 ELSE 3]
=============================================================================
