------------------------------ MODULE MCStream ------------------------------
(* Stream on small instances; the constants are set in the configurations.  *)
EXTENDS Stream
=============================================================================
