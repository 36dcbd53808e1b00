---------------------- MODULE MCReceivedPacketHandler ----------------------
(* ReceivedPacketHandler on a small instance; the constants are set in the  *)
(* configuration files.                                                     *)
EXTENDS ReceivedPacketHandler
=============================================================================
