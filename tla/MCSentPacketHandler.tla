------------------------ MODULE MCSentPacketHandler ------------------------
(* SentPacketHandler on a small instance; the constants are set in the      *)
(* configuration files.                                                     *)
EXTENDS SentPacketHandler

\* Neighbours differ in length, so that bytes of the wrong packet are noticed.
LengthOfNumber == [p \in 1 .. MaxPacketNumber |-> {1 + (p % 3)}]
=============================================================================
