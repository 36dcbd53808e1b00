-------------------------- MODULE MCPathTransport --------------------------
(* PathTransport on a small instance; the constants are set in the          *)
(* configuration files.                                                     *)
EXTENDS PathTransport

\* Bytes in flight are not what this instance is about.
UnitLength == [p \in 1 .. MaxPacketNumber |-> {1}]
=============================================================================
