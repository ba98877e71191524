--------------------------- MODULE MCAudioRecovery ---------------------------
(* Two connections of the companion to the driver's server, one of which is *)
(* on its way out when the other is made, and a few faults in all.          *)
EXTENDS AudioRecovery
=============================================================================
