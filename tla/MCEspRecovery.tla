--------------------------- MODULE MCEspRecovery ---------------------------
(* Three parts, the last of which the ESP can start without.               *)
EXTENDS EspRecovery

MCNeeded == {1, 2}
=============================================================================
