--------------------------- MODULE MCKStreamLink ---------------------------
(* Sequence numbers that wrap after three commands.                        *)
EXTENDS KStreamLink
=============================================================================
