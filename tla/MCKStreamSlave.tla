--------------------------- MODULE MCKStreamSlave ---------------------------
(* Rings of four bytes whose counts wrap after two rounds.                 *)
EXTENDS KStreamSlave
=============================================================================
