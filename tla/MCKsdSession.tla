---------------------------- MODULE MCKsdSession ----------------------------
(* An empty file and one of a chunk and a bit, over a FIFO of two bytes.   *)
EXTENDS KsdSession
=============================================================================
