---------------------------- MODULE MCUpdateStream ----------------------------
(* Rings of four bytes and records of five, which come in pieces; no       *)
(* transfer is shorter than two bytes.  The first two records go through,  *)
(* the third ends one byte before the end of the ring.  A status takes     *)
(* three bytes, so that the second one a record is owed waits for a PULL.  *)
EXTENDS UpdateStream

(* The two streams of the update, and no other.                            *)
ASSUME StreamsOfUpdate == OnlyUpdate
=============================================================================
