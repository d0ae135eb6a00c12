--------------------------- MODULE MCKBootJournal ---------------------------
(* Small journals for TLC.                                                 *)
EXTENDS KBootJournal
=============================================================================
