------------------------------ MODULE MCSdLink ------------------------------
(* Two or three uploads of two blocks, the odd ones for slot 0.            *)
EXTENDS SdLink

MCApps == {u \in Uploads : u % 2 = 1}
=============================================================================
