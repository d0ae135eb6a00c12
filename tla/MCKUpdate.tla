----------------------------- MODULE MCKUpdate -----------------------------
(* A slot of two pages of two units, images that end inside and at the end *)
(* of a page, and a client that may send the wrong data.                   *)
EXTENDS KUpdate

Image(size, f) == [size |-> size, units |-> [i \in Places |-> IF i < size THEN f[i + 1] ELSE 0]]

MCOpens == {Image(0, <<>>), Image(3, <<3, 0, 0>>), Image(4, <<4, 1, 0, 1>>)}
MCPayloads == {<<>>, <<3, 0>>, <<0>>, <<4>>, <<1, 0, 1>>}
=============================================================================
