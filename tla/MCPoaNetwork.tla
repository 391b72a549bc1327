--------------------------- MODULE MCPoaNetwork ---------------------------
(* PoaNetwork for TLC: peers as numbers.                                   *)
EXTENDS PoaNetwork

OneConnection == {<<2, 1>>}
Line == {<<2, 1>>, <<3, 2>>}
Triangle == {<<2, 1>>, <<3, 1>>, <<3, 2>>}
Alone == <<1>>
Both == <<1, 2>>
Two == <<2>>
=============================================================================
