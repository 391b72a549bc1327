--------------------------- MODULE MCPosNetwork ---------------------------
(* PosNetwork for TLC: peers as numbers, how long they have run.           *)
EXTENDS PosNetwork

OneConnection == {<<2, 1>>}
MidEpoch == [n \in Node |-> IF n = Founder THEN 4 ELSE 3]
=============================================================================
