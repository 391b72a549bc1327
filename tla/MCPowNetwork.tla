--------------------------- MODULE MCPowNetwork ---------------------------
(* PowNetwork for TLC: peers as numbers.                                   *)
EXTENDS PowClaims

NoConnection == {}
OneConnection == {<<2, 1>>}
BothWays == {<<1, 2>>, <<2, 1>>}
Line == {<<2, 1>>, <<3, 2>>}
Triangle == {<<2, 1>>, <<3, 1>>, <<3, 2>>}
=============================================================================
