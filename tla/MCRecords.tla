----------------------------- MODULE MCRecords -----------------------------
(* Records for TLC: peers as numbers.                                      *)
EXTENDS Records

OneConnection == {<<2, 1>>}
=============================================================================
