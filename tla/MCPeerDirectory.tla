-------------------------- MODULE MCPeerDirectory --------------------------
(* PeerDirectory for TLC: peers as numbers, names as strings.              *)
EXTENDS PeerDirectory

Names == <<"alice", "bob", "alice">>
LowerCase == [s \in {"alice", "bob"} |-> s]
Pairs == {<<2, 3>>, <<1, 3>>}
NoPairs == {}
=============================================================================
