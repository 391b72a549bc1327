-------------------------- MODULE MCChainReplica --------------------------
(* ChainReplica with the chains a peer may adopt listed, for TLC.          *)
EXTENDS ChainReplica, FiniteSets

\* Every chain over the headers made so far; no linked chain repeats one.
Candidates == UNION {[1..k -> minted] : k \in 1..Cardinality(minted)}

MCNext ==
  \E n \in Node :
    \/ \E h \in Hash : Mint(n, h)
    \/ Accept(n)
    \/ \E c \in Candidates : Adopt(n, c)

MCSpec == Init /\ [][MCNext]_vars
=============================================================================
