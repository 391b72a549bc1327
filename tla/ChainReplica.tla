--------------------------- MODULE ChainReplica ---------------------------
(***************************************************************************)
(* What the peers promise about their copies of the chain, with messages,  *)
(* memory pools, locks and balances left out.                              *)
(*                                                                         *)
(* A header is a block's hash and its prevHash.  A peer makes a new block  *)
(* on top of its own chain, takes a block that somebody made on top of its *)
(* own chain, or exchanges its chain for a longer one that is linked block *)
(* by block down to the genesis block.                                     *)
(***************************************************************************)
EXTENDS Integers, Sequences

CONSTANTS Node,      \* the peers
          Joined,    \* the peers that have the genesis block at the beginning
          Hash,      \* what a block can hash to
          None       \* the genesis block's prevHash

ASSUME ReplicaAssumption ==
  /\ Joined \subseteq Node
  /\ 0 \in Hash
  /\ None \notin Hash

VARIABLES chain,     \* chain[n]: n's copy, << >> before it has one
          minted     \* every header made so far

vars == <<chain, minted>>

Header == [hash : Hash, prevHash : Hash \cup {None}]

genesis == [hash |-> 0, prevHash |-> None]

Init ==
  /\ minted = {genesis}
  /\ chain = [n \in Node |-> IF n \in Joined THEN <<genesis>> ELSE << >>]

tip(c) == c[Len(c)].hash

Linked(c) ==
  /\ c # << >>
  /\ c[1] = genesis
  /\ \A i \in 2..Len(c) : c[i].prevHash = c[i-1].hash

-----------------------------------------------------------------------------
Mint_Unrecorded(n, h) ==   \* mutant: the block is not published
  /\ chain[n] # << >>
  /\ h \in Hash
  /\ \A b \in minted : b.hash # h
  /\ chain' = [chain EXCEPT ![n] = Append(@, [hash |-> h, prevHash |-> tip(chain[n])])]
  /\ UNCHANGED minted

\* n makes a block that hashes to h on top of its chain; no two blocks have the
\* same hash.
Mint(n, h) ==
  /\ chain[n] # << >>
  /\ h \in Hash
  /\ \A b \in minted : b.hash # h
  /\ LET b == [hash |-> h, prevHash |-> tip(chain[n])]
     IN  /\ minted' = minted \cup {b}
         /\ chain' = [chain EXCEPT ![n] = Append(@, b)]

Accept_AnyParent(n) ==   \* mutant: prevHash not compared
  /\ chain[n] # << >>
  /\ \E b \in minted : chain' = [chain EXCEPT ![n] = Append(@, b)]
  /\ UNCHANGED minted

\* n takes a block made elsewhere on top of its chain.
Accept(n) ==
  /\ chain[n] # << >>
  /\ \E b \in minted :
       /\ b.prevHash = tip(chain[n])
       /\ chain' = [chain EXCEPT ![n] = Append(@, b)]
  /\ UNCHANGED minted

Adopt_Equal(n, c) ==   \* mutant: an equally long chain is taken too
  /\ c \in Seq(minted)
  /\ Linked(c)
  /\ Len(c) >= Len(chain[n])
  /\ chain' = [chain EXCEPT ![n] = c]
  /\ UNCHANGED minted

\* n takes c, a longer chain, in place of its own.
Adopt(n, c) ==
  /\ c \in Seq(minted)
  /\ Linked(c)
  /\ Len(c) > Len(chain[n])
  /\ chain' = [chain EXCEPT ![n] = c]
  /\ UNCHANGED minted

\* The block that Mint made, and the chain that Adopt took, are found in n's
\* chain after the step.
Next ==
  \E n \in Node :
    \/ chain'[n] # << >> /\ Mint(n, tip(chain'[n]))
    \/ Accept(n)
    \/ Adopt(n, chain'[n])

Spec == Init /\ [][Next]_vars

-----------------------------------------------------------------------------
(***************************************************************************)
(* Chains hold headers that were made, and are linked down to genesis.     *)
(***************************************************************************)
TypeOK ==
  /\ minted \in SUBSET Header
  /\ chain \in [Node -> Seq(minted)]

(***************************************************************************)
(* If two peers hold the same block, they hold it at the same height and   *)
(* on top of the same history: isValidBlock and isvalidChain look one      *)
(* block back only, and that is enough.                                    *)
(***************************************************************************)
PrefixAgreement ==
  \A m, n \in Node :
    \A i \in DOMAIN chain[m], j \in DOMAIN chain[n] :
      chain[m][i].hash = chain[n][j].hash
        => /\ i = j
           /\ SubSeq(chain[m], 1, i) = SubSeq(chain[n], 1, j)

(***************************************************************************)
(* A peer's chain only ever gets longer (Chain.rewrite returns without an  *)
(* effect for a chain that is not longer), and a peer that loses a block   *)
(* loses it to a strictly longer chain.                                    *)
(***************************************************************************)
ChainsGrow ==
  [][\A n \in Node :
       \/ chain'[n] = chain[n]
       \/ Len(chain'[n]) > Len(chain[n])]_vars
=============================================================================
