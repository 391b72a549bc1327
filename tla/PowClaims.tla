----------------------------- MODULE PowClaims -----------------------------
(***************************************************************************)
(* What the README, the comments and the docstrings say of the peers of    *)
(* PowNetwork, each checked by itself; section 7 of README.md quotes the   *)
(* lines.                                                                  *)
(***************************************************************************)
EXTENDS PowNetwork

(***************************************************************************)
(* A peer that starts with a bootstrap host receives its chain and takes   *)
(* it (Chain.__init__).  A chain on which a mining reward was spent is     *)
(* refused by isvalidChain once its miners are lost on the wire.           *)
(***************************************************************************)
Bootstrapped == \A n \in Node : <>(chain[n] # << >>)

(***************************************************************************)
(* Spending is prevented beyond what an account has, confirmed or not.     *)
(* The spending in blocks that are not confirmed yet is not counted.       *)
(***************************************************************************)
WholeBalance(c, pk) ==
  SumTo([i \in DOMAIN c |-> BlockCredit(c[i], pk)], Len(c))

NoDoubleSpend ==
  \A n \in Node : \A pk \in Account : WholeBalance(chain[n], pk) >= 0
=============================================================================
