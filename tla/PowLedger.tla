---------------------------- MODULE PowLedger ----------------------------
(***************************************************************************)
(* The pure part of consensus/pow/blockchain_structures.py: what a chain   *)
(* is worth to an account, which block extends a chain, which chain a peer *)
(* accepts from another.                                                   *)
(*                                                                         *)
(* A block is a record: hash stands for sha256 over everything to_dict     *)
(* writes (the block's uuid among it, so no two mined blocks share one);   *)
(* miner is kept beside it because to_dict leaves it out.  Every block met *)
(* here carries a proof of work.                                           *)
(***************************************************************************)
EXTENDS Confirmations, Transfers

Block == [hash : Nat, prevHash : Nat \cup {None}, transactions : Seq(Tx),
          miner : Account \cup {None}]

genesis_block(pk) ==
  [hash |-> 0, prevHash |-> None, miner |-> None,
   transactions |-> << [id |-> 0, sender |-> Genesis, receiver |-> pk,
                        amount |-> GenesisGrant] >>]

(***************************************************************************)
(* to_dict followed by block_dict_to_block: what another peer, or the next *)
(* run of this one, rebuilds from a block.  The miner is lost.             *)
(***************************************************************************)
over_the_wire_NoMiner(block) ==   \* mutant: no default for the lost miner
  [hash |-> block.hash, prevHash |-> block.prevHash, transactions |-> block.transactions]

over_the_wire(block) == [block EXCEPT !.miner = None]

to_block_dict_list(chain) == [i \in DOMAIN chain |-> over_the_wire(chain[i])]

-----------------------------------------------------------------------------
(***************************************************************************)
(* Confirmed balances.                                                     *)
(***************************************************************************)
BlockCredit(block, pk) ==
  SumTo([k \in DOMAIN block.transactions |-> TxCredit(block.transactions[k], pk)],
        Len(block.transactions))
  + (IF block.miner = pk THEN MinerReward ELSE 0)

calc_balance_block_list_NoPending(block_list, pk, i, pending) ==   \* mutant
  SumTo([j \in 1..valid_chain_length(i) |-> BlockCredit(block_list[j], pk)],
        valid_chain_length(i))

calc_balance_block_list(block_list, pk, i, pending) ==
  SumTo([j \in 1..valid_chain_length(i) |-> BlockCredit(block_list[j], pk)],
        valid_chain_length(i))
  - Spending(pending, pk)

calc_balance(chain, pk, pending) ==
  calc_balance_block_list(chain, pk, Len(chain), pending)

-----------------------------------------------------------------------------
(***************************************************************************)
(* Validity.                                                               *)
(***************************************************************************)
isValidBlock_AnyParent(chain, block) ==   \* mutant: prevHash not compared
  \A k \in DOMAIN block.transactions :
    ~ transaction_exists_in_chain(chain, block.transactions[k])

\* The balance is tested with the block's earlier transactions as pending; the
\* test for a negative amount is inside the argument list and has no effect.
isValidBlock(chain, block) ==
  /\ block.prevHash = lastBlock(chain).hash
  /\ \A k \in DOMAIN block.transactions :
       LET tx == block.transactions[k] IN
       /\ ~ transaction_exists_in_chain(chain, tx)
       /\ tx.amount <= calc_balance(chain, tx.sender,
                                    SubSeq(block.transactions, 1, k - 1))

\* One turn of isvalidChain's loop.
ExtendsList(block_list, i) ==
  /\ block_list[i].prevHash = block_list[i-1].hash
  /\ \A k \in DOMAIN block_list[i].transactions :
       LET tx == block_list[i].transactions[k] IN
       /\ ~ transaction_exists_in_block_list(block_list, tx, i - 1)
       /\ tx.amount > 0
       /\ tx.amount <= calc_balance_block_list(block_list, tx.sender, i - 1,
                            SubSeq(block_list[i].transactions, 1, k - 1))

isvalidChain_NotGenesis(block_list) ==   \* mutant: refuses the genesis block alone
  Len(block_list) > 1 /\ \A i \in 2..Len(block_list) : ExtendsList(block_list, i)

isvalidChain(block_list) ==
  \A i \in 2..Len(block_list) : ExtendsList(block_list, i)
=============================================================================
