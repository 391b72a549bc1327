---------------------------- MODULE PosLedger ----------------------------
(***************************************************************************)
(* The pure part of consensus/pos/blockchain_structures.py: balances with  *)
(* stakes and slashed blocks, which block extends a chain, which chain a   *)
(* peer accepts, where two chains part and what a chain weighs.            *)
(*                                                                         *)
(* A block is a record.  hash stands for sha256 over to_dict; gap for its  *)
(* timestamp, as the time since its parent's, counted no further than the  *)
(* shortest one allowed; vrf for the output of its vrf_proof.  Signatures  *)
(* are always their maker's, so a stake only remembers whether it carries  *)
(* one.  is_valid and slash_creator are this peer's own marks: to_dict     *)
(* leaves them out.  Times are in units of ten seconds.                    *)
(***************************************************************************)
EXTENDS Confirmations, Transfers, FiniteSetsExt

CONSTANT MAX_OUTPUT   \* vrf outputs are 0..MAX_OUTPUT - 1
ASSUME OutputAssumption == MAX_OUTPUT \in Nat \ {0}

EPOCH_TIME == 6
Registration == (EPOCH_TIME * 5) \div 6   \* stakes are taken until then

Stake == [id : Nat, staker : Account, amt : Int, sign : BOOLEAN]

Block == [hash : Nat, prevHash : Nat \cup {None}, transactions : Seq(Tx),
          creator : Account, staked_amt : Int, stakers : SUBSET Stake,
          seed : Nat \cup {None}, vrf : 0..(MAX_OUTPUT - 1), gap : 0..Registration,
          is_valid : BOOLEAN, slash_creator : BOOLEAN]

genesis_block(pk) ==
  [hash |-> 0, prevHash |-> None, creator |-> pk, staked_amt |-> 0, stakers |-> {},
   seed |-> None, vrf |-> 0, gap |-> 0, is_valid |-> TRUE, slash_creator |-> FALSE,
   transactions |-> << [id |-> 0, sender |-> Genesis, receiver |-> pk,
                        amount |-> GenesisGrant] >>]

\* to_dict_with_stakers followed by block_dict_to_block: the marks are gone, and
\* so are the stakes that carry no signature.
over_the_wire(block) ==
  [block EXCEPT !.is_valid = TRUE, !.slash_creator = FALSE,
                !.stakers = {stake \in @ : stake.sign}]

to_block_dict_list(chain) == [i \in DOMAIN chain |-> over_the_wire(chain[i])]

-----------------------------------------------------------------------------
(***************************************************************************)
(* Stakes and balances.                                                    *)
(***************************************************************************)
StakedBy(pk, stakes) ==
  MapThenSumSet(LAMBDA stake : stake.amt, {stake \in stakes : stake.staker = pk})

total_stake(stakes) == MapThenSumSet(LAMBDA stake : stake.amt, stakes)

\* A slashed creator loses the stake; an invalid block's transactions and its
\* reward count for nobody.
BlockCredit(block, pk) ==
  LET txs == SumTo([k \in DOMAIN block.transactions |-> TxCredit(block.transactions[k], pk)],
                   Len(block.transactions))
      reward == IF block.creator = pk THEN MinerReward ELSE 0
      slashed == IF block.slash_creator /\ block.creator = pk THEN block.staked_amt ELSE 0
  IN  (IF block.is_valid THEN txs + reward ELSE 0) - slashed

Confirmed(block_list, pk, i) ==
  SumTo([j \in 1..valid_chain_length(i) |-> BlockCredit(block_list[j], pk)],
        valid_chain_length(i))

calc_balance_block_list(block_list, pk, i, pending, currStakes) ==
  Confirmed(block_list, pk, i) - Spending(pending, pk) - StakedBy(pk, currStakes)

\* Unlike calc_balance_block_list it also takes off what pk spends in the blocks
\* that are not confirmed.
calc_balance(chain, pk, pending, current_stakes) ==
  LET unconfirmed == (valid_chain_length(Len(chain)) + 1)..Len(chain)
  IN  Confirmed(chain, pk, Len(chain))
      - MapThenSumSet(LAMBDA j : Spending(chain[j].transactions, pk), unconfirmed)
      - StakedBy(pk, current_stakes)
      - Spending(pending, pk)

\* The last confirmed block's hash.
seed_of(block_list, i) == block_list[valid_chain_length(i)].hash

epoch_seed(chain) == seed_of(chain, Len(chain))

-----------------------------------------------------------------------------
(***************************************************************************)
(* Validity.                                                               *)
(***************************************************************************)
\* Stakes are examined one by one with those before them taken off; as each is
\* positive, that is the same as each staker's sum.
isValidBlock(chain, block) ==
  /\ block.prevHash = lastBlock(chain).hash
  /\ \A k \in DOMAIN block.transactions :
       LET tx == block.transactions[k] IN
       /\ ~ transaction_exists_in_chain(chain, tx)
       /\ tx.amount > 0
       /\ tx.amount <= calc_balance(chain, tx.sender,
                         SubSeq(block.transactions, 1, k - 1), block.stakers)
  /\ \A stake \in block.stakers :
       /\ stake.amt > 0
       /\ StakedBy(stake.staker, block.stakers)
            <= calc_balance(chain, stake.staker, block.transactions, {})

\* One turn of isvalidChain's loop for a block after the first.  Its own test for
\* duplicates, transaction_exists_in_block_list, never fires.
ExtendsList(block_list, i) ==
  LET block == block_list[i]
      total == total_stake(block.stakers)
  IN
  /\ block.gap >= Registration
  /\ block.seed = seed_of(block_list, i - 1)
  /\ \A stake \in block.stakers : stake.amt > 0
  /\ total > 0 /\ block.vrf * total <= block.staked_amt * MAX_OUTPUT
  /\ \A k \in DOMAIN block.transactions :
       LET tx == block.transactions[k] IN
       /\ ~ transaction_exists_in_block_list(block_list, tx, i - 1)
       /\ tx.amount > 0
       /\ tx.amount <= calc_balance_block_list(block_list, tx.sender, i - 1,
                         SubSeq(block.transactions, 1, k - 1), block.stakers)
  /\ \A stake \in block.stakers :
       StakedBy(stake.staker, block.stakers)
         <= calc_balance_block_list(block_list, stake.staker, i - 1,
                                    block.transactions, {})
  /\ calc_balance_block_list(block_list, block.creator, i - 1, block.transactions, {}) >= 0
  /\ block.prevHash = block_list[i-1].hash

isvalidChain(block_list) ==
  \A i \in 2..Len(block_list) : ExtendsList(block_list, i)

-----------------------------------------------------------------------------
(***************************************************************************)
(* Forks.                                                                  *)
(***************************************************************************)
checkEquivalence_NotTip(chain, block_list) ==   \* mutant: the last block is not compared
  LET both == 1..((IF Len(chain) < Len(block_list) THEN Len(chain) ELSE Len(block_list)) - 1)
      differ == {i \in both : chain[i].hash # block_list[i].hash}
  IN  IF differ = {} THEN 0 ELSE Min(differ)

\* Where the chains part: the first place both have a block and not the same one;
\* 0 (the code's -1) if one is the beginning of the other.
checkEquivalence(chain, block_list) ==
  LET both == 1..(IF Len(chain) < Len(block_list) THEN Len(chain) ELSE Len(block_list))
      differ == {i \in both : chain[i].hash # block_list[i].hash}
  IN  IF differ = {} THEN 0 ELSE Min(differ)

weight_of_chain(block_list) ==
  MapThenSumSet(LAMBDA i : total_stake(block_list[i].stakers), DOMAIN block_list)
=============================================================================
