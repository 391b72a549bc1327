---------------------------- MODULE PoaLedger ----------------------------
(***************************************************************************)
(* The pure part of consensus/poa: balances, blocks signed by their        *)
(* miners, which block and which chain a peer accepts, and the schedule of *)
(* miners.                                                                 *)
(*                                                                         *)
(* hash stands for sha256 over the whole block (its uuid among it, so no   *)
(* two blocks share one).  A node id and its public key name the same      *)
(* peer.  Blocks are signed by their miners, transactions by their         *)
(* senders.                                                                *)
(***************************************************************************)
EXTENDS Transfers

Block == [hash : Nat, prevHash : Nat \cup {None}, transactions : Seq(Tx),
          miner : Account, miners_list : Seq(Account)]

\* The genesis block of start(); miners_list is <<pk>> there.
first_block(pk, miners_list) ==
  [hash |-> 0, prevHash |-> None, miner |-> pk, miners_list |-> miners_list,
   transactions |-> << [id |-> 0, sender |-> Genesis, receiver |-> pk,
                        amount |-> GenesisGrant] >>]

-----------------------------------------------------------------------------
(***************************************************************************)
(* Balances: every block counts.                                           *)
(***************************************************************************)
BlockCredit(block, pk) ==
  SumTo([k \in DOMAIN block.transactions |-> TxCredit(block.transactions[k], pk)],
        Len(block.transactions))
  + (IF block.miner = pk THEN MinerReward ELSE 0)

calc_balance_block_list_NoPending(block_list, pk, i, mem_pool) ==   \* mutant
  SumTo([j \in 1..i |-> BlockCredit(block_list[j], pk)], i)

calc_balance_block_list(block_list, pk, i, mem_pool) ==
  SumTo([j \in 1..i |-> BlockCredit(block_list[j], pk)], i) - Spending(mem_pool, pk)

calc_balance(chain, pk, pending) ==
  calc_balance_block_list(chain, pk, Len(chain), pending)

-----------------------------------------------------------------------------
(***************************************************************************)
(* Validity.                                                               *)
(***************************************************************************)
isValidBlock_AnyParent(chain, block, reqd_miner) ==   \* mutant: prevHash is not compared
  /\ block.miner = reqd_miner
  /\ \A k \in DOMAIN block.transactions :
       LET tx == block.transactions[k] IN
       /\ ~ transaction_exists_in_chain(chain, tx)
       /\ tx.amount > 0
       /\ tx.amount <= calc_balance(chain, tx.sender,
                                    SubSeq(block.transactions, 1, k - 1))

isValidBlock(chain, block, reqd_miner) ==
  /\ block.miner = reqd_miner
  /\ block.prevHash = lastBlock(chain).hash
  /\ \A k \in DOMAIN block.transactions :
       LET tx == block.transactions[k] IN
       /\ ~ transaction_exists_in_chain(chain, tx)
       /\ tx.amount > 0
       /\ tx.amount <= calc_balance(chain, tx.sender,
                                    SubSeq(block.transactions, 1, k - 1))

\* One turn of isvalidChain's loop.  It asks nothing about who the miner is.
ExtendsList(block_list, i) ==
  /\ block_list[i].prevHash = block_list[i-1].hash
  /\ \A k \in DOMAIN block_list[i].transactions :
       LET tx == block_list[i].transactions[k] IN
       /\ ~ transaction_exists_in_block_list(block_list, tx, i - 1)
       /\ tx.amount > 0
       /\ tx.amount <= calc_balance_block_list(block_list, tx.sender, i - 1,
                            SubSeq(block_list[i].transactions, 1, k - 1))

isvalidChain(block_list) == \A i \in 2..Len(block_list) : ExtendsList(block_list, i)

-----------------------------------------------------------------------------
(***************************************************************************)
(* The schedule: pairs of a list of miners and the length of chain from    *)
(* which it is used.                                                       *)
(***************************************************************************)
Entry == [miners_list : Seq(Account), activation_block : Nat]

\* The entries at the head of the schedule that are due at this length: only if
\* the first one is.
DueEntries(miners, len) ==
  {i \in DOMAIN miners : \A j \in 1..i : miners[j].activation_block = len}

\* The last of them, else the list in the last block.
get_current_miners_list(chain, miners) ==
  LET due == DueEntries(miners, Len(chain)) IN
  IF due = {} THEN lastBlock(chain).miners_list
              ELSE miners[CHOOSE i \in due : \A j \in due : j <= i].miners_list

\* "while self.miners: if miners[0][1] < len(chain): pop(0)"
drop_past_entries_Due(miners, len) ==   \* mutant: "<=", an entry leaves when it is due
  SelectSeq(miners, LAMBDA entry : entry.activation_block > len)

drop_past_entries(miners, len) ==
  LET gone == {i \in 0..Len(miners) : \A j \in 1..i : miners[j].activation_block < len}
  IN  SubSeq(miners, 1 + (CHOOSE i \in gone : \A j \in gone : j <= i), Len(miners))

required_miner_NoRound(miners_list, len, round) ==   \* mutant: nobody takes over
  miners_list[1 + (len % Len(miners_list))]

required_miner(miners_list, len, round) ==
  miners_list[1 + ((len + round) % Len(miners_list))]

\* The menu's choices 8 and 9: a list is used three blocks from now, and starts
\* from the latest one.
activation_block_Now(len) == len   \* mutant: from the next block on

activation_block(len) == len + 3

latest_list(chain, miners) ==
  IF miners # << >> THEN miners[Len(miners)].miners_list ELSE lastBlock(chain).miners_list
=============================================================================
