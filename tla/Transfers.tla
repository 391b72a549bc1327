---------------------------- MODULE Transfers ----------------------------
(***************************************************************************)
(* What consensus/pow, poa and pos share word for word: coin transfers,    *)
(* what they do to a balance, looking for one in a chain, replacing a      *)
(* chain, and sweeping a memory pool.                                      *)
(*                                                                         *)
(* A transaction is a coin transfer; its signature is always its sender's. *)
(* A block or a chain is anything with the fields used here.               *)
(***************************************************************************)
EXTENDS Integers, Sequences

CONSTANTS Account,   \* public keys
          Genesis,   \* the string "Genesis": sender of the first grant
          None       \* Python's None: no miner, no previous hash, no task

ASSUME LedgerAssumption ==
  /\ Genesis \notin Account
  /\ None \notin Account
  /\ None # Genesis
  /\ None \notin Nat

GenesisGrant == 50   \* Chain.__init__
MinerReward == 6     \* calc_balance

Tx == [id : Nat, sender : Account \cup {Genesis}, receiver : Account, amount : Int]

-----------------------------------------------------------------------------
\* f[1] + ... + f[n]
SumTo(f, n) == LET sum[i \in 0..n] == IF i = 0 THEN 0 ELSE sum[i-1] + f[i]
               IN  sum[n]

\* What one transaction does to pk's balance; a transfer to oneself only debits.
TxCredit(tx, pk) == CASE tx.sender = pk -> - tx.amount
                      [] tx.sender # pk /\ tx.receiver = pk -> tx.amount
                      [] OTHER -> 0

\* What pk spends in transactions that are not confirmed.
Spending(pending, pk) ==
  SumTo([k \in DOMAIN pending |-> IF pending[k].sender = pk THEN pending[k].amount ELSE 0],
        Len(pending))

-----------------------------------------------------------------------------
lastBlock(chain) == chain[Len(chain)]

transaction_exists_in_block(block, tx) ==
  \E k \in DOMAIN block.transactions : block.transactions[k] = tx

transaction_exists_in_chain_NotLast(chain, tx) ==   \* mutant: off by one
  \E i \in 1..(Len(chain) - 1) : transaction_exists_in_block(chain[i], tx)

transaction_exists_in_chain(chain, tx) ==
  \E i \in DOMAIN chain : transaction_exists_in_block(chain[i], tx)

\* Its loop only ever returns False, and it ends without a result: the caller's
\* test for a duplicate never succeeds.
transaction_exists_in_block_list(block_list, tx, idx) == FALSE

rewrite_ByTwo(chain, block_list) ==   \* mutant: off by one
  IF Len(chain) + 1 >= Len(block_list) THEN chain ELSE block_list

rewrite_Equal(chain, block_list) ==   \* mutant: an equally long chain is taken
  IF Len(chain) > Len(block_list) THEN chain ELSE block_list

rewrite(chain, block_list) ==
  IF Len(chain) >= Len(block_list) THEN chain ELSE block_list

-----------------------------------------------------------------------------
(***************************************************************************)
(* "for transaction in mem_pool: if gone: mem_pool.remove(transaction)".   *)
(* Removing from the list under iteration moves the next transaction into  *)
(* the place just visited, so it is neither examined nor collected: kept   *)
(* is the pool afterwards, taken the transactions found not to be gone.    *)
(***************************************************************************)
Swept == [kept |-> << >>, taken |-> << >>, skip |-> FALSE]

Visit_Clears(before, tx, gone) ==   \* mutant: the whole pool is emptied
  [before EXCEPT !.taken = IF tx \in gone THEN @ ELSE Append(@, tx)]

Visit(before, tx, gone) ==
  LET removed == ~ before.skip /\ tx \in gone
      passed == ~ before.skip /\ tx \notin gone
  IN  [kept |-> IF removed THEN before.kept ELSE Append(before.kept, tx),
       taken |-> IF passed THEN Append(before.taken, tx) ELSE before.taken,
       skip |-> removed]

Sweep(pool, gone) ==
  LET scan[k \in 0..Len(pool)] ==
        IF k = 0 THEN Swept ELSE Visit(scan[k-1], pool[k], gone)
  IN  scan[Len(pool)]

\* "for transaction in list(mem_pool): if gone: mem_pool.remove(transaction)": over
\* a copy, so all are examined.
Without(pool, gone) ==
  LET rest[k \in 0..Len(pool)] ==
        IF k = 0 THEN << >>
        ELSE IF pool[k] \in gone THEN rest[k-1] ELSE Append(rest[k-1], pool[k])
  IN  rest[Len(pool)]

InBlock(pool, block) ==
  {pool[k] : k \in {j \in DOMAIN pool : transaction_exists_in_block(block, pool[j])}}

InChain(pool, chain) ==
  {pool[k] : k \in {j \in DOMAIN pool : transaction_exists_in_chain(chain, pool[j])}}
=============================================================================
