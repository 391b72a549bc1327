------------------------------ MODULE Records ------------------------------
(***************************************************************************)
(* What consensus/pow keeps beside coins: contracts that are deployed and  *)
(* invoked by transactions, and ids of files in IPFS that blocks record.   *)
(*                                                                         *)
(* The peers, their messages and their locks are PowNetwork's: each step   *)
(* here is a step of PowNetwork with what the same code does to            *)
(* contractsDB and file_hashes, or a new refusal before it.  A transaction *)
(* to the receiver "deploy" or "invoke" carries a payload besides its      *)
(* amount, and a block a dictionary of files; neither changes once made,   *)
(* so they are kept once, by transaction id and by block hash.             *)
(*                                                                         *)
(* A contract is known by the id of the transaction that deploys it (the   *)
(* code hashes its sender and time).  It is one function that counts its   *)
(* invocations: a state is the number it returned last.  It runs on the    *)
(* event loop (SecureContractExecutor.run polls with time.sleep), so it is *)
(* part of the step; on a Slow peer it may take more than TIMEOUT.         *)
(***************************************************************************)
EXTENDS PowNetwork, FiniteSetsExt

CONSTANTS Deploy, Invoke,           \* the receivers "deploy" and "invoke"
          DeployCost, InvokeCost,   \* gas times GAS_PRICE of the contract here
          Cid,                      \* files the users may send
          Slow,                     \* peers on which an execution may time out
          MaxDeploys,               \* bound: contracts the users deploy
          MaxUploads                \* bound: files the users upload, missing ones included

ASSUME RecordsAssumption ==
  /\ {Deploy, Invoke} \cap (Account \cup {Genesis, None}) = {}
  /\ Deploy # Invoke
  /\ DeployCost \in Nat \ {0} /\ InvokeCost \in Nat \ {0}
  /\ Slow \subseteq Node
  /\ MaxDeploys \in Nat /\ MaxUploads \in Nat

VARIABLES
  contractsDB,   \* contractsDB[n]: contracts n can run
  file_hashes,   \* files n has heard of that no block it knows records
  seen_files,    \* the "file" packets among seen_message_ids
  copied,        \* newBlock.files of the candidate n is mining
  payload,       \* payload[id]: the contract an invocation is of, and its state
  files,         \* files[hash]: what the block records
  missing,       \* history: uploads of files that did not exist
  overtaken      \* history: files n heard of when its chain recorded them already, or
                 \* before its first chain, which did

peerRecords == <<contractsDB, file_hashes, seen_files, copied>>
records == <<peerRecords, payload, files, missing, overtaken>>
allVars == <<vars, records>>

RecordsInit ==
  /\ Init
  /\ contractsDB = [n \in Node |-> {}]
  /\ file_hashes = [n \in Node |-> {}]
  /\ seen_files = [n \in Node |-> {}]
  /\ copied = [n \in Node |-> {}]
  /\ payload = << >>
  /\ files = [hash \in 0..MaxBlocks |-> {}]
  /\ missing = 0
  /\ overtaken = [n \in Node |-> {}]

-----------------------------------------------------------------------------
(***************************************************************************)
(* Contracts and files.                                                    *)
(***************************************************************************)
Invocations(block, contract) ==
  {k \in DOMAIN block.transactions :
     /\ block.transactions[k].receiver = Invoke
     /\ payload[block.transactions[k].id].contract = contract}

\* The state that the last invocation in the chain left; {} counts as 0.
get_contract_state(c, contract) ==
  LET invoked == {i \in DOMAIN c : Invocations(c[i], contract) # {}} IN
  IF invoked = {} THEN 0
  ELSE LET block == c[Max(invoked)]
       IN  payload[block.transactions[Max(Invocations(block, contract))].id].state

run_contract(n, contract) == get_contract_state(chain[n], contract) + 1

KnownContract_Pending(n, contract) ==   \* mutant: or about to be deployed
  \/ contract \in contractsDB[n]
  \/ \E k \in DOMAIN mem_pool[n] : mem_pool[n][k].id = contract

\* Without it get_contract returns None and run_contract raises.
KnownContract(n, contract) == contract \in contractsDB[n]

\* Run again on n's chain, the invocation leads to the state it claims.  (What
\* deploy transactions claim is their price, which is always right here.)
valid_invoke_transaction(n, tx) == payload[tx.id].state = run_contract(n, payload[tx.id].contract)

deploy_contract(n, transactions) ==
  [contractsDB EXCEPT ![n] = @ \cup {transactions[k].id :
     k \in {j \in DOMAIN transactions : transactions[j].receiver = Deploy}}]

pop_files_All(n, cids) == [file_hashes EXCEPT ![n] = {}]   \* mutant: the dictionary is cleared

pop_files_None(n, cids) == file_hashes   \* mutant: nothing is popped

pop_files(n, cids) == [file_hashes EXCEPT ![n] = @ \ cids]

\* cid_exists_in_chain
InChainFiles(c) == UNION {files[c[i].hash] : i \in DOMAIN c}

-----------------------------------------------------------------------------
(***************************************************************************)
(* The menu: choice 1 with "deploy" or "invoke", and choice 5.             *)
(***************************************************************************)
deploy(n) ==
  /\ Cardinality({id \in DOMAIN payload : payload[id].contract = None}) < MaxDeploys
  /\ create_and_broadcast_tx(n, Deploy, DeployCost)
  /\ payload' = Append(payload, [contract |-> None, state |-> 0])
  /\ UNCHANGED <<peerRecords, files, missing, overtaken>>

\* Only a contract in the peer's own database, run on the peer's own chain.
invoke(n, contract) ==
  /\ KnownContract(n, contract)
  /\ create_and_broadcast_tx(n, Invoke, InvokeCost)
  /\ payload' = Append(payload, [contract |-> contract, state |-> run_contract(n, contract)])
  /\ UNCHANGED <<peerRecords, files, missing, overtaken>>

broadcast_file(n, cid, boxes) ==
  [c \in Conn |->
     IF c \in up /\ n \in Ends(c) /\ cid \notin seen_files[Other(c, n)]
     THEN [boxes[c] EXCEPT ![Other(c, n)] = Append(@, [type |-> "file", cid |-> cid])]
     ELSE boxes[c]]

Uploads == missing + Cardinality(UNION {seen_files[m] : m \in Node})

\* Into the dictionary, whatever the chain records.
TakeUp(n, cid) ==
  /\ seen_files' = [seen_files EXCEPT ![n] = @ \cup {cid}]
  /\ file_hashes' = [file_hashes EXCEPT ![n] = @ \cup {cid}]
  /\ overtaken' = [overtaken EXCEPT ![n] = @ \cup ({cid} \cap InChainFiles(chain[n]))]

\* Bound: every file is uploaded once.
uploadFile(n, cid) ==
  /\ ~ UserWaits(n) /\ Uploads < MaxUploads
  /\ \A m \in Node : cid \notin seen_files[m]
  /\ TakeUp(n, cid)
  /\ inbox' = broadcast_file(n, cid, inbox)
  /\ UNCHANGED <<chain, mem_pool, seen, mine_task, live, mining, waiting, up, minted, created,
                 drops, contractsDB, copied, payload, files, missing>>

\* A path that is not a file: uploadFile returns None, and the menu broadcasts it.
upload_missing(n) ==
  /\ ~ UserWaits(n) /\ Uploads < MaxUploads
  /\ missing' = missing + 1
  /\ inbox' = [c \in Conn |->
       IF c \in up /\ n \in Ends(c)
       THEN [inbox[c] EXCEPT ![Other(c, n)] = Append(@, [type |-> "null"])]
       ELSE inbox[c]]
  /\ UNCHANGED <<chain, mem_pool, seen, mine_task, live, mining, waiting, up, minted, created,
                 drops, peerRecords, payload, files, overtaken>>

-----------------------------------------------------------------------------
(***************************************************************************)
(* Messages.                                                               *)
(***************************************************************************)
HandleFile(c, n) ==
  /\ Reads(c, n, "file")
  /\ LET cid == Head(inbox[c][n]).cid IN
     \/ /\ cid \in seen_files[n]
        /\ inbox' = Read(c, n)
        /\ UNCHANGED <<seen_files, file_hashes, overtaken>>
     \/ /\ cid \notin seen_files[n]
        /\ TakeUp(n, cid)
        /\ inbox' = broadcast_file(n, cid, Read(c, n))
  /\ UNCHANGED <<chain, mem_pool, seen, mine_task, live, mining, waiting, up, minted, created,
                 drops, contractsDB, copied, payload, files, missing>>

\* msg["type"] of None raises.
HandleNull(c, n) ==
  /\ Reads(c, n, "null")
  /\ HandlerFails(c, n)
  /\ UNCHANGED <<chain, mem_pool, seen, mine_task, live, mining, waiting, minted, created, drops,
                 records>>

\* What becomes of the first invocation that does not pass: it raises, or the
\* message is left there.
Refuse(c, n, msg, tx) ==
  /\ seen' = MarkSeen(n, msg)
  /\ \/ /\ ~ KnownContract(n, payload[tx.id].contract)
        /\ HandlerFails(c, n)
     \/ /\ KnownContract(n, payload[tx.id].contract)
        /\ ~ valid_invoke_transaction(n, tx) \/ n \in Slow
        /\ inbox' = Read(c, n)
        /\ UNCHANGED up
  /\ UNCHANGED <<chain, mem_pool, mine_task, live, mining, waiting, minted, created, drops, records>>

Passes(n, tx) ==
  tx.receiver = Invoke =>
    /\ KnownContract(n, payload[tx.id].contract)
    /\ valid_invoke_transaction(n, tx)

\* The contract is run only for a transaction that is new to the chain.
HandleTransaction(c, n) ==
  /\ Reads(c, n, "new_tx")
  /\ LET msg == Head(inbox[c][n])
         tx == msg.transaction
         runs == /\ tx.receiver = Invoke
                 /\ MsgId(msg) \notin seen[n]
                 /\ chain[n] # << >>
                 /\ ~ transaction_exists_in_chain(chain[n], tx)
     IN
     \/ runs /\ Refuse(c, n, msg, tx)
     \/ /\ runs => Passes(n, tx)
        /\ HandleNewTx(c, n)
        /\ UNCHANGED records

\* The invocations in a valid block are run one by one on the chain without the
\* block; only if all pass is it appended and its contracts stored.  Files leave
\* the dictionary after the pool was seen to, under the lock or later.
HandleBlock(c, n) ==
  /\ Reads(c, n, "new_block")
  /\ LET msg == Head(inbox[c][n])
         txs == msg.block.transactions
         runs == MsgId(msg) \notin seen[n] /\ chain[n] # << >> /\ isValidBlock(chain[n], msg.block)
     IN
     \/ /\ runs
        /\ \E k \in DOMAIN txs :
             /\ \A j \in 1..(k - 1) : Passes(n, txs[j])
             /\ txs[k].receiver = Invoke
             /\ Refuse(c, n, msg, txs[k])
     \/ /\ runs => \A k \in DOMAIN txs : Passes(n, txs[k])
        /\ HandleNewBlock(c, n)
        /\ contractsDB' = IF runs THEN deploy_contract(n, txs) ELSE contractsDB
        /\ file_hashes' = IF runs /\ LockIsFree(n) THEN pop_files(n, files[msg.block.hash])
                                                   ELSE file_hashes
        /\ UNCHANGED <<seen_files, copied, payload, files, missing, overtaken>>

\* A chain's contracts are not stored and its invocations not run.  A first chain
\* leaves the files as they are.
HandleChainMessage(c, n) ==
  /\ HandleChain(c, n)
  /\ file_hashes' = IF chain[n] # << >> /\ isvalidChain(Head(inbox[c][n]).chain) /\ LockIsFree(n)
                    THEN pop_files(n, InChainFiles(chain'[n])) ELSE file_hashes
  /\ overtaken' = IF chain[n] # << >> THEN overtaken
                  ELSE [overtaken EXCEPT ![n] = @ \cup (file_hashes[n] \cap InChainFiles(chain'[n]))]
  /\ UNCHANGED <<contractsDB, seen_files, copied, payload, files, missing>>

-----------------------------------------------------------------------------
(***************************************************************************)
(* Mining.                                                                 *)
(***************************************************************************)

\* A round that finds a candidate copies the files into it.
CopyFiles(n) ==
  copied' = [copied EXCEPT ![n] =
               CASE mining'[n] = None -> {}
                 [] mining'[n] # None /\ mining[n] = None -> file_hashes[n]
                 [] OTHER -> @]

WakeMiner(n, task) ==
  /\ MinerWakes(n, task)
  /\ CopyFiles(n)
  /\ UNCHANGED <<contractsDB, file_hashes, seen_files, payload, files, missing, overtaken>>

\* The invocations of one's own block are not run again.
EndMining(n) ==
  /\ MiningEnds(n)
  /\ \/ /\ minted' # minted
        /\ files' = [files EXCEPT ![Len(minted)] = copied[n]]
        /\ contractsDB' = deploy_contract(n, mining[n].transactions)
        /\ file_hashes' = pop_files(n, copied[n])
     \/ /\ minted' = minted
        /\ UNCHANGED <<files, contractsDB, file_hashes>>
  /\ CopyFiles(n)
  /\ UNCHANGED <<seen_files, payload, missing, overtaken>>

CancelMining(n) ==
  /\ MiningCancelled(n)
  /\ CopyFiles(n)
  /\ UNCHANGED <<contractsDB, file_hashes, seen_files, payload, files, missing, overtaken>>

ResumeWaiter(n) ==
  /\ Resume(n)
  /\ LET w == Head(waiting[n]) IN
     file_hashes' = CASE w.kind = "new_block" -> pop_files(n, files[w.data.hash])
                      [] w.kind = "chain" -> pop_files(n, InChainFiles(chain[n]))
                      [] OTHER -> file_hashes
  /\ CopyFiles(n)
  /\ UNCHANGED <<contractsDB, seen_files, payload, files, missing, overtaken>>

-----------------------------------------------------------------------------
HandleAny(c, n) ==
  \/ HandleTransaction(c, n)
  \/ HandleBlock(c, n)
  \/ HandleChainMessage(c, n)
  \/ HandleChainRequest(c, n) /\ UNCHANGED records
  \/ HandleFile(c, n)
  \/ HandleNull(c, n)

RecordsNext ==
  \/ \E n \in Node :
       \/ deploy(n)
       \/ \E contract \in contractsDB[n] \cup 1..created : invoke(n, contract)
       \/ \E cid \in Cid : uploadFile(n, cid)
       \/ upload_missing(n)
       \/ \E task \in live[n] : WakeMiner(n, task)
       \/ EndMining(n)
       \/ CancelMining(n)
       \/ ResumeWaiter(n)
       \/ find_longest_chain(n) /\ UNCHANGED records
  \/ \E c \in Conn :
       \/ \E n \in Ends(c) : HandleAny(c, n)
       \/ (Disconnect(c) \/ connect_to_peer(c)) /\ UNCHANGED records

RecordsSpec == RecordsInit /\ [][RecordsNext]_allVars

\* As in PowNetwork: coroutines that can run do, users need not act.
RecordsFairness ==
  /\ \A n \in Node :
       /\ WF_allVars(EndMining(n))
       /\ WF_allVars(CancelMining(n))
       /\ WF_allVars(ResumeWaiter(n))
       /\ WF_allVars(find_longest_chain(n) /\ UNCHANGED records)
       /\ \A task \in 0..MaxBlocks : WF_allVars(WakeMiner(n, task))
  /\ \A c \in Conn :
       /\ WF_allVars(connect_to_peer(c) /\ UNCHANGED records)
       /\ \A n \in Ends(c) : WF_allVars(HandleAny(c, n))

RecordsFairSpec == RecordsSpec /\ RecordsFairness

-----------------------------------------------------------------------------
\* No two blocks were made on the same parent: no chain has had to give way.
Unforked == \A i, j \in DOMAIN minted : minted[i].prevHash = minted[j].prevHash => i = j

(***************************************************************************)
(* A file that has reached a miner is recorded in its chain or will be in  *)
(* its next block, also one that comes while the miner looks for a proof   *)
(* of work and one that a block has recorded meanwhile, whoever made that  *)
(* block.  (When a chain gives way to a longer one, so do its records.)    *)
(***************************************************************************)
FilesKept ==
  Unforked => \A n \in Miner : seen_files[n] \subseteq file_hashes[n] \cup InChainFiles(chain[n])

(***************************************************************************)
(* A peer that has done with every block and chain it was sent has let go  *)
(* of the files in its chain, so that its next candidate does not record   *)
(* them again: through forks, reorganisations, and blocks and chains that  *)
(* wait for the lock in any order.  What it does not let go of are files   *)
(* it took up late, or before its first chain: neither the file handler    *)
(* nor mine_blocks looks in the chain.                                     *)
(***************************************************************************)
FilesLetGo ==
  \A n \in Node :
    (\A k \in DOMAIN waiting[n] : waiting[n][k].kind \notin {"new_block", "chain"})
      => file_hashes[n] \cap InChainFiles(chain[n]) \subseteq overtaken[n]

(***************************************************************************)
(* No miner records a file in two blocks, though the dictionary goes on    *)
(* changing under a lock of its own while a candidate with a copy of it is *)
(* being worked on, and others' blocks, chains and files come meanwhile.   *)
(* (Two miners may: see FilesLetGo.)                                       *)
(***************************************************************************)
RecordedOnce ==
  \A i, j \in DOMAIN minted :
    minted[i].miner = minted[j].miner /\ files[minted[i].hash] \cap files[minted[j].hash] # {}
      => i = j

(***************************************************************************)
(* In every chain, a contract is invoked only after the block that deploys *)
(* it, though new_tx, new_block and chain all judge an invocation by the   *)
(* peer's own database and a chain brings its invocations unjudged.  (When *)
(* a chain gives way, the database keeps what the new one does not have.)  *)
(***************************************************************************)
DeployedFirst ==
  Unforked => \A n \in Node : \A i \in DOMAIN chain[n] : \A k \in DOMAIN chain[n][i].transactions :
    LET tx == chain[n][i].transactions[k] IN
    tx.receiver = Invoke =>
      \E j \in 1..(i - 1) : \E l \in DOMAIN chain[n][j].transactions :
        chain[n][j].transactions[l].id = payload[tx.id].contract

-----------------------------------------------------------------------------
(***************************************************************************)
(* "Users can also invoke the deployed contract using their deployed       *)
(* address": a peer that has a deployment in its chain can run it.  A peer *)
(* that got the deployment with a whole chain cannot.                      *)
(***************************************************************************)
Invocable ==
  \A n \in Node : \A i \in DOMAIN chain[n] : \A k \in DOMAIN chain[n][i].transactions :
    chain[n][i].transactions[k].receiver = Deploy
      => chain[n][i].transactions[k].id \in contractsDB[n]

(***************************************************************************)
(* What valid_invoke_transaction tests of an invocation, of those in the   *)
(* chain: each leads from the state before it to the state it claims.      *)
(***************************************************************************)
InvokesCurrent ==
  \A n \in Node : \A i \in DOMAIN chain[n] : \A contract \in 1..created :
    \A k \in Invocations(chain[n][i], contract) :
      LET earlier == [chain[n][i] EXCEPT !.transactions = SubSeq(@, 1, k - 1)]
      IN  payload[chain[n][i].transactions[k].id].state =
            get_contract_state(Append(SubSeq(chain[n], 1, i - 1), earlier), contract) + 1
=============================================================================
