---------------------------- MODULE PowNetwork ----------------------------
(***************************************************************************)
(* consensus/pow/p2p.py: peers that gossip transactions and blocks, mine,  *)
(* and ask each other for their chains.                                    *)
(*                                                                         *)
(* Every peer is one asyncio event loop.  A coroutine runs until an await  *)
(* that really waits; the ones that do are the reading of a websocket, the *)
(* miner's sleep, the proof of work (in a thread, holding the lock of      *)
(* mem_pool_condition) and that lock itself.  A step below is the code     *)
(* between two such points, so a handler that needs the lock while it is   *)
(* taken is two steps: what it does before, with the rest parked in        *)
(* waiting, and Resume.                                                    *)
(*                                                                         *)
(* Message ids: a new_tx or new_block packet keeps its id when it is sent  *)
(* on, so the transaction's id and the block's hash stand for it.  A       *)
(* chain_request or chain packet is sent once and never repeated.          *)
(***************************************************************************)
EXTENDS PowLedger, FiniteSets

CONSTANTS Node,       \* the running peers, named by their public keys
          Founder,    \* the one started without a bootstrap host
          Miner,      \* the ones started with miner=True
          Conn,       \* websockets, <<client, server>>
          Amount,     \* what a user may ask to send
          MaxTxs,     \* bound: transactions the users create
          MaxBlocks,  \* bound: blocks mined after the genesis block
          MaxDrops    \* bound: connections lost (not counting failed handlers)

ASSUME NetworkAssumption ==
  /\ Node \subseteq Account
  /\ Founder \in Node
  /\ Miner \subseteq Node
  /\ Conn \subseteq {c \in Node \X Node : c[1] # c[2]}
  /\ Amount \subseteq Nat \ {0}
  /\ MaxTxs \in Nat /\ MaxBlocks \in Nat /\ MaxDrops \in Nat

VARIABLES
  chain,      \* Chain.instance.chain, << >> while there is no instance
  mem_pool,
  seen,       \* seen_message_ids
  mine_task,  \* the task the peer would cancel: named after the block whose
              \* arrival created it, 0 for the one created by start()
  live,       \* mine_blocks tasks that have not been cancelled
  mining,     \* None, or the task that holds the lock and its candidate block
  waiting,    \* what waits for the lock of mem_pool_condition, first come first
  inbox,      \* inbox[c][n]: sent over c to n and not yet read
  up,         \* connections that are open
  minted,     \* history: every block that was mined and appended, in order
  created,    \* history: how many transactions were created
  drops       \* history: how many connections were lost

vars == <<chain, mem_pool, seen, mine_task, live, mining, waiting, inbox, up,
          minted, created, drops>>

-----------------------------------------------------------------------------
Ends(c) == {c[1], c[2]}
Other(c, n) == IF c[1] = n THEN c[2] ELSE c[1]

Msg == [type : {"new_tx"}, transaction : Tx]
  \cup [type : {"new_block"}, block : Block]
  \cup [type : {"chain_request"}]
  \cup [type : {"chain"}, chain : Seq(Block)]

MsgId(msg) == IF msg.type = "new_tx" THEN <<"new_tx", msg.transaction.id>>
                                     ELSE <<"new_block", msg.block.hash>>

MarkSeen_Not(n, msg) == seen   \* mutant: nothing is remembered

\* A message that was handled, or sent for the first time.
MarkSeen(n, msg) == [seen EXCEPT ![n] = @ \cup {MsgId(msg)}]

\* A coroutine that waits for the lock: what it is, the connection whose
\* messages it is handling, and what it still needs of the message.
Waiter == [kind : {"new_tx"}, conn : Conn, data : Tx]
     \cup [kind : {"new_block"}, conn : Conn, data : Block]
     \cup [kind : {"chain"}, conn : Conn, data : {None}]
     \cup [kind : {"own_tx"}, conn : {None}, data : Tx]
     \cup [kind : {"mine"}, conn : {None}, data : Nat]

Candidate == [task : Nat, prevHash : Nat, transactions : Seq(Tx)]

Init ==
  /\ chain = [n \in Node |-> IF n = Founder THEN <<genesis_block(n)>> ELSE << >>]
  /\ mem_pool = [n \in Node |-> << >>]
  /\ seen = [n \in Node |-> {}]
  /\ mine_task = [n \in Node |-> IF n \in Miner THEN 0 ELSE None]
  /\ live = [n \in Node |-> IF n \in Miner THEN {0} ELSE {}]
  /\ mining = [n \in Node |-> None]
  /\ waiting = [n \in Node |-> << >>]
  /\ inbox = [c \in Conn |-> [n \in Node |-> << >>]]
  /\ up = Conn
  /\ minted = <<genesis_block(Founder)>>
  /\ created = 0
  /\ drops = 0

-----------------------------------------------------------------------------
(***************************************************************************)
(* Sending, and the lock.                                                  *)
(***************************************************************************)

\* broadcast_message: to both ends' sockets, the one it came over included.  A
\* copy that its receiver would drop as already seen is not queued.
broadcast_message(n, msg, boxes) ==
  [c \in Conn |->
     IF c \in up /\ n \in Ends(c) /\ MsgId(msg) \notin seen[Other(c, n)]
     THEN [boxes[c] EXCEPT ![Other(c, n)] = Append(@, msg)]
     ELSE boxes[c]]

LockIsFree_NoHolder(n) == waiting[n] = << >>   \* mutant: the miner's hold is ignored

\* asyncio.Lock.acquire returns at once only if nobody holds it or waits for it.
LockIsFree(n) == mining[n] = None /\ waiting[n] = << >>

Park(n, kind, c, data) ==
  waiting' = [waiting EXCEPT ![n] = Append(@, [kind |-> kind, conn |-> c, data |-> data])]

Waits(n, c) == \E k \in DOMAIN waiting[n] : waiting[n][k].conn = c

UserWaits(n) == \E k \in DOMAIN waiting[n] : waiting[n][k].kind = "own_tx"

TaskWaits(n, t) ==
  \E k \in DOMAIN waiting[n] : waiting[n][k].kind = "mine" /\ waiting[n][k].data = t

\* n's coroutine for connection c reads a message only after it has finished
\* with the one before.
Reads(c, n, type) ==
  /\ n \in Ends(c)
  /\ inbox[c][n] # << >>
  /\ Head(inbox[c][n]).type = type
  /\ ~ Waits(n, c)

Read(c, n) == [inbox EXCEPT ![c][n] = Tail(@)]

\* An exception leaves handle_connections (or connect_to_peer) through finally:
\* the socket is closed and what n has not read is gone.
HandlerFails(c, n) ==
  /\ inbox' = [inbox EXCEPT ![c][n] = << >>]
  /\ up' = up \ {c}

-----------------------------------------------------------------------------
(***************************************************************************)
(* The sections of code under "async with self.mem_pool_condition", each   *)
(* with what follows it up to the end of its coroutine's step.             *)
(***************************************************************************)

\* new_tx and create_and_broadcast_tx: into the pool, and on to the others.
AddTransaction(n, tx, boxes) ==
  /\ mem_pool' = [mem_pool EXCEPT ![n] = Append(@, tx)]
  /\ inbox' = broadcast_message(n, [type |-> "new_tx", transaction |-> tx], boxes)

\* new_block: the block's transactions leave the pool, a new mining task joins
\* those still alive, and the block goes on to the others.
FinishNewBlock(n, block, alive, boxes) ==
  /\ mem_pool' = [mem_pool EXCEPT ![n] = Sweep(@, InBlock(@, block)).kept]
  /\ IF n \in Miner
     THEN /\ mine_task' = [mine_task EXCEPT ![n] = block.hash]
          /\ live' = [live EXCEPT ![n] = alive \cup {block.hash}]
     ELSE UNCHANGED <<mine_task, live>>
  /\ inbox' = broadcast_message(n, [type |-> "new_block", block |-> block], boxes)

\* chain: what the chain holds leaves the pool.
PurgeConfirmed(n) ==
  mem_pool' = [mem_pool EXCEPT ![n] = Sweep(@, InChain(@, chain'[n])).kept]

\* Blocks that exist, and candidates that may still become one.
Allotted == Len(minted) - 1 + Cardinality({n \in Node : mining[n] # None})

\* mine_blocks after its sleep: what the chain holds leaves the pool, and the
\* rest becomes a candidate whose proof of work is looked for under the lock.
\* Bound: with MaxBlocks allotted the round ends as if nothing was left.
MiningRound(n, task) ==
  LET swept == Sweep(mem_pool[n], InChain(mem_pool[n], chain[n])) IN
  /\ mem_pool' = [mem_pool EXCEPT ![n] = swept.kept]
  /\ mining' = [mining EXCEPT ![n] =
                  IF swept.taken # << >> /\ Allotted < MaxBlocks
                  THEN [task |-> task, prevHash |-> lastBlock(chain[n]).hash,
                        transactions |-> swept.taken]
                  ELSE None]

-----------------------------------------------------------------------------
(***************************************************************************)
(* Transactions.                                                           *)
(***************************************************************************)

\* The menu's choice 1 asks for an amount and tests it against the balance; it
\* waits while its last transaction waits.
user_input_handler(n, amt) ==
  /\ chain[n] # << >>
  /\ ~ UserWaits(n)
  /\ amt <= calc_balance(chain[n], n, mem_pool[n])

\* The user sends amt to rec: the transaction goes into the pool at once or when
\* the lock comes round to it.
create_and_broadcast_tx(n, rec, amt) ==
  LET tx == [id |-> created + 1, sender |-> n, receiver |-> rec, amount |-> amt] IN
  /\ created < MaxTxs
  /\ user_input_handler(n, amt)
  /\ created' = created + 1
  /\ seen' = MarkSeen(n, [type |-> "new_tx", transaction |-> tx])
  /\ \/ /\ LockIsFree(n)
        /\ AddTransaction(n, tx, inbox)
        /\ UNCHANGED waiting
     \/ /\ ~ LockIsFree(n)
        /\ Park(n, "own_tx", None, tx)
        /\ UNCHANGED <<mem_pool, inbox>>
  /\ UNCHANGED <<chain, mine_task, live, mining, up, minted, drops>>

\* The tests of the new_tx handler, made before it asks for the lock.
AcceptsTx(n, tx) ==
  /\ ~ transaction_exists_in_chain(chain[n], tx)
  /\ tx.amount <= calc_balance(chain[n], tx.sender, mem_pool[n])
  /\ tx.amount > 0

HandleNewTx(c, n) ==
  /\ Reads(c, n, "new_tx")
  /\ LET msg == Head(inbox[c][n])
         tx == msg.transaction
         isNew == MsgId(msg) \notin seen[n]
     IN
     /\ seen' = MarkSeen(n, msg)
     /\ \/ /\ ~ isNew \/ (chain[n] # << >> /\ ~ AcceptsTx(n, tx))
           /\ inbox' = Read(c, n)
           /\ UNCHANGED <<mem_pool, waiting, up>>
        \/ /\ isNew /\ chain[n] = << >>
           /\ HandlerFails(c, n)
           /\ UNCHANGED <<mem_pool, waiting>>
        \/ /\ isNew /\ chain[n] # << >> /\ AcceptsTx(n, tx) /\ LockIsFree(n)
           /\ AddTransaction(n, tx, Read(c, n))
           /\ UNCHANGED <<waiting, up>>
        \/ /\ isNew /\ chain[n] # << >> /\ AcceptsTx(n, tx) /\ ~ LockIsFree(n)
           /\ Park(n, "new_tx", c, tx)
           /\ inbox' = Read(c, n)
           /\ UNCHANGED <<mem_pool, up>>
  /\ UNCHANGED <<chain, mine_task, live, mining, minted, created, drops>>

-----------------------------------------------------------------------------
(***************************************************************************)
(* Blocks.                                                                 *)
(***************************************************************************)

\* A valid block is appended at once; the peer's mining task, if it has one that
\* is not done, is cancelled; the pool waits for the lock.
HandleNewBlock(c, n) ==
  /\ Reads(c, n, "new_block")
  /\ LET msg == Head(inbox[c][n])
         newBlock == msg.block
         isNew == MsgId(msg) \notin seen[n]
     IN
     /\ seen' = MarkSeen(n, msg)
     /\ \/ /\ ~ isNew \/ (chain[n] # << >> /\ ~ isValidBlock(chain[n], newBlock))
           /\ inbox' = Read(c, n)
           /\ UNCHANGED <<chain, mem_pool, mine_task, live, waiting, up>>
        \/ /\ isNew /\ chain[n] = << >>
           /\ HandlerFails(c, n)
           /\ UNCHANGED <<chain, mem_pool, mine_task, live, waiting>>
        \/ /\ isNew /\ chain[n] # << >> /\ isValidBlock(chain[n], newBlock)
           /\ chain' = [chain EXCEPT ![n] = Append(@, newBlock)]
           /\ \/ /\ LockIsFree(n)
                 /\ FinishNewBlock(n, newBlock, live[n] \ {mine_task[n]}, Read(c, n))
                 /\ UNCHANGED waiting
              \/ /\ ~ LockIsFree(n)
                 /\ live' = [live EXCEPT ![n] = @ \ {mine_task[n]}]
                 /\ Park(n, "new_block", c, newBlock)
                 /\ inbox' = Read(c, n)
                 /\ UNCHANGED <<mem_pool, mine_task>>
           /\ UNCHANGED up
  /\ UNCHANGED <<mining, minted, created, drops>>

\* A mining task's sleep is over: it takes the lock or gets in line for it.
MinerWakes(n, task) ==
  /\ task \in live[n]
  /\ ~ TaskWaits(n, task)
  /\ mining[n] # None => mining[n].task # task
  /\ \/ /\ LockIsFree(n)
        /\ MiningRound(n, task)
        /\ UNCHANGED waiting
     \/ /\ ~ LockIsFree(n)
        /\ Park(n, "mine", None, task)
        /\ UNCHANGED <<mem_pool, mining>>
  /\ UNCHANGED <<chain, seen, mine_task, live, inbox, up, minted, created, drops>>

\* The proof of work is found.  The block is appended only if it still extends
\* the chain; either way the lock is released and the task goes back to sleep.
MiningEnds(n) ==
  /\ mining[n] # None
  /\ mining[n].task \in live[n]
  /\ LET newBlock == [hash |-> Len(minted), prevHash |-> mining[n].prevHash,
                      transactions |-> mining[n].transactions, miner |-> n]
         msg == [type |-> "new_block", block |-> newBlock]
     IN
     \/ /\ isValidBlock(chain[n], newBlock)
        /\ chain' = [chain EXCEPT ![n] = Append(@, newBlock)]
        /\ minted' = Append(minted, newBlock)
        /\ mem_pool' = [mem_pool EXCEPT ![n] = Sweep(@, InBlock(@, newBlock)).kept]
        /\ seen' = MarkSeen(n, msg)
        /\ inbox' = broadcast_message(n, msg, inbox)
     \/ /\ ~ isValidBlock(chain[n], newBlock)
        /\ UNCHANGED <<chain, minted, mem_pool, seen, inbox>>
  /\ mining' = [mining EXCEPT ![n] = None]
  /\ UNCHANGED <<mine_task, live, waiting, up, created, drops>>

\* The cancelled task is resumed at its await and leaves the lock.
MiningCancelled(n) ==
  /\ mining[n] # None
  /\ mining[n].task \notin live[n]
  /\ mining' = [mining EXCEPT ![n] = None]
  /\ UNCHANGED <<chain, mem_pool, seen, mine_task, live, waiting, inbox, up, minted,
                 created, drops>>

-----------------------------------------------------------------------------
\* The coroutine first in line gets the lock and runs on.
Resume(n) ==
  /\ mining[n] = None
  /\ waiting[n] # << >>
  /\ waiting' = [waiting EXCEPT ![n] = Tail(@)]
  /\ LET w == Head(waiting[n]) IN
     \/ /\ w.kind \in {"new_tx", "own_tx"}
        /\ AddTransaction(n, w.data, inbox)
        /\ UNCHANGED <<mine_task, live, mining>>
     \/ /\ w.kind = "new_block"
        /\ FinishNewBlock(n, w.data, live[n], inbox)
        /\ UNCHANGED mining
     \/ /\ w.kind = "chain"
        /\ mem_pool' = [mem_pool EXCEPT ![n] = Sweep(@, InChain(@, chain[n])).kept]
        /\ UNCHANGED <<mine_task, live, mining, inbox>>
     \/ /\ w.kind = "mine" /\ w.data \in live[n]
        /\ MiningRound(n, w.data)
        /\ UNCHANGED <<mine_task, live, inbox>>
     \/ /\ w.kind = "mine" /\ w.data \notin live[n]
        /\ UNCHANGED <<mem_pool, mine_task, live, mining, inbox>>
  /\ UNCHANGED <<chain, seen, up, minted, created, drops>>

-----------------------------------------------------------------------------
(***************************************************************************)
(* Chains on request.                                                      *)
(***************************************************************************)

\* A request of n's over c that has not been answered yet.
Asked(c, n) ==
  \/ \E k \in DOMAIN inbox[c][Other(c, n)] :
       inbox[c][Other(c, n)][k].type = "chain_request"
  \/ \E k \in DOMAIN inbox[c][n] : inbox[c][n][k].type = "chain"

\* Every minute n asks all it is connected to for their chains.  Bound: not
\* over a connection on which it still waits for an answer.
find_longest_chain(n) ==
  LET asks == {c \in up : n \in Ends(c) /\ ~ Asked(c, n)} IN
  /\ asks # {}
  /\ inbox' = [c \in Conn |->
       IF c \in asks
       THEN [inbox[c] EXCEPT ![Other(c, n)] = Append(@, [type |-> "chain_request"])]
       ELSE inbox[c]]
  /\ UNCHANGED <<chain, mem_pool, seen, mine_task, live, mining, waiting, up, minted,
                 created, drops>>

HandleChainRequest(c, n) ==
  /\ Reads(c, n, "chain_request")
  /\ inbox' = IF chain[n] # << >> /\ c \in up
              THEN [Read(c, n) EXCEPT ![c][Other(c, n)] =
                      Append(@, [type |-> "chain",
                                 chain |-> to_block_dict_list(chain[n])])]
              ELSE Read(c, n)
  /\ UNCHANGED <<chain, mem_pool, seen, mine_task, live, mining, waiting, up, minted,
                 created, drops>>

\* A first chain is taken whole; after that only a longer one replaces what n
\* has, and the pool waits for the lock.  Mining goes on undisturbed.
HandleChain(c, n) ==
  /\ Reads(c, n, "chain")
  /\ inbox' = Read(c, n)
  /\ LET block_list == Head(inbox[c][n]).chain IN
     \/ /\ ~ isvalidChain(block_list)
        /\ UNCHANGED <<chain, mem_pool, waiting>>
     \/ /\ isvalidChain(block_list) /\ chain[n] = << >>
        /\ chain' = [chain EXCEPT ![n] = block_list]
        /\ UNCHANGED <<mem_pool, waiting>>
     \/ /\ isvalidChain(block_list) /\ chain[n] # << >>
        /\ chain' = [chain EXCEPT ![n] = rewrite(@, block_list)]
        /\ \/ /\ LockIsFree(n)
              /\ PurgeConfirmed(n)
              /\ UNCHANGED waiting
           \/ /\ ~ LockIsFree(n)
              /\ Park(n, "chain", c, None)
              /\ UNCHANGED mem_pool
  /\ UNCHANGED <<seen, mine_task, live, mining, up, minted, created, drops>>

-----------------------------------------------------------------------------
(***************************************************************************)
(* Connections.                                                            *)
(***************************************************************************)

\* The sampler drops a connection, or the network does: what is under way to
\* one end or to both is lost.
Disconnect(c) ==
  /\ c \in up
  /\ drops < MaxDrops
  /\ drops' = drops + 1
  /\ up' = up \ {c}
  /\ \E lost \in (SUBSET Ends(c)) \ {{}} :
       inbox' = [inbox EXCEPT ![c] =
                   [n \in Node |-> IF n \in lost THEN << >> ELSE @[n]]]
  /\ UNCHANGED <<chain, mem_pool, seen, mine_task, live, mining, waiting, minted, created>>

\* discover_peers connects again to a known peer it has no connection to.
connect_to_peer(c) ==
  /\ c \notin up
  /\ \A n \in Ends(c) : inbox[c][n] = << >> /\ ~ Waits(n, c)
  /\ up' = up \cup {c}
  /\ UNCHANGED <<chain, mem_pool, seen, mine_task, live, mining, waiting, inbox, minted,
                 created, drops>>

-----------------------------------------------------------------------------
HandleMessage(c, n) ==
  \/ HandleNewTx(c, n)
  \/ HandleNewBlock(c, n)
  \/ HandleChainRequest(c, n)
  \/ HandleChain(c, n)

Next ==
  \/ \E n \in Node :
       \/ \E rec \in Account \ {n}, amt \in Amount : create_and_broadcast_tx(n, rec, amt)
       \/ \E task \in live[n] : MinerWakes(n, task)
       \/ MiningEnds(n)
       \/ MiningCancelled(n)
       \/ Resume(n)
       \/ find_longest_chain(n)
  \/ \E c \in Conn :
       \/ \E n \in Ends(c) : HandleMessage(c, n)
       \/ Disconnect(c)
       \/ connect_to_peer(c)

Spec == Init /\ [][Next]_vars

(***************************************************************************)
(* The event loop runs every coroutine that can run: a message that can be *)
(* read is read, a timer that is due fires, the lock goes to the first in  *)
(* line, a proof of work is found.  Nothing makes the user act, and        *)
(* nothing makes a connection fail.                                        *)
(***************************************************************************)
Fairness ==
  /\ \A n \in Node :
       /\ WF_vars(MiningEnds(n))
       /\ WF_vars(MiningCancelled(n))
       /\ WF_vars(Resume(n))
       /\ WF_vars(find_longest_chain(n))
       /\ \A task \in 0..MaxBlocks : WF_vars(MinerWakes(n, task))
  /\ \A c \in Conn :
       /\ WF_vars(connect_to_peer(c))
       /\ \A n \in Ends(c) : WF_vars(HandleMessage(c, n))

FairSpec == Spec /\ Fairness

-----------------------------------------------------------------------------
(***************************************************************************)
(* Properties.                                                             *)
(***************************************************************************)

(***************************************************************************)
(* Every variable of the peers holds what the code puts there.             *)
(***************************************************************************)
TypeOK ==
  /\ chain \in [Node -> Seq(Block)]
  /\ mem_pool \in [Node -> Seq(Tx)]
  /\ seen \in [Node -> SUBSET ({"new_tx", "new_block"} \X Nat)]
  /\ mine_task \in [Node -> Nat \cup {None}]
  /\ live \in [Node -> SUBSET Nat]
  /\ mining \in [Node -> Candidate \cup {None}]
  /\ waiting \in [Node -> Seq(Waiter)]
  /\ inbox \in [Conn -> [Node -> Seq(Msg)]]
  /\ up \in SUBSET Conn
  /\ minted \in Seq(Block)
  /\ created \in Nat
  /\ drops \in Nat

(***************************************************************************)
(* What the peers hold and exchange, seen as ChainReplica sees it.         *)
(***************************************************************************)
Header(block) == [hash |-> block.hash, prevHash |-> block.prevHash]

headers == [n \in Node |-> [i \in DOMAIN chain[n] |-> Header(chain[n][i])]]

Replica == INSTANCE ChainReplica WITH
             Joined <- {Founder},
             Hash <- Nat,
             chain <- headers,
             minted <- {Header(minted[i]) : i \in DOMAIN minted}

(***************************************************************************)
(* The peers implement ChainReplica: whatever is in flight, parked or      *)
(* being mined, a chain changes only by a new block on top, by a block     *)
(* made elsewhere on top, or by a longer linked chain in its place.        *)
(***************************************************************************)
ReplicaSpec == Replica!Spec

(***************************************************************************)
(* No transaction is in a chain twice, although pools are swept by a loop  *)
(* that skips, blocks are mined from pools that still hold mined           *)
(* transactions, and isvalidChain's own test for duplicates never fires.   *)
(***************************************************************************)
NoDuplicateTx ==
  \A n \in Node : \A i, j \in DOMAIN chain[n] :
    \A k \in DOMAIN chain[n][i].transactions, l \in DOMAIN chain[n][j].transactions :
      chain[n][i].transactions[k].id = chain[n][j].transactions[l].id
        => i = j /\ k = l

(***************************************************************************)
(* seen_message_ids keeps a transaction that comes back from the network   *)
(* out of the pool: none is there twice, nor there and in line for it.     *)
(***************************************************************************)
PoolHasNoCopies ==
  \A n \in Node :
    LET parked == {k \in DOMAIN waiting[n] : waiting[n][k].kind \in {"new_tx", "own_tx"}}
    IN  /\ \A i, j \in DOMAIN mem_pool[n] :
             mem_pool[n][i].id = mem_pool[n][j].id => i = j
        /\ \A k, l \in parked :
             waiting[n][k].data.id = waiting[n][l].data.id => k = l
        /\ \A k \in parked, i \in DOMAIN mem_pool[n] :
             waiting[n][k].data.id # mem_pool[n][i].id

(***************************************************************************)
(* While the proof of work is looked for, nothing takes a transaction of   *)
(* the candidate out of the pool: that is what the lock is held for.       *)
(***************************************************************************)
CandidateFromPool ==
  \A n \in Node : mining[n] # None =>
    \A k \in DOMAIN mining[n].transactions :
      \E i \in DOMAIN mem_pool[n] : mem_pool[n][i] = mining[n].transactions[k]

(***************************************************************************)
(* As long as every block of a chain is confirmed (four blocks, genesis    *)
(* included), no account has spent more than it had.                       *)
(***************************************************************************)
SolventWhileConfirmed ==
  \A n \in Node : valid_chain_length(Len(chain[n])) = Len(chain[n]) =>
    \A pk \in Account : calc_balance(chain[n], pk, << >>) >= 0

(***************************************************************************)
(* Chains on request make every peer catch up with the longest chain there *)
(* has been, also one that lost its connection or had no chain when a      *)
(* block reached it.                                                       *)
(***************************************************************************)
CatchUp ==
  \A len \in 1..(MaxBlocks + 1) :
    (\E n \in Node : Len(chain[n]) >= len) ~> (\A n \in Node : Len(chain[n]) >= len)

(***************************************************************************)
(* With one miner, and as long as no connection is lost, every transaction *)
(* a user creates ends up in every peer's chain: past a lock held by the   *)
(* miner, pools swept by a loop that skips, and peers without a chain yet. *)
(***************************************************************************)
Settled ==
  \A id \in 1..MaxTxs :
    created >= id ~>
      \/ drops > 0
      \/ \A n \in Node : \E i \in DOMAIN chain[n] :
           \E k \in DOMAIN chain[n][i].transactions : chain[n][i].transactions[k].id = id
=============================================================================
