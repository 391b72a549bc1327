---------------------------- MODULE PoaNetwork ----------------------------
(***************************************************************************)
(* consensus/poa/p2p.py: peers that take turns in making blocks.  The      *)
(* admin schedules lists of miners; a peer whose pool is not emptied in    *)
(* time expects the next miner of the list; a peer that enters or leaves   *)
(* the list starts or stops its mining task.                               *)
(*                                                                         *)
(* A step is the code between two awaits that really wait: reading a       *)
(* socket and sleeping.  No block takes work, so the pool's lock is never  *)
(* held across such an await.  "await round_task" after its cancellation   *)
(* ends in the next turn of the event loop and is part of the step.        *)
(*                                                                         *)
(* Message ids: a new_tx, new_block or miners_list_update packet keeps its *)
(* id when it is sent on; the transaction's id, the block's hash and the   *)
(* number of the update stand for it.  The other packets are sent once.    *)
(***************************************************************************)
EXTENDS PoaLedger, FiniteSets

CONSTANTS Node,         \* the peers, named by node id and public key alike
          Founder,      \* the one started without a bootstrap host: the admin
          Joined,       \* peers that have the first block at the beginning
          FirstMiners,  \* the miners_list of the first block
          Conn,         \* websockets, <<client, server>>
          Amount,       \* what a user may ask to send
          Turns,        \* bound: rounds are counted 0, 1, .., Turns, 1, ..
          MaxTxs,       \* bound: transactions the users create
          MaxBlocks,    \* bound: blocks mined after the first one
          MaxUpdates,   \* bound: lists the admin schedules
          MaxStops,     \* bound: peers that quit
          MaxDrops      \* bound: no connection is dropped after so many were lost

\* The network begins at its real beginning (Joined = {Founder}, FirstMiners =
\* <<Founder>>) or at a later quiet moment, the chain so far cut to one block.
ASSUME PoaAssumption ==
  /\ Node \subseteq Account
  /\ Founder \in Joined /\ Joined \subseteq Node
  /\ FirstMiners \in Seq(Joined) /\ FirstMiners # << >>
  /\ Conn \subseteq {c \in Node \X Node : c[1] # c[2]}
  /\ Amount \subseteq Nat \ {0}
  /\ Turns \in Nat /\ MaxTxs \in Nat /\ MaxBlocks \in Nat
  /\ MaxUpdates \in Nat /\ MaxStops \in Nat /\ MaxDrops \in Nat

VARIABLES
  chain,       \* Chain.instance.chain, << >> while there is no instance
  mem_pool,
  seen,        \* seen_message_ids
  admin_id,
  miners,      \* the schedule
  round,
  waited,      \* round_calculator has found a nonempty pool and waits on
  miner,       \* the role
  miner_task,  \* the task the peer would cancel: named after the block that
               \* created it, 0 for the one created by start()
  live,        \* mine_blocks tasks that have not ended
  late,        \* late[n]: tasks in the sleep of a shifted round, with the list
               \* of miners they read before it
  inbox,       \* inbox[c][n]: sent over c to n and not yet read
  up,          \* connections that are open
  running,     \* peers that have not quit
  minted,      \* history: every block that was made and appended, in order
  created,     \* history: how many transactions were created
  scheduled,   \* history: every entry the admin scheduled, in order
  drops        \* history: how many connections were lost, to failed handlers too

peerVars == <<chain, mem_pool, seen, admin_id, miners, round, waited>>
taskVars == <<miner, miner_task, live, late>>
netVars == <<inbox, up, running>>
historyVars == <<minted, created, scheduled, drops>>
vars == <<peerVars, taskVars, netVars, historyVars>>

-----------------------------------------------------------------------------
Ends(c) == {c[1], c[2]}
Other(c, n) == IF c[1] = n THEN c[2] ELSE c[1]
Listed(n, miners_list) == \E i \in DOMAIN miners_list : miners_list[i] = n

Msg == [type : {"new_tx"}, transaction : Tx]
  \cup [type : {"new_block"}, block : Block]
  \cup [type : {"miners_list_update"}, number : Nat, entry : Entry]
  \cup [type : {"network_details_request"}]
  \cup [type : {"network_details"}, admin : Node \cup {None}, miners : Seq(Entry)]
  \cup [type : {"chain_request"}]
  \cup [type : {"chain"}, chain : Seq(Block)]

MsgId(msg) == CASE msg.type = "new_tx" -> <<"new_tx", msg.transaction.id>>
                [] msg.type = "new_block" -> <<"new_block", msg.block.hash>>
                [] msg.type = "miners_list_update" -> <<"miners_list_update", msg.number>>

IsNew(n, msg) == MsgId(msg) \notin seen[n]

MarkSeen_Type(n, msg) ==   \* mutant: the packet's type instead of its id
  [seen EXCEPT ![n] = @ \cup {msg.type}]

MarkSeen(n, msg) == [seen EXCEPT ![n] = @ \cup {MsgId(msg)}]

first == first_block(Founder, FirstMiners)

\* A newcomer has been introduced by add_peer and known_peers, and asks the peer
\* it connected to for the network's details.
Init ==
  /\ chain = [n \in Node |-> IF n \in Joined THEN <<first>> ELSE << >>]
  /\ mem_pool = [n \in Node |-> << >>]
  /\ seen = [n \in Node |-> {}]
  /\ admin_id = [n \in Node |-> IF n \in Joined THEN Founder ELSE None]
  /\ miners = [n \in Node |-> << >>]
  /\ round = [n \in Node |-> 0]
  /\ waited = [n \in Node |-> FALSE]
  /\ miner = [n \in Node |-> Listed(n, FirstMiners)]
  /\ miner_task = [n \in Node |-> IF miner[n] THEN 0 ELSE None]
  /\ live = [n \in Node |-> IF miner[n] THEN {0} ELSE {}]
  /\ late = [n \in Node |-> {}]
  /\ inbox = [c \in Conn |-> [n \in Node |->
                IF n = c[2] /\ c[1] \notin Joined
                THEN << [type |-> "network_details_request"] >> ELSE << >>]]
  /\ up = Conn
  /\ running = Node
  /\ minted = <<first>>
  /\ created = 0 /\ scheduled = << >> /\ drops = 0

-----------------------------------------------------------------------------
(***************************************************************************)
(* Sending and reading.                                                    *)
(***************************************************************************)

\* To both ends' sockets, the one it came over included.  A copy that its
\* receiver would drop as already seen is not queued.
broadcast_message(n, msg, boxes) ==
  [c \in Conn |->
     IF c \in up /\ n \in Ends(c) /\ IsNew(Other(c, n), msg)
     THEN [boxes[c] EXCEPT ![Other(c, n)] = Append(@, msg)]
     ELSE boxes[c]]

send_message(c, n, msg, boxes) ==
  IF c \in up THEN [boxes EXCEPT ![c][Other(c, n)] = Append(@, msg)] ELSE boxes

Reads(c, n, type) == inbox[c][n] # << >> /\ Head(inbox[c][n]).type = type

Read(c, n) == [inbox EXCEPT ![c][n] = Tail(@)]

\* An exception leaves handle_connections (or connect_to_peer) through finally:
\* the socket is closed and what n has not read is gone.
HandlerFails(c, n) ==
  /\ inbox' = [inbox EXCEPT ![c][n] = << >>]
  /\ up' = up \ {c}
  /\ drops' = drops + 1

-----------------------------------------------------------------------------
(***************************************************************************)
(* Roles and rounds.                                                       *)
(***************************************************************************)

\* caller is the mining task that runs this, None for a handler.  A peer that is
\* no longer listed cancels its task; a task that cancels itself awaits itself,
\* and update_role swallows the CancelledError: it goes on.
update_role(n, is_miner_now, block, caller) ==
  LET starts == is_miner_now /\ ~ miner[n]
      cancelled == IF ~ is_miner_now /\ miner[n] THEN {miner_task[n]} \ {caller} ELSE {}
  IN
  /\ miner' = [miner EXCEPT ![n] = is_miner_now]
  /\ miner_task' = [miner_task EXCEPT ![n] = IF starts THEN block.hash ELSE @]
  /\ live' = [live EXCEPT ![n] = (@ \ cancelled) \cup (IF starts THEN {block.hash} ELSE {})]
  /\ late' = [late EXCEPT ![n] = {l \in @ : l.task \notin cancelled \cup {caller}}]

\* What follows an appended block: the round starts again, entries that are past
\* leave the schedule, and the role follows the list for the next block.
AfterBlock(n, newChain, caller) ==
  LET ahead == drop_past_entries(miners[n], Len(newChain)) IN
  /\ round' = [round EXCEPT ![n] = 0]
  /\ waited' = [waited EXCEPT ![n] = FALSE]
  /\ miners' = [miners EXCEPT ![n] = ahead]
  /\ update_role(n, Listed(n, get_current_miners_list(newChain, ahead)),
                 lastBlock(newChain), caller)

\* round_calculator: after 10 s with transactions in the pool it waits 80 s more
\* and then expects the next miner.
StartWaiting(n) ==
  /\ n \in running /\ Turns > 0
  /\ ~ waited[n] /\ mem_pool[n] # << >>
  /\ waited' = [waited EXCEPT ![n] = TRUE]
  /\ UNCHANGED <<chain, mem_pool, seen, admin_id, miners, round, taskVars, netVars,
                 historyVars>>

ShiftMiner(n) ==
  /\ n \in running
  /\ waited[n]
  /\ waited' = [waited EXCEPT ![n] = FALSE]
  /\ round' = [round EXCEPT ![n] = IF @ = Turns THEN 1 ELSE @ + 1]
  /\ UNCHANGED <<chain, mem_pool, seen, admin_id, miners, taskVars, netVars, historyVars>>

-----------------------------------------------------------------------------
(***************************************************************************)
(* Transactions.                                                           *)
(***************************************************************************)
create_and_broadcast_tx(n, rec, amt) ==
  LET tx == [id |-> created + 1, sender |-> n, receiver |-> rec, amount |-> amt]
      msg == [type |-> "new_tx", transaction |-> tx]
  IN
  /\ n \in running /\ chain[n] # << >>
  /\ created < MaxTxs
  /\ amt <= calc_balance(chain[n], n, mem_pool[n])
  /\ created' = created + 1
  /\ seen' = MarkSeen(n, msg)
  /\ mem_pool' = [mem_pool EXCEPT ![n] = Append(@, tx)]
  /\ inbox' = broadcast_message(n, msg, inbox)
  /\ UNCHANGED <<chain, admin_id, miners, round, waited, taskVars, up, running, minted,
                 scheduled, drops>>

AcceptsTx(n, tx) ==
  /\ ~ transaction_exists_in_chain(chain[n], tx)
  /\ tx.amount <= calc_balance(chain[n], tx.sender, mem_pool[n])
  /\ tx.amount > 0

HandleNewTx(c, n) ==
  /\ Reads(c, n, "new_tx")
  /\ LET msg == Head(inbox[c][n]) IN
     /\ seen' = MarkSeen(n, msg)
     /\ \/ /\ ~ IsNew(n, msg) \/ (chain[n] # << >> /\ ~ AcceptsTx(n, msg.transaction))
           /\ inbox' = Read(c, n)
           /\ UNCHANGED <<mem_pool, up, drops>>
        \/ /\ IsNew(n, msg) /\ chain[n] = << >>
           /\ HandlerFails(c, n)
           /\ UNCHANGED mem_pool
        \/ /\ IsNew(n, msg) /\ chain[n] # << >> /\ AcceptsTx(n, msg.transaction)
           /\ mem_pool' = [mem_pool EXCEPT ![n] = Append(@, msg.transaction)]
           /\ inbox' = broadcast_message(n, msg, Read(c, n))
           /\ UNCHANGED <<up, drops>>
  /\ UNCHANGED <<chain, admin_id, miners, round, waited, taskVars, running, minted,
                 created, scheduled>>

-----------------------------------------------------------------------------
(***************************************************************************)
(* Blocks.                                                                 *)
(***************************************************************************)

\* The block of the required miner, on top of the chain.  With no miners listed
\* the handler divides by zero; its own public key a peer does not find among
\* those of known_peers.
AcceptsBlock(n, block, miners_list) ==
  LET reqd == required_miner(miners_list, Len(chain[n]), round[n])
  IN  reqd # n /\ isValidBlock(chain[n], block, reqd)

HandleNewBlock(c, n) ==
  /\ Reads(c, n, "new_block")
  /\ LET msg == Head(inbox[c][n])
         newBlock == msg.block
         miners_list == get_current_miners_list(chain[n], miners[n])
         canTell == chain[n] # << >> /\ miners_list # << >>
     IN
     /\ seen' = MarkSeen(n, msg)
     /\ \/ /\ ~ IsNew(n, msg) \/ (canTell /\ ~ AcceptsBlock(n, newBlock, miners_list))
           /\ inbox' = Read(c, n)
           /\ UNCHANGED <<chain, mem_pool, miners, round, waited, taskVars, up, drops>>
        \/ /\ IsNew(n, msg)
           /\ ~ canTell
           /\ HandlerFails(c, n)
           /\ UNCHANGED <<chain, mem_pool, miners, round, waited, taskVars>>
        \/ /\ IsNew(n, msg) /\ canTell
           /\ AcceptsBlock(n, newBlock, miners_list)
           /\ chain' = [chain EXCEPT ![n] = Append(@, newBlock)]
           /\ mem_pool' = [mem_pool EXCEPT ![n] = Sweep(@, InBlock(@, newBlock)).kept]
           /\ inbox' = broadcast_message(n, msg, Read(c, n))
           /\ AfterBlock(n, Append(chain[n], newBlock), None)
           /\ UNCHANGED <<up, drops>>
  /\ UNCHANGED <<admin_id, running, minted, created, scheduled>>

\* mine_blocks with the pool's lock: what the chain does not hold becomes a block
\* that carries miners_list.  A block that is not valid ends the task.
\* Bound: after MaxBlocks blocks nothing is mined.
MineBlock(n, task, miners_list) ==
  LET swept == Sweep(mem_pool[n], InChain(mem_pool[n], chain[n]))
      newBlock == [hash |-> Len(minted), prevHash |-> lastBlock(chain[n]).hash,
                   transactions |-> swept.taken, miner |-> n, miners_list |-> miners_list]
      msg == [type |-> "new_block", block |-> newBlock]
      nothing == swept.taken = << >> \/ Len(minted) > MaxBlocks
      valid == isValidBlock(chain[n], newBlock, n)
  IN
  /\ \/ /\ nothing \/ ~ valid
        /\ mem_pool' = [mem_pool EXCEPT ![n] = swept.kept]
        /\ live' = [live EXCEPT ![n] = IF nothing THEN @ ELSE @ \ {task}]
        /\ late' = [late EXCEPT ![n] = {l \in @ : l.task # task}]
        /\ UNCHANGED <<chain, seen, miners, round, waited, miner, miner_task, inbox, minted>>
     \/ /\ ~ nothing /\ valid
        /\ chain' = [chain EXCEPT ![n] = Append(@, newBlock)]
        /\ minted' = Append(minted, newBlock)
        /\ mem_pool' = [mem_pool EXCEPT ![n] =
                          Sweep(swept.kept, InBlock(swept.kept, newBlock)).kept]
        /\ seen' = MarkSeen(n, msg)
        /\ inbox' = broadcast_message(n, msg, inbox)
        /\ AfterBlock(n, Append(chain[n], newBlock), task)
  /\ UNCHANGED <<admin_id, up, running, created, scheduled, drops>>

\* Every 30 s a mining task looks whether it is n's turn.  In a shifted round it
\* sleeps 15 s more; with no miners listed it divides by zero and is gone.
MinerWakes(n, task) ==
  LET miners_list == get_current_miners_list(chain[n], miners[n])
      myTurn == miners_list # << >> /\ required_miner(miners_list, Len(chain[n]), round[n]) = n
  IN
  /\ task \in live[n]
  /\ \A l \in late[n] : l.task # task
  /\ \/ /\ myTurn /\ round[n] = 0
        /\ MineBlock(n, task, miners_list)
     \/ /\ myTurn /\ round[n] # 0
        /\ late' = [late EXCEPT ![n] = @ \cup {[task |-> task, miners_list |-> miners_list]}]
        /\ UNCHANGED <<peerVars, miner, miner_task, live, netVars, historyVars>>
     \/ /\ miners_list = << >>
        /\ live' = [live EXCEPT ![n] = @ \ {task}]
        /\ UNCHANGED <<peerVars, miner, miner_task, late, netVars, historyVars>>

\* The 15 s are over: with the list, and the turn, found before them.
LateMinerWakes(n) == \E l \in late[n] : MineBlock(n, l.task, l.miners_list)

-----------------------------------------------------------------------------
(***************************************************************************)
(* The schedule, and the details a newcomer asks for.                      *)
(***************************************************************************)

\* The menu's choices 8 and 9: the admin appends a miner to the latest list or
\* removes one from it, three blocks ahead.
schedule_miners(n, miners_list) ==
  LET entry == [miners_list |-> miners_list, activation_block |-> activation_block(Len(chain[n]))]
      msg == [type |-> "miners_list_update", number |-> Len(scheduled) + 1, entry |-> entry]
  IN
  /\ scheduled' = Append(scheduled, entry)
  /\ seen' = MarkSeen(n, msg)
  /\ miners' = [miners EXCEPT ![n] = Append(@, entry)]
  /\ inbox' = broadcast_message(n, msg, inbox)
  /\ UNCHANGED <<chain, mem_pool, admin_id, round, waited, taskVars, up, running, minted,
                 created, drops>>

user_input_handler(n, member) ==
  /\ n \in running /\ n = Founder /\ Len(scheduled) < MaxUpdates
  /\ LET latest == latest_list(chain[n], miners[n]) IN
     \/ /\ ~ Listed(member, latest)
        /\ schedule_miners(n, Append(latest, member))
     \/ /\ Listed(member, latest)
        /\ schedule_miners(n, Without(latest, {member}))

learn_FromHere(n, entry) ==   \* mutant: three blocks from where the receiver is
  Append(miners[n], [entry EXCEPT !.activation_block = activation_block(Len(chain[n]))])

learn(n, entry) == Append(miners[n], entry)

\* The signature is verified with the admin's key from known_peers; a peer that
\* does not know the admin yet refuses the update, and has seen it.
HandleMinersListUpdate(c, n) ==
  /\ Reads(c, n, "miners_list_update")
  /\ LET msg == Head(inbox[c][n]) IN
     /\ seen' = MarkSeen(n, msg)
     /\ \/ /\ ~ IsNew(n, msg) \/ admin_id[n] = None
           /\ inbox' = Read(c, n)
           /\ UNCHANGED miners
        \/ /\ IsNew(n, msg) /\ admin_id[n] # None
           /\ miners' = [miners EXCEPT ![n] = learn(n, msg.entry)]
           /\ inbox' = broadcast_message(n, msg, Read(c, n))
  /\ UNCHANGED <<chain, mem_pool, admin_id, round, waited, taskVars, up, running, historyVars>>

network_details_NoSchedule(n) ==   \* mutant: the admin only
  [type |-> "network_details", admin |-> admin_id[n], miners |-> << >>]

network_details(n) ==
  [type |-> "network_details", admin |-> admin_id[n], miners |-> miners[n]]

HandleDetailsRequest(c, n) ==
  /\ Reads(c, n, "network_details_request")
  /\ inbox' = send_message(c, n, network_details(n), Read(c, n))
  /\ UNCHANGED <<peerVars, taskVars, up, running, historyVars>>

HandleDetails(c, n) ==
  /\ Reads(c, n, "network_details")
  /\ LET msg == Head(inbox[c][n]) IN
     /\ admin_id' = [admin_id EXCEPT ![n] = msg.admin]
     /\ miners' = [miners EXCEPT ![n] = msg.miners]
  /\ inbox' = send_message(c, n, [type |-> "chain_request"], Read(c, n))
  /\ UNCHANGED <<chain, mem_pool, seen, round, waited, taskVars, up, running, historyVars>>

-----------------------------------------------------------------------------
(***************************************************************************)
(* Chains on request.                                                      *)
(***************************************************************************)

\* A request of n's over c that has not been answered yet.
Asked(c, n) ==
  \/ \E k \in DOMAIN inbox[c][Other(c, n)] :
       inbox[c][Other(c, n)][k].type = "chain_request"
  \/ \E k \in DOMAIN inbox[c][n] : inbox[c][n][k].type = "chain"

\* Bound: not over a connection on which n still waits for an answer.
find_longest_chain(n) ==
  LET asks == {c \in up : n \in Ends(c) /\ ~ Asked(c, n)} IN
  /\ asks # {}
  /\ inbox' = [c \in Conn |->
       IF c \in asks
       THEN [inbox[c] EXCEPT ![Other(c, n)] = Append(@, [type |-> "chain_request"])]
       ELSE inbox[c]]
  /\ UNCHANGED <<peerVars, taskVars, up, running, historyVars>>

HandleChainRequest(c, n) ==
  /\ Reads(c, n, "chain_request")
  /\ inbox' = IF chain[n] = << >> THEN Read(c, n)
              ELSE send_message(c, n, [type |-> "chain", chain |-> chain[n]], Read(c, n))
  /\ UNCHANGED <<peerVars, taskVars, up, running, historyVars>>

\* A first chain, or a longer one, replaces what n has, and what it holds leaves
\* the pool.  Round, schedule and role stay as they are.
HandleChain(c, n) ==
  /\ Reads(c, n, "chain")
  /\ inbox' = Read(c, n)
  /\ LET block_list == Head(inbox[c][n]).chain IN
     \/ /\ ~ isvalidChain(block_list) \/ Len(block_list) <= Len(chain[n])
        /\ UNCHANGED <<chain, mem_pool>>
     \/ /\ isvalidChain(block_list) /\ Len(block_list) > Len(chain[n])
        /\ chain' = [chain EXCEPT ![n] = rewrite(@, block_list)]
        /\ mem_pool' = [mem_pool EXCEPT ![n] = Without(@, InChain(@, block_list))]
  /\ UNCHANGED <<seen, admin_id, miners, round, waited, taskVars, up, running, historyVars>>

-----------------------------------------------------------------------------
(***************************************************************************)
(* Connections.                                                            *)
(***************************************************************************)

\* The sampler drops a connection, or the network does: what is under way to
\* one end or to both is lost.
Disconnect(c) ==
  /\ c \in up
  /\ drops < MaxDrops
  /\ drops' = drops + 1
  /\ up' = up \ {c}
  /\ \E lost \in (SUBSET Ends(c)) \ {{}} :
       inbox' = [inbox EXCEPT ![c] =
                   [n \in Node |-> IF n \in lost THEN << >> ELSE @[n]]]
  /\ UNCHANGED <<peerVars, taskVars, running, minted, created, scheduled>>

connect_to_peer(c) ==
  /\ c \notin up /\ Ends(c) \subseteq running
  /\ \A n \in Ends(c) : inbox[c][n] = << >>
  /\ up' = up \cup {c}
  /\ UNCHANGED <<peerVars, taskVars, inbox, running, historyVars>>

\* Menu choice 0, or the process ends: its sockets close, its tasks are gone, and
\* what it has sent still arrives.
Stop(n) ==
  /\ n \in running
  /\ Cardinality(Node \ running) < MaxStops
  /\ running' = running \ {n}
  /\ up' = {c \in up : n \notin Ends(c)}
  /\ inbox' = [c \in Conn |-> IF n \in Ends(c) THEN [inbox[c] EXCEPT ![n] = << >>]
                                               ELSE inbox[c]]
  /\ live' = [live EXCEPT ![n] = {}]
  /\ late' = [late EXCEPT ![n] = {}]
  /\ UNCHANGED <<peerVars, miner, miner_task, historyVars>>

-----------------------------------------------------------------------------
HandleMessage(c, n) ==
  \/ HandleNewTx(c, n)
  \/ HandleNewBlock(c, n)
  \/ HandleMinersListUpdate(c, n)
  \/ HandleDetailsRequest(c, n)
  \/ HandleDetails(c, n)
  \/ HandleChainRequest(c, n)
  \/ HandleChain(c, n)

Next ==
  \/ \E n \in Node :
       \/ \E rec \in Account \ {n}, amt \in Amount : create_and_broadcast_tx(n, rec, amt)
       \/ \E member \in Node : user_input_handler(n, member)
       \/ \E task \in live[n] : MinerWakes(n, task)
       \/ LateMinerWakes(n)
       \/ StartWaiting(n)
       \/ ShiftMiner(n)
       \/ find_longest_chain(n)
       \/ Stop(n)
  \/ \E c \in Conn :
       \/ \E n \in Ends(c) : HandleMessage(c, n)
       \/ Disconnect(c)
       \/ connect_to_peer(c)

Spec == Init /\ [][Next]_vars

(***************************************************************************)
(* The event loop runs every coroutine that can run.  A round lasts 80 s   *)
(* and a mining task looks every 30 s whether it is its turn, so it does   *)
(* not miss its turn for ever while rounds come and go: strong fairness.   *)
(***************************************************************************)
Fairness ==
  /\ \A n \in Node :
       /\ WF_vars(LateMinerWakes(n))
       /\ WF_vars(StartWaiting(n))
       /\ WF_vars(ShiftMiner(n))
       /\ WF_vars(find_longest_chain(n))
       /\ \A task \in 0..MaxBlocks : SF_vars(MinerWakes(n, task))
  /\ \A c \in Conn :
       /\ WF_vars(connect_to_peer(c))
       /\ \A n \in Ends(c) : WF_vars(HandleMessage(c, n))

FairSpec == Spec /\ Fairness

-----------------------------------------------------------------------------
(***************************************************************************)
(* Properties.                                                             *)
(***************************************************************************)

(***************************************************************************)
(* Every variable of the peers holds what the code puts there.             *)
(***************************************************************************)
TypeOK ==
  /\ chain \in [Node -> Seq(Block)]
  /\ mem_pool \in [Node -> Seq(Tx)]
  /\ seen \in [Node -> SUBSET ({"new_tx", "new_block", "miners_list_update"} \X Nat)]
  /\ admin_id \in [Node -> Node \cup {None}]
  /\ miners \in [Node -> Seq(Entry)]
  /\ round \in [Node -> Nat]
  /\ waited \in [Node -> BOOLEAN]
  /\ miner \in [Node -> BOOLEAN]
  /\ miner_task \in [Node -> Nat \cup {None}]
  /\ live \in [Node -> SUBSET Nat]
  /\ late \in [Node -> SUBSET [task : Nat, miners_list : Seq(Account)]]
  /\ inbox \in [Conn -> [Node -> Seq(Msg)]]
  /\ up \in SUBSET Conn
  /\ running \in SUBSET Node
  /\ minted \in Seq(Block)
  /\ created \in Nat /\ scheduled \in Seq(Entry) /\ drops \in Nat

(***************************************************************************)
(* What the peers hold and exchange, seen as ChainReplica sees it.         *)
(***************************************************************************)
Header(block) == [hash |-> block.hash, prevHash |-> block.prevHash]

headers == [n \in Node |-> [i \in DOMAIN chain[n] |-> Header(chain[n][i])]]

Replica == INSTANCE ChainReplica WITH
             Hash <- Nat,
             chain <- headers,
             minted <- {Header(minted[i]) : i \in DOMAIN minted}

(***************************************************************************)
(* The peers implement ChainReplica, whoever they expect to make the next  *)
(* block.                                                                  *)
(***************************************************************************)
ReplicaSpec == Replica!Spec

(***************************************************************************)
(* No account ever spends more than it has, in no chain that any peer      *)
(* holds: with every block confirmed, what is in the chain always counts.  *)
(***************************************************************************)
Solvent ==
  \A n \in Node, pk \in Account :
    chain[n] # << >> => calc_balance(chain[n], pk, << >>) >= 0

(***************************************************************************)
(* As long as no round is shifted, peers take turns and never make two     *)
(* blocks at the same height, whatever the admin schedules meanwhile.      *)
(***************************************************************************)
NoFork ==
  \A m, n \in Node : \A i \in DOMAIN chain[m] \cap DOMAIN chain[n] :
    chain[m][i].hash = chain[n][i].hash

(***************************************************************************)
(* What the admin decides is carried out, in order and at the right place: *)
(* a block carries the last list scheduled for its height, if one was, and *)
(* else the list of the block before it.                                   *)
(***************************************************************************)
ScheduledFor(i) == {k \in DOMAIN scheduled : scheduled[k].activation_block = i - 1}

ScheduleKept ==
  \A n \in Node : \A i \in DOMAIN chain[n] \ {1} :
    chain[n][i].miners_list =
      IF ScheduledFor(i) = {} THEN chain[n][i-1].miners_list
      ELSE scheduled[CHOOSE k \in ScheduledFor(i) :
                       \A l \in ScheduledFor(i) : l <= k].miners_list

(***************************************************************************)
(* While no connection is lost, peers whose chains have the same length    *)
(* expect the same miners as soon as everything under way is read: an      *)
(* update reaches every peer once, and a newcomer gets those it missed.    *)
(***************************************************************************)
Quiet == \A c \in Conn : \A n \in Ends(c) : inbox[c][n] = << >>

ScheduleAgrees ==
  Quiet /\ drops = 0 =>
    \A m, n \in Node :
      chain[m] # << >> /\ Len(chain[m]) = Len(chain[n]) =>
        get_current_miners_list(chain[m], miners[m]) =
        get_current_miners_list(chain[n], miners[n])

(***************************************************************************)
(* A peer that left the list of miners has no mining task.                 *)
(***************************************************************************)
RemovedMinerStops == \A n \in Node : ~ miner[n] => live[n] = {}

(***************************************************************************)
(* "If that miner is inactive, mining will be handed over to the next      *)
(* miner": what a running peer has in its pool ends up in its chain.       *)
(***************************************************************************)
Pending(n) == \E k \in DOMAIN mem_pool[n] : ~ transaction_exists_in_chain(chain[n], mem_pool[n][k])

HandedOver ==
  \A n \in Node :
    n \in running /\ Pending(n) ~> ~ Pending(n) \/ n \notin running \/ Len(minted) > MaxBlocks
=============================================================================
