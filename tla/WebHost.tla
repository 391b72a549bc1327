------------------------------ MODULE WebHost ------------------------------
(***************************************************************************)
(* The web application: one process that answers the frontend's requests   *)
(* and runs peers of the three consensus programs in its event loop        *)
(* (webApp/flask_app and webApp/blockchain).                               *)
(*                                                                         *)
(* The requests are served one at a time, but a request that awaits lets   *)
(* the peers go on.  Every start makes a new Peer object; the Chain class  *)
(* keeps one instance for the whole process, so a peer that was stopped    *)
(* and one that was started after it share a chain.                        *)
(*                                                                         *)
(* The rest of each network is one peer elsewhere, run by the same         *)
(* program: of it only its chain and what it has heard count.  It hears    *)
(* what a peer here broadcasts or never does; what it sends may come at    *)
(* any later time.  Every transfer is of one coin to somebody who spends   *)
(* nothing, so only the wallet that holds the grant of 50 ever spends;     *)
(* rewards are left out.  With one other endpoint the sampler never finds  *)
(* anything to swap.                                                       *)
(***************************************************************************)
EXTENDS Transfers, FiniteSets, SequencesExt

CONSTANTS Kind,       \* the consensus programs the user picks from
          Elsewhere,  \* the kinds that have a network elsewhere already
          Port,       \* Port[k]: the port the user enters for kind k
          Miner,      \* bound: what the user answers to "miner"
          MaxStarts,  \* bound: peers that are started
          MaxTxs,     \* bound: transactions
          MaxBlocks,  \* bound: blocks made elsewhere
          MaxStakes   \* bound: stakes

ASSUME WebAssumption ==
  /\ Kind \subseteq {"pow", "poa", "pos"} /\ Elsewhere \subseteq Kind
  /\ Port \in [Kind -> Nat] /\ Miner \subseteq BOOLEAN
  /\ {MaxStarts, MaxTxs, MaxBlocks, MaxStakes} \subseteq Nat
  /\ MaxTxs < GenesisGrant
  \* Wallets: 0 is the one elsewhere, a peer's is its number, the last one receives.
  /\ Account = 0..(MaxStarts + 1)

VARIABLES
  consensus,  \* app.py's global
  running,    \* running[k]: the controllers' peer_instance; 0 for None
  request,    \* None, or what the request being served awaits
  peers,      \* every Peer object, in the order they were made
  instance,   \* instance[k]: Chain.instance.chain; << >> for None
  outside,    \* outside[k]: the chain elsewhere; << >> until it has one
  heard,      \* heard[k]: transactions that are known elsewhere
  count       \* history: transactions, blocks made, blocks made elsewhere, stakes

web_vars == <<consensus, running, request>>
net_vars == <<outside, heard>>

vars == <<web_vars, peers, instance, net_vars, count>>

-----------------------------------------------------------------------------
(***************************************************************************)
(* Chains.                                                                 *)
(***************************************************************************)
Block == [hash : Nat, prevHash : Nat \cup {None}, miner : Account, transactions : Seq(Tx)]

genesis_block(pk) ==
  [hash |-> pk, prevHash |-> None, miner |-> pk,
   transactions |-> << [id |-> 0, sender |-> Genesis, receiver |-> pk,
                        amount |-> GenesisGrant] >>]

calc_balance(chain, pk, pending) ==
  SumTo([i \in DOMAIN chain |->
           SumTo([k \in DOMAIN chain[i].transactions |-> TxCredit(chain[i].transactions[k], pk)],
                 Len(chain[i].transactions))],
        Len(chain))
  - Spending(pending, pk)

Affords(chain, tx, pending) == tx.amount <= calc_balance(chain, tx.sender, pending)

isValidBlock_AnyPlace(chain, block) ==   \* mutant: prevHash is not compared
  \A k \in DOMAIN block.transactions :
    LET tx == block.transactions[k] IN
    Affords(chain, tx, SubSeq(block.transactions, 1, k - 1))

isValidBlock(chain, block) ==
  /\ block.prevHash = lastBlock(chain).hash
  /\ \A k \in DOMAIN block.transactions :
       LET tx == block.transactions[k] IN
       /\ ~ transaction_exists_in_chain(chain, tx)
       /\ Affords(chain, tx, SubSeq(block.transactions, 1, k - 1))

\* The founder is the only miner, whatever the round.
poa_isValidBlock(chain, block) ==
  isValidBlock(chain, block) /\ block.miner = chain[1].miner

isvalidChain_First(list) ==   \* mutant: every block is compared with the genesis block
  \A i \in 2..Len(list) : list[i].prevHash = list[1].hash

isvalidChain(list) ==
  \A i \in 2..Len(list) :
    /\ list[i].prevHash = list[i-1].hash
    /\ \A k \in DOMAIN list[i].transactions :
         LET tx == list[i].transactions[k] IN
         tx.amount > 0 /\ Affords(SubSeq(list, 1, i - 1), tx,
                                  SubSeq(list[i].transactions, 1, k - 1))

\* poa's isvalidChain gives calc_balance_block_list an argument too many: any
\* transaction after the genesis block ends it with an exception.
poa_isvalidChain_raises(list) ==
  \E i \in 2..Len(list) : list[i].transactions # << >>

rewrite_chain_ByTwo(chain, list) ==   \* mutant: off by one
  IF Len(chain) + 1 >= Len(list) THEN chain ELSE list

rewrite_chain(chain, list) == IF Len(chain) >= Len(list) THEN chain ELSE list

\* Chain(...): only the first object of the process becomes the instance.
Chain_Anew(k, list) ==   \* mutant: every object becomes the instance
  [instance EXCEPT ![k] = list]

Chain(k, list) ==
  IF instance[k] = << >> THEN [instance EXCEPT ![k] = list] ELSE instance

\* What self.chain is then: an object of the class that has no chain of its own,
\* unless it is the first one.
ChainObject(k) == IF instance[k] = << >> THEN "Chain" ELSE "Blank"

-----------------------------------------------------------------------------
(***************************************************************************)
(* Peers.                                                                  *)
(***************************************************************************)
Peer == [kind : Kind,
         server : {"none", "open", "closing", "closed"},
         links : SUBSET {"in", "out"},  \* connections with the peer elsewhere
         knows : BOOLEAN,               \* known_peers holds its endpoint
         dialing : BOOLEAN,             \* connect_to_peer waits for a websocket
         tasks : SUBSET {"find", "disc", "mine", "round", "reset"},
         miner : BOOLEAN,
         chain : {"None", "Chain", "Blank"},
         asked : BOOLEAN,               \* a chain it asked for has not come yet
         mem_pool : Seq(Tx),
         seen : SUBSET ({"tx", "block"} \X Nat),
         candidate : Block \cup {None}, \* pow: what the mining thread works on
         staked : BOOLEAN,              \* pos: staked_amt is not 0
         draws : Nat]                   \* pos: create_blocks tasks that sleep

NewPeer(k, miner) ==
  [kind |-> k, server |-> "none", links |-> {}, knows |-> FALSE, dialing |-> FALSE,
   tasks |-> {}, miner |-> miner, chain |-> "None", asked |-> FALSE,
   mem_pool |-> << >>, seen |-> {}, candidate |-> None, staked |-> FALSE, draws |-> 0]

PortFree(k) == \A p \in DOMAIN peers :
                 peers[p].server \in {"open", "closing"} => Port[peers[p].kind] # Port[k]

\* websockets.serve; the controllers print its exception and go on.
Served(peer) == [peer EXCEPT !.server = IF PortFree(peer.kind) THEN "open" ELSE "none"]

pow_run_forever(miner) == {"find", "disc"} \cup (IF miner THEN {"mine"} ELSE {})
poa_run_forever == {"find", "disc", "round"}
pos_run_forever == {"find", "disc", "reset"}

Init ==
  /\ consensus = ""
  /\ running = [k \in Kind |-> 0]
  /\ request = None
  /\ peers = << >>
  /\ instance = [k \in Kind |-> << >>]
  /\ outside = [k \in Kind |-> IF k \in Elsewhere THEN <<genesis_block(0)>> ELSE << >>]
  /\ heard = [k \in Kind |-> {}]
  /\ count = [txs |-> 0, blocks |-> 0, outside |-> 0, stakes |-> 0]

-----------------------------------------------------------------------------
(***************************************************************************)
(* Starting and connecting.                                                *)
(***************************************************************************)

\* Otherwise the answer is "One peer is already running".
MayBegin(k) == k \in Kind /\ request = None /\ running[k] = 0 /\ Len(peers) < MaxStarts

New == Len(peers) + 1

Begins(peer, label, chains) ==
  /\ peers' = Append(peers, peer)
  /\ running' = [running EXCEPT ![peer.kind] = New]
  /\ consensus' = label
  /\ instance' = chains
  /\ UNCHANGED <<request, net_vars, count>>

pow_start_new_blockchain(miner) ==
  /\ MayBegin("pow")
  /\ Begins([Served(NewPeer("pow", miner)) EXCEPT
               !.chain = ChainObject("pow"), !.tasks = pow_run_forever(miner)],
            "pow", Chain("pow", <<genesis_block(New)>>))

\* On an object without a chain the update of the genesis block is an exception:
\* the peer is kept and served, but nothing of it runs.
poa_start_new_blockchain ==
  /\ MayBegin("poa")
  /\ LET peer == [Served(NewPeer("poa", FALSE)) EXCEPT !.chain = ChainObject("poa")]
     IN  Begins(IF peer.chain = "Blank" THEN peer
                ELSE [peer EXCEPT !.miner = TRUE, !.tasks = poa_run_forever \cup {"mine"}],
                "poa", Chain("poa", <<genesis_block(New)>>))

pos_start_new_blockchain ==
  /\ MayBegin("pos")
  /\ Begins([Served(NewPeer("pos", TRUE)) EXCEPT
               !.chain = ChainObject("pos"), !.tasks = pos_run_forever],
            "pos", Chain("pos", <<genesis_block(New)>>))

\* connect_to_peer is only started if the server was.
Dialing(peer) == [Served(peer) EXCEPT !.dialing = PortFree(peer.kind)]

pow_connect_to_blockchain(miner) ==
  /\ MayBegin("pow") /\ outside["pow"] # << >>
  /\ Begins([Dialing(NewPeer("pow", miner)) EXCEPT !.tasks = pow_run_forever(miner)],
            "pow", instance)

poa_connect_to_blockchain ==
  /\ MayBegin("poa") /\ outside["poa"] # << >>
  /\ Begins([Dialing(NewPeer("poa", FALSE)) EXCEPT !.tasks = poa_run_forever],
            "poa", instance)

pos_connect_to_blockchain ==
  /\ MayBegin("pos") /\ outside["pos"] # << >>
  /\ Begins([Dialing(NewPeer("pos", TRUE)) EXCEPT !.tasks = pos_run_forever],
            "pow", instance)

-----------------------------------------------------------------------------
(***************************************************************************)
(* Stopping.                                                               *)
(***************************************************************************)
\* Peer.stop up to its wait for the server's handlers, for each program; the
\* sleeping create_blocks tasks of pos, the connections the peer opened itself
\* and whatever their handlers do later are not touched.
pow_stop(peer) == [peer EXCEPT !.tasks = @ \ {"disc", "find", "mine"}, !.candidate = None,
                               !.server = IF @ = "open" THEN "closing" ELSE @]
poa_stop(peer) == [peer EXCEPT !.tasks = @ \ {"disc", "find", "round"},
                               !.server = IF @ = "open" THEN "closing" ELSE @]
pos_stop(peer) == [peer EXCEPT !.tasks = @ \ {"disc", "find", "reset"},
                               !.server = IF @ = "open" THEN "closing" ELSE @]

stop(peer) == CASE peer.kind = "pow" -> pow_stop(peer)
                [] peer.kind = "poa" -> poa_stop(peer)
                [] peer.kind = "pos" -> pos_stop(peer)

\* After the wait poa gives up its role, and with it the mining task.
Stopped_KeepsLinks(peer) ==   \* mutant: connections to a closed server stay
  LET closed == [peer EXCEPT !.server = IF @ = "closing" THEN "closed" ELSE @]
  IN  IF peer.kind = "poa" THEN [closed EXCEPT !.miner = FALSE, !.tasks = @ \ {"mine"}]
                           ELSE closed

Stopped(peer) ==
  LET links == peer.links \ {"in"}
      closed == [peer EXCEPT !.server = IF @ = "closing" THEN "closed" ELSE @,
                             !.links = links, !.asked = @ /\ links # {}]
  IN  IF peer.kind = "poa" THEN [closed EXCEPT !.miner = FALSE, !.tasks = @ \ {"mine"}]
                           ELSE closed

Awaits(op, k) == [op |-> op, kind |-> k]

\* The request for kind k; peer_instance is forgotten when the wait is over.
stop_peer_AtOnce(k) ==   \* mutant: it is forgotten before
  /\ request = None /\ running[k] # 0
  /\ peers' = [peers EXCEPT ![running[k]] = stop(@)]
  /\ running' = [running EXCEPT ![k] = 0]
  /\ UNCHANGED <<consensus, request, instance, net_vars, count>>

stop_peer(k) ==
  /\ request = None /\ running[k] # 0
  /\ peers' = [peers EXCEPT ![running[k]] = stop(@)]
  /\ request' = Awaits("stop", k)
  /\ UNCHANGED <<consensus, running, instance, net_vars, count>>

pow_stop_peer == "pow" \in Kind /\ stop_peer("pow")
poa_stop_peer == "poa" \in Kind /\ stop_peer("poa")
pos_stop_peer == "pos" \in Kind /\ stop_peer("pos")

\* /api/stop, and run.py when the server has ended: only a pow peer, and only if
\* consensus still says so.  It forgets the name it imported, not the controllers'
\* peer_instance.
shutdown_peer ==
  /\ request = None
  /\ consensus = "pow" /\ "pow" \in Kind /\ running["pow"] # 0
  /\ peers' = [peers EXCEPT ![running["pow"]] = stop(@)]
  /\ request' = Awaits("shutdown", "pow")
  /\ UNCHANGED <<consensus, running, instance, net_vars, count>>

FinishStop ==
  /\ request # None
  /\ LET p == running[request.kind] IN
     /\ peers' = [peers EXCEPT ![p] = Stopped(@)]
     /\ running' = IF request.op = "stop" THEN [running EXCEPT ![request.kind] = 0]
                                          ELSE running
  /\ consensus' = ""
  /\ request' = None
  /\ UNCHANGED <<instance, net_vars, count>>

-----------------------------------------------------------------------------
(***************************************************************************)
(* Connections.                                                            *)
(***************************************************************************)
Linked(p) == peers[p].links # {}

\* The endpoint is new elsewhere, so that the handshake is answered with peers.
IsNew(p) == \A q \in 1..(p - 1) : peers[q].kind # peers[p].kind

discover_peers(p) ==
  /\ "disc" \in peers[p].tasks
  /\ peers[p].knows /\ "out" \notin peers[p].links /\ ~ peers[p].dialing
  /\ peers' = [peers EXCEPT ![p].dialing = TRUE]
  /\ UNCHANGED <<web_vars, instance, net_vars, count>>

connect_to_peer(p) ==
  LET peer == [peers[p] EXCEPT !.dialing = FALSE, !.links = @ \cup {"out"},
                               !.knows = @ \/ IsNew(p)]
  IN
  /\ peers[p].dialing
  /\ peers' = [peers EXCEPT ![p] = peer]
  /\ UNCHANGED <<web_vars, instance, net_vars, count>>

\* The peer elsewhere connects to p's server, if it has ever heard of the endpoint.
handle_connections(p) ==
  LET peer == [peers[p] EXCEPT !.links = @ \cup {"in"}, !.knows = TRUE] IN
  /\ peers[p].server = "open" /\ "in" \notin peers[p].links
  /\ peers[p].kind \in Elsewhere => "out" \in peers[p].links \/ ~ IsNew(p)
  /\ peers' = [peers EXCEPT ![p] = peer]
  /\ UNCHANGED <<web_vars, instance, net_vars, count>>

\* An exception in a handler closes the connection.
HandlerFails(peer, link) ==
  LET links == peer.links \ {link}
  IN  [peer EXCEPT !.links = links, !.asked = @ /\ links # {}]

\* What is known elsewhere once p has broadcast a transaction.
TxSpreads(p, tx) ==
  heard' = IF Linked(p) THEN [heard EXCEPT ![peers[p].kind] = @ \cup {tx}] ELSE heard

\* A block that p broadcasts is taken elsewhere if it fits there when it comes.
BlockSpreads(p, block) ==
  LET k == peers[p].kind
      fits == /\ outside[k] # << >>
              /\ IF k = "poa" THEN poa_isValidBlock(outside[k], block)
                              ELSE isValidBlock(outside[k], block)
  IN
  \/ outside' = outside
  \/ /\ Linked(p) /\ fits
     /\ outside' = [outside EXCEPT ![k] = Append(@, block)]

-----------------------------------------------------------------------------
(***************************************************************************)
(* Transactions.  A handler or a request that finds the pool locked waits  *)
(* until pow's thread has finished.                                        *)
(***************************************************************************)
Unlocked(p) == peers[p].candidate = None

NewTx(sender) == [id |-> count.txs + 1, sender |-> sender, receiver |-> MaxStarts + 1,
                  amount |-> 1]

\* The request ends in an exception if the peer has no chain or a blank one.
add_transaction(k) ==
  LET p == running[k]
      tx == NewTx(p)
      peer == [peers[p] EXCEPT !.mem_pool = Append(@, tx), !.seen = @ \cup {<<"tx", tx.id>>}]
  IN
  /\ request = None /\ p # 0 /\ count.txs < MaxTxs
  /\ peers[p].chain = "Chain" /\ Unlocked(p)
  /\ Affords(instance[k], tx, peers[p].mem_pool)
  /\ peers' = [peers EXCEPT ![p] = peer]
  /\ TxSpreads(p, tx)
  /\ count' = [count EXCEPT !.txs = @ + 1]
  /\ UNCHANGED <<web_vars, instance, outside>>

pow_add_transaction == "pow" \in Kind /\ add_transaction("pow")
poa_add_transaction == "poa" \in Kind /\ add_transaction("poa")
pos_add_transaction == "pos" \in Kind /\ add_transaction("pos")

\* A user elsewhere sends coins.
OutsideSends(k) ==
  LET tx == NewTx(0)
      pending == SetToSeq({t \in heard[k] : ~ transaction_exists_in_chain(outside[k], t)})
  IN
  /\ outside[k] # << >> /\ count.txs < MaxTxs
  /\ Affords(outside[k], tx, pending)
  /\ heard' = [heard EXCEPT ![k] = @ \cup {tx}]
  /\ count' = [count EXCEPT !.txs = @ + 1]
  /\ UNCHANGED <<web_vars, peers, instance, outside>>

HandleNewTx(p, link, tx) ==
  LET k == peers[p].kind
      peer == [peers[p] EXCEPT !.seen = @ \cup {<<"tx", tx.id>>}]
      taken == /\ ~ transaction_exists_in_chain(instance[k], tx)
               /\ Affords(instance[k], tx, peer.mem_pool)
  IN
  /\ link \in peers[p].links /\ <<"tx", tx.id>> \notin peers[p].seen
  /\ tx \in heard[k] /\ Unlocked(p)
  /\ peers' = [peers EXCEPT ![p] =
        IF instance[k] = << >> THEN HandlerFails(peer, link)
        ELSE IF taken THEN [peer EXCEPT !.mem_pool = Append(@, tx)]
        ELSE peer]
  /\ UNCHANGED <<web_vars, instance, net_vars, count>>

-----------------------------------------------------------------------------
(***************************************************************************)
(* Making blocks.                                                          *)
(***************************************************************************)
NewBlock(chain, pk, txs) ==
  [hash |-> MaxStarts + 1 + count.blocks, prevHash |-> lastBlock(chain).hash, miner |-> pk,
   transactions |-> txs]

\* The chain and the peer once the block it made is appended.
Appends(p, block, peer) ==
  LET k == peers[p].kind IN
  /\ instance' = [instance EXCEPT ![k] = Append(@, block)]
  /\ peers' = [peers EXCEPT ![p] =
        [peer EXCEPT !.mem_pool = Sweep(@, InBlock(@, block)).kept,
                     !.seen = @ \cup {<<"block", block.hash>>}]]
  /\ BlockSpreads(p, block)
  /\ count' = [count EXCEPT !.blocks = @ + 1]
  /\ UNCHANGED <<web_vars, heard>>

\* pow: a round of mine_blocks up to the thread that looks for a nonce.
pow_StartMining(p) ==
  LET peer == peers[p]
      chain == instance["pow"]
      pool == Sweep(peer.mem_pool, InChain(peer.mem_pool, chain))
  IN
  /\ peer.kind = "pow" /\ "mine" \in peer.tasks /\ peer.candidate = None
  /\ peer.mem_pool # << >>
  /\ peers' = [peers EXCEPT ![p] =
        [peer EXCEPT !.mem_pool = pool.kept,
                     !.candidate = IF pool.taken = << >> THEN None
                                   ELSE NewBlock(chain, p, pool.taken)]]
  /\ UNCHANGED <<web_vars, instance, net_vars, count>>

\* The nonce is found; the chain may be another one by then.
pow_FinishMining(p) ==
  LET peer == [peers[p] EXCEPT !.candidate = None]
      block == [peers[p].candidate EXCEPT !.hash = MaxStarts + 1 + count.blocks]
  IN
  /\ peers[p].candidate # None
  /\ IF isValidBlock(instance["pow"], peers[p].candidate)
     THEN Appends(p, block, peer)
     ELSE /\ peers' = [peers EXCEPT ![p] = peer]
          /\ UNCHANGED <<web_vars, instance, net_vars, count>>

\* poa: when it is this node's turn, that is always if it is the founder and else
\* never; round_calculator is started again.
poa_mine_blocks(p) ==
  LET peer == peers[p]
      chain == instance["poa"]
      pool == Sweep(peer.mem_pool, InChain(peer.mem_pool, chain))
      block == NewBlock(chain, p, pool.taken)
  IN
  /\ peer.kind = "poa" /\ "mine" \in peer.tasks
  /\ peer.mem_pool # << >> /\ p = chain[1].miner
  /\ IF pool.taken # << >> /\ poa_isValidBlock(chain, block)
     THEN Appends(p, block, [peer EXCEPT !.mem_pool = pool.kept, !.tasks = @ \cup {"round"}])
     ELSE /\ peers' = [peers EXCEPT ![p].mem_pool = pool.kept]
          /\ UNCHANGED <<web_vars, instance, net_vars, count>>

\* pos: the request stakes a coin; create_blocks will run when the epoch ends.
stake ==
  LET k == "pos"
      p == running[k]
      peer == [peers[p] EXCEPT !.staked = TRUE, !.draws = @ + 1]
  IN
  /\ "pos" \in Kind /\ request = None /\ p # 0 /\ count.stakes < MaxStakes
  /\ peers[p].chain = "Chain" /\ ~ peers[p].staked
  /\ calc_balance(instance[k], p, peers[p].mem_pool) > 0
  /\ peers' = [peers EXCEPT ![p] = peer]
  /\ count' = [count EXCEPT !.stakes = @ + 1]
  /\ UNCHANGED <<web_vars, instance, net_vars>>

\* The draw is lost only to stakes from elsewhere; a winner asks nobody whether the
\* block is valid.
pos_create_blocks(p) ==
  LET peer == [peers[p] EXCEPT !.draws = @ - 1, !.staked = FALSE]
      chain == instance["pos"]
      pending == Without(peer.mem_pool, InChain(peer.mem_pool, chain))
  IN
  /\ peers[p].draws > 0
  /\ \/ /\ peers' = [peers EXCEPT ![p] = peer]
        /\ ~ peers[p].staked \/ pending = << >> \/ Linked(p)
        /\ UNCHANGED <<web_vars, instance, net_vars, count>>
     \/ /\ peers[p].staked /\ pending # << >>
        /\ Appends(p, NewBlock(chain, p, pending), peer)

\* Somebody elsewhere makes a block of all that is known there.
OutsideMakesBlock(k) ==
  LET chain == outside[k]
      txs == SetToSeq({t \in heard[k] : ~ transaction_exists_in_chain(chain, t)})
      block == NewBlock(chain, 0, txs)
  IN
  /\ chain # << >> /\ txs # << >> /\ count.outside < MaxBlocks
  /\ IF k = "poa" THEN poa_isValidBlock(chain, block) ELSE isValidBlock(chain, block)
  /\ outside' = [outside EXCEPT ![k] = Append(@, block)]
  /\ count' = [count EXCEPT !.blocks = @ + 1, !.outside = @ + 1]
  /\ UNCHANGED <<web_vars, peers, instance, heard>>

-----------------------------------------------------------------------------
(***************************************************************************)
(* Blocks and chains from elsewhere.                                       *)
(***************************************************************************)
pow_Hears_Cancels(peer, block) ==   \* mutant: mining that was cancelled is not restarted
  [peer EXCEPT !.candidate = None, !.tasks = @ \ {"mine"}]

\* What else the handler does to the peer once the block is in the chain: pow starts
\* its mining task again, also a peer's that was stopped; poa its round, and a node
\* that is not on the list gives up mining; pos empties the stakes of the epoch.
pow_Hears(peer, block) ==
  [peer EXCEPT !.candidate = None,
               !.tasks = IF peer.miner THEN @ \cup {"mine"} ELSE @]

poa_Hears(peer, block) ==
  [peer EXCEPT !.tasks = (@ \cup {"round"}) \ {"mine"}, !.miner = FALSE]

pos_Hears(peer, block) == [peer EXCEPT !.staked = FALSE]

Hears(peer, block) ==
  LET swept == [peer EXCEPT !.mem_pool = Sweep(@, InBlock(@, block)).kept]
  IN  CASE peer.kind = "pow" -> pow_Hears(swept, block)
        [] peer.kind = "poa" -> poa_Hears(swept, block)
        [] peer.kind = "pos" -> pos_Hears(swept, block)

\* Whether the handler takes the block.  pos also asks whether the creator's stake
\* was heard and the block came in time: it may be refused.
pow_Verdicts(chain, block) == {isValidBlock(chain, block)}
poa_Verdicts(chain, block) == {poa_isValidBlock(chain, block)}
pos_Verdicts(chain, block) == {isValidBlock(chain, block), FALSE}

Verdicts(k, chain, block) == CASE k = "pow" -> pow_Verdicts(chain, block)
                               [] k = "poa" -> poa_Verdicts(chain, block)
                               [] k = "pos" -> pos_Verdicts(chain, block)

HandleNewBlock(p, link, block) ==
  LET k == peers[p].kind
      chain == instance[k]
      peer == [peers[p] EXCEPT !.seen = @ \cup {<<"block", block.hash>>}]
  IN
  /\ link \in peers[p].links /\ <<"block", block.hash>> \notin peers[p].seen
  /\ \E i \in 2..Len(outside[k]) : outside[k][i] = block
  /\ IF chain = << >>
     THEN /\ peers' = [peers EXCEPT ![p] = HandlerFails(peer, link)]
          /\ UNCHANGED instance
     ELSE \E taken \in Verdicts(k, chain, block) :
            /\ instance' = IF taken THEN [instance EXCEPT ![k] = Append(@, block)]
                                    ELSE instance
            /\ peers' = [peers EXCEPT ![p] = IF taken THEN Hears(peer, block) ELSE peer]
  /\ UNCHANGED <<web_vars, net_vars, count>>

find_longest_chain(p) ==
  LET k == peers[p].kind IN
  /\ "find" \in peers[p].tasks /\ Linked(p) /\ ~ peers[p].asked
  /\ Len(outside[k]) > Len(instance[k])   \* bound: a shorter chain changes nothing
  /\ peers' = [peers EXCEPT ![p].asked = TRUE]
  /\ UNCHANGED <<web_vars, instance, net_vars, count>>

\* pow looks whether the class has an instance, pos and poa whether this peer has a
\* chain object: theirs is a blank one if the class had an instance already.
Assigns(peer) ==
  IF peer.kind = "pow" THEN instance["pow"] = << >> ELSE peer.chain = "None"

\* Which programs then purge the pool, and how.
pow_Purged(pool, chain, assigned, longer) ==
  IF assigned THEN pool ELSE Sweep(pool, InChain(pool, chain)).kept
poa_Purged(pool, chain, assigned, longer) ==
  IF assigned \/ longer THEN Without(pool, InChain(pool, chain)) ELSE pool
pos_Purged(pool, chain, assigned, longer) == Sweep(pool, InChain(pool, chain)).kept

Purged(kind, pool, chain, assigned, longer) ==
  CASE kind = "pow" -> pow_Purged(pool, chain, assigned, longer)
    [] kind = "poa" -> poa_Purged(pool, chain, assigned, longer)
    [] kind = "pos" -> pos_Purged(pool, chain, assigned, longer)

HandleChain(p, link) ==
  LET k == peers[p].kind
      list == outside[k]
      peer == [peers[p] EXCEPT !.asked = FALSE]
      assigned == Assigns(peer)
      chains == IF assigned THEN Chain(k, list)
                            ELSE [instance EXCEPT ![k] = rewrite_chain(@, list)]
      longer == Len(instance[k]) < Len(list)
  IN
  /\ peers[p].asked /\ link \in peers[p].links
  /\ IF k = "poa" /\ poa_isvalidChain_raises(list)
     THEN /\ peers' = [peers EXCEPT ![p] = HandlerFails(peer, link)]
          /\ UNCHANGED instance
     ELSE /\ isvalidChain(list)
          /\ instance' = chains
          /\ peers' = [peers EXCEPT ![p] = [peer EXCEPT
               !.chain = IF assigned THEN ChainObject(k) ELSE @,
               !.mem_pool = Purged(k, @, chains[k], assigned, longer)]]
  /\ UNCHANGED <<web_vars, net_vars, count>>

\* pow and poa answer only if the peer has a chain object, be it a blank one.
Answers(peer) == peer.kind = "pos" \/ peer.chain # "None"

\* The peer elsewhere asks p, which answers with the instance.
HandleChainRequest(p, link) ==
  LET k == peers[p].kind
      list == instance[k]
  IN
  /\ link \in peers[p].links
  /\ Answers(peers[p])
  /\ Len(list) > Len(outside[k])
  /\ IF k = "poa" /\ poa_isvalidChain_raises(list)
     THEN /\ peers' = [peers EXCEPT ![p] = HandlerFails(@, link)]
          /\ UNCHANGED outside
     ELSE /\ isvalidChain(list)
          /\ outside' = [outside EXCEPT ![k] = list]
          /\ UNCHANGED peers
  /\ UNCHANGED <<web_vars, instance, heard, count>>

-----------------------------------------------------------------------------
\* The routes under /api/pow, /api/poa and /api/pos that change anything.
pow_Requests ==
  \/ \E miner \in Miner : \/ pow_start_new_blockchain(miner)
                            \/ pow_connect_to_blockchain(miner)
  \/ pow_stop_peer \/ pow_add_transaction

poa_Requests ==
  \/ poa_start_new_blockchain \/ poa_connect_to_blockchain
  \/ poa_stop_peer \/ poa_add_transaction

pos_Requests ==
  \/ pos_start_new_blockchain \/ pos_connect_to_blockchain
  \/ pos_stop_peer \/ pos_add_transaction \/ stake

Requests == pow_Requests \/ poa_Requests \/ pos_Requests \/ shutdown_peer

Messages(p) ==
  \E link \in peers[p].links :
    \/ \E tx \in heard[peers[p].kind] : HandleNewTx(p, link, tx)
    \/ \E block \in Range(outside[peers[p].kind]) : HandleNewBlock(p, link, block)
    \/ HandleChain(p, link)
    \/ HandleChainRequest(p, link)

Connects(p) == discover_peers(p) \/ connect_to_peer(p) \/ handle_connections(p)
pow_mine_blocks(p) == pow_StartMining(p) \/ pow_FinishMining(p)

Tasks(p) ==
  \/ Connects(p)
  \/ find_longest_chain(p)
  \/ pow_mine_blocks(p) \/ poa_mine_blocks(p)
  \/ pos_create_blocks(p)

Next ==
  \/ Requests
  \/ FinishStop
  \/ \E p \in DOMAIN peers : Messages(p) \/ Tasks(p)
  \/ \E k \in Kind : OutsideSends(k) \/ OutsideMakesBlock(k)

Spec == Init /\ [][Next]_vars

Is(p) == p \in DOMAIN peers

(***************************************************************************)
(* Handlers end, so that wait_closed returns; tasks run; what was sent     *)
(* comes; the peer elsewhere discovers peers too.  Nobody makes a request  *)
(* or a block elsewhere.                                                   *)
(***************************************************************************)
Fairness ==
  /\ WF_vars(FinishStop)
  /\ \A p \in 1..MaxStarts :
       /\ WF_vars(Is(p) /\ Connects(p))
       /\ WF_vars(Is(p) /\ find_longest_chain(p))
       /\ WF_vars(Is(p) /\ (pow_mine_blocks(p) \/ poa_mine_blocks(p)))
       /\ WF_vars(Is(p) /\ \E link \in peers[p].links : HandleChain(p, link))
       /\ WF_vars(Is(p) /\ \E link \in peers[p].links : HandleChainRequest(p, link))

FairSpec == Spec /\ Fairness

-----------------------------------------------------------------------------
(***************************************************************************)
(* A peer's fields fit each other: only an open server has connections it  *)
(* accepted, only a running mining task has a candidate, and what the      *)
(* controllers call running is a peer of that kind.                        *)
(***************************************************************************)
TypeOK ==
  /\ consensus \in Kind \cup {"", "pow"}
  /\ peers \in Seq(Peer)
  /\ instance \in [Kind -> Seq(Block)] /\ outside \in [Kind -> Seq(Block)]
  /\ heard \in [Kind -> SUBSET Tx]
  /\ \A p \in DOMAIN peers :
       /\ "in" \in peers[p].links => peers[p].server \in {"open", "closing"}
       /\ peers[p].candidate # None => "mine" \in peers[p].tasks
       /\ peers[p].asked => Linked(p)
  /\ \A k \in Kind : running[k] # 0 => running[k] \in DOMAIN peers /\ peers[running[k]].kind = k

(***************************************************************************)
(* No transaction is twice in the chain that a stopped peer, whose         *)
(* handlers still run over the connections it opened, and the peer that    *)
(* was started after it share, each mining from a pool of its own.         *)
(***************************************************************************)
NoDuplicateTx ==
  \A k \in Kind : \A i, j \in DOMAIN instance[k] :
    \A m \in DOMAIN instance[k][i].transactions, n \in DOMAIN instance[k][j].transactions :
      instance[k][i].transactions[m].id = instance[k][j].transactions[n].id => i = j /\ m = n

(***************************************************************************)
(* Whatever is started, stopped and connected, the process never trades    *)
(* the chain of a kind for one that is not longer.                         *)
(***************************************************************************)
ChainKept ==
  [][\A k \in Kind : instance'[k] # instance[k] => Len(instance'[k]) > Len(instance[k])]_vars

(***************************************************************************)
(* A server that is open is the running peer's: stop_peer and shutdown_peer*)
(* leave none behind that nobody can stop any more.                        *)
(***************************************************************************)
ServersAnswered ==
  \A p \in DOMAIN peers :
    peers[p].server \in {"open", "closing"} => running[peers[p].kind] = p

Runs(p) == Is(p) /\ running[peers[p].kind] = p /\ "find" \in peers[p].tasks

Mines(p) == Runs(p) /\ peers[p].miner /\ peers[p].kind # "pos"

Holds(p, id) == \E i \in DOMAIN peers[p].mem_pool : peers[p].mem_pool[i].id = id

InInstance(k, id) == \E i \in DOMAIN instance[k] : \E m \in DOMAIN instance[k][i].transactions :
                       instance[k][i].transactions[m].id = id

Unpayable(p) == \E i \in DOMAIN peers[p].mem_pool :
                  ~ Affords(instance[peers[p].kind], peers[p].mem_pool[i], << >>)

(***************************************************************************)
(* A transaction in the pool of a running miner gets into the chain, though*)
(* blocks and chains from elsewhere cancel its mining and a stopped peer   *)
(* mines into the same chain; unless that has become a chain on which a    *)
(* transaction in the pool is not covered: the miner then builds the same  *)
(* refused candidate for ever.                                             *)
(***************************************************************************)
Confirms ==
  \A p \in 1..MaxStarts : \A id \in 1..MaxTxs :
    (Mines(p) /\ Holds(p, id))
      ~> (~ Mines(p) \/ InInstance(peers[p].kind, id) \/ Unpayable(p))

(***************************************************************************)
(* A pow or pos peer that runs and is connected comes to a chain as long as*)
(* the one elsewhere, though its first answers may be lost with a          *)
(* connection and the process may hold a chain of an earlier peer.         *)
(***************************************************************************)
CatchUp ==
  \A p \in 1..MaxStarts : \A len \in 1..(MaxBlocks + 1) :
    (Runs(p) /\ Linked(p) /\ peers[p].kind # "poa" /\ Len(outside[peers[p].kind]) >= len)
      ~> (~ Runs(p) \/ Len(instance[peers[p].kind]) >= len)

(***************************************************************************)
(* And the peer elsewhere to one as long as the host's, as long as it is   *)
(* connected to a pow peer that has a chain object.                        *)
(***************************************************************************)
Shares ==
  \A p \in 1..MaxStarts : \A len \in 1..(MaxBlocks + 1) :
    (Runs(p) /\ Linked(p) /\ peers[p].kind = "pow" /\ peers[p].chain # "None"
       /\ Len(instance["pow"]) >= len)
      ~> (~ Runs(p) \/ Len(outside["pow"]) >= len)

(***************************************************************************)
(* What the answer to /api/pow/stop says, "Peer Stopped Successfully": a    *)
(* peer that was stopped does nothing any more.                            *)
(***************************************************************************)
StoppedQuiet ==
  \A p \in DOMAIN peers : running[peers[p].kind] # p => peers[p].tasks = {}

=============================================================================
