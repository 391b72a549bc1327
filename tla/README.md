# Verification of BlockChain_Prototype

TLA+ modules, TLC runs and TLAPS proofs about the blockchain in `src/`: peers that
gossip over websockets and agree on a chain by proof of work, proof of stake or
proof of authority, and the web application that runs such peers on request.

Contents: [1 the system](#1-the-system), [2 the plan](#2-the-plan),
[3 modules and code](#3-modules-and-code), [4 the runs](#4-the-runs),
[5 bounds and fairness](#5-bounds-and-fairness), [6 the proofs](#6-the-proofs),
[7 where the code disagrees with its documentation](#7-where-the-code-disagrees-with-its-documentation),
[8 not modelled](#8-not-modelled).

To repeat everything, in this directory:

    tlc -workers 2 -config pow_race.cfg MCPowNetwork      # one run of section 4
    tlapm PowNetworkProofs.tla                            # one module of section 6

## 1 The system

A peer is one Python process with one asyncio event loop. It serves websockets
and connects to other peers, over either kind of socket it sends and handles the
same JSON messages, and it keeps the chain in a singleton (`Chain.instance`).
`consensus/pow`, `consensus/pos` and `consensus/poa` each hold a complete program;
`webApp/blockchain/` holds near copies without the text menu, driven by Flask
routes. Each consensus also comes with `mal_node.py`, a copy with a menu for
sending invalid messages.

| component | code | state | operations |
|---|---|---|---|
| PoW ledger | `pow/blockchain_structures.py` | `Chain.instance.chain` | `calc_balance`, `isValidBlock`, `isvalidChain`, `rewrite`, `valid_chain_length` |
| PoW peer | `pow/p2p.py` | `mem_pool` and its lock, `seen_message_ids`, `mine_task`, sockets | handlers `new_tx`, `new_block`, `chain_request`, `chain`; `mine_blocks`, `find_longest_chain`, the menu |
| discovery, naming | `*/p2p.py` | `known_peers`, `outbound_peers`, `got_pong`, `have_sent_peer_info`, name dictionaries | handlers `ping`, `pong`, `peer_info`, `known_peers`, `add_peer`, `new_peer`, `change_name`; `discover_peers`, `gossip_peer_sampler` |
| PoA ledger | `poa/blockchain_structures.py` | the chain, each block with its miner and `miners_list` | as PoW, and the miner's signature |
| PoA peer | `poa/p2p.py` | `miners` (scheduled lists), `round`, `round_task`, `miner`, `miner_task`, `admin_id` | `get_current_miners_list`, `round_calculator`, `update_role`, `mine_blocks`, handlers `miners_list_update`, `network_details`, `new_block` |
| PoS ledger | `pos/blockchain_structures.py` | the chain, `is_valid` and `slash_creator` of each block | as PoW, stakes, `epoch_seed`, `checkEquivalence`, `weight_of_chain` |
| PoS peer | `pos/p2p.py` | `current_stakes`, `current_stakers`, `staked_amt`, `last_epoch_end_ts` | handlers `stake_announcement`, `new_block`, `chain`, `slash_announcement`; `create_blocks`, `restart_epoch` |
| contracts | `smart_contract/`, `*/p2p.py` | `contractsDB`; a contract's state is the one in its last `invoke` transaction | `deploy_contract`, `run_contract`, `SecureContractExecutor` |
| file records | `ipfs/`, `*/p2p.py` | `file_hashes`, `files` of each block | `uploadFile`, handler `file` |
| storage | `storage/storage_manager.py` | JSON files of a peer's key, id, chain and peers | `save_*`, `load_*` |
| webApp | `webApp/` | one `peer_instance` per kind, `consensus`, one chain per kind and process | start, connect, stop, shut down, send, stake |

How they interact: messages flood. A handler that accepts a transaction or a block
sends it on over every socket, the one it came over included, and
`seen_message_ids` stops it. Mining, user and handlers of one peer share the chain,
the pool and the pool's lock. A peer that starts, or that fell behind, gets chains
by asking (`chain_request`, every 60 s).

What is hard: one event loop is still many coroutines. The proof of work runs in a
thread and holds the pool's lock through it, and meanwhile handlers replace the
chain under it; a handler that wants the lock waits in line with decisions it made
before; forks and reorganisations; a cancelled mining task; sockets that close
with messages unread; timers of several peers (PoS epochs, PoA rounds); restarts
that meet what others remember; a peer that is stopped while it works. The hazards
are listed in `PROJECT.json` at the lines where they bite, with the properties that
cover each, or the reason why none does.

What makes each component correct:

- *ledgers*: chains are linked to genesis, no transaction is confirmed twice, no
  account spends more than it has, a confirmed block stays confirmed.
- *PoW peer*: what peers hold of each other's chains agrees up to a fork; chains
  only grow; pools hold what is pending, once; everybody catches up; a transaction
  that was created is eventually in the chain.
- *discovery*: everybody comes to know everybody, under different names and with
  the identities they have now, and gets a chain.
- *PoA peer*: at any height and round at most one miner is expected, and honest
  peers expect the same one; what is pending is mined though a miner quits.
- *PoS peer*: what a peer staked counts in its draw; epochs go on; exactly who
  signed two blocks is slashed.
- *contracts*: what is invoked was deployed before; states form one chain.
- *file records*: a file that was announced is recorded, and once by each miner.
- *web application*: what answers under a port is the peer the user sees; its chain
  is never given up for a shorter one.

## 2 The plan

The order in which the modules were written, the most important behaviour first.

1. `Confirmations`, `Transfers`, `PowLedger`: balances, validity and the sweep of the
   pool as operators on chains, without recursion, so that they can be proved about.
2. `ChainReplica`: what peers promise about their copies of the chain (abstract).
   `PowNetwork`: the peers of `pow/p2p.py`, which implement it; `PowClaims`.
3. The proofs of section 6.
4. `PoaLedger`, `PoaNetwork`: turns, rounds, roles, updates, newcomers.
5. `PosLedger`, `PosNetwork`: stakes, epochs, draws, chains by weight, slashing, and
   the peer that signs two blocks.
6. `PeerDirectory`: handshake, names, timers that exchange connections, restarts.
7. `WebHost`: one process that starts and stops peers of three kinds.
8. `Records`: contracts and files, on top of `PowNetwork`.
9. Proofs about every component (section 6): all safety invariants and safety action
   properties of the runs are theorems.
10. Left: PoA's and PoS's own contracts and files; the handshakes of `pow` and `pos` apart
    from `poa`'s; `SolventWhileConfirmed` as a theorem.

## 3 Modules and code

| module | models | checked by |
|---|---|---|
| `Confirmations` | `valid_chain_length` of PoW and PoS | the PoW and PoS runs |
| `Transfers` | what the programs share word for word: transfers, `rewrite`, the sweep of a pool | all but `chain_replica`, `peer_directory` |
| `PowLedger` | `pow/blockchain_structures.py` on values: transactions, blocks, chains | `pow_*`, `records` |
| `ChainReplica` | the promise of the peers about their chains | `chain_replica`; `ReplicaSpec` in `pow_race`, `poa_rounds`; `ReplicaSteps` in `pos_epochs` |
| `PowNetwork` | the peers of `pow/p2p.py` | `pow_*`, `records` |
| `PowClaims` | statements of comments and docstrings about PoW | section 7 |
| `PoaLedger`, `PoaNetwork` | `poa/blockchain_structures.py` and the schedule of miners; the peers of `poa/p2p.py` | `poa_*` |
| `PosLedger`, `PosNetwork` | `pos/blockchain_structures.py`; the peers of `pos/p2p.py` and `pos/mal_node.py` | `pos_*` |
| `PeerDirectory` | handshake, directory and storage of `poa/p2p.py` | `peer_directory` |
| `WebHost` | `webApp/`: the controllers and what is different in their peers | `web_host`, `web_pow.cfg` |
| `Records` | contracts and files of `pow/p2p.py` | `records`, `records_race.cfg`, `records_catchup.cfg` |
| `MC*` | instances for TLC: connection graphs, bounds | |
| `LeastNumber` | arithmetic lemmas: least elements, recursive functions on Nat | proofs |
| `LedgerProofs`, `ChainReplicaProofs`, `PowNetworkProofs` (`Records` too), `PoaNetworkProofs`, `PosNetworkProofs`, `PeerDirectoryProofs`, `WebHostProofs` | theorems | section 6 |

`PROJECT.json` gives the lines each definition stands for. The correspondence:

**Steps.** A coroutine of asyncio runs until an `await` that really waits. In
`pow/p2p.py` these are reading a socket, the sleeps of timers, the proof of work
(`asyncio.to_thread(mine)`) and `async with self.mem_pool_condition`. An action of
`PowNetwork` is the code between two such points, with everything it calls.
A handler that finds the lock taken is two steps: its first part, then `Resume`,
which gives the lock to the first in line (`waiting`, asyncio's queue).
`mem_pool_condition` is only ever used as a lock. `websocket.send` does not wait
for the receiver and is part of the step that sends. A handler reads no further
message of its socket before it is done (`Reads`).

**Data.** A block's hash is its index in `minted`: two blocks never have the same
hash (nonces, ids, timestamps and SHA-256 are left out). `over_the_wire` is what
`to_dict` and `block_dict_to_block` make of a block. Signatures verify, since every
message here is signed by its sender. A pool that is swept "by a loop that removes
from the list it iterates over" is the fold `Visit`: removing an element moves the
next one to the index just done, so it is skipped and stays. Chains received are the
answers of other peers, never invented.

Operators marked `mutant` next to a definition are that definition with a bug one
could write. They are used by no specification: each shows that the property paired
with it in `PROJECT.json` fails when the code is wrong in that way.

### PowNetwork

| variable | code |
|---|---|
| `chain` | `Chain.instance.chain`; `<< >>`: no instance yet |
| `mem_pool`, `seen` | `mem_pool`, `seen_message_ids` |
| `mine_task`, `live` | the task in `self.mine_task`, and all `mine_blocks` tasks not yet cancelled: two handlers in line for the lock start two |
| `mining` | the candidate whose proof of work is looked for, and its task, which holds the lock |
| `waiting` | the lock's queue |
| `inbox`, `up` | messages on each socket for each end, and the sockets that are open |
| `minted`, `created`, `drops` | history: blocks made, transactions created, sockets lost |

| action | code |
|---|---|
| `create_and_broadcast_tx` | menu choice 1 and the function of that name |
| `HandleNewTx`, `HandleNewBlock`, `HandleChainRequest`, `HandleChain` | branches of `handle_messages` |
| `MinerWakes`, `MiningEnds`, `MiningCancelled` | `mine_blocks` up to the thread, after it, and the cancellation |
| `Resume` | what follows `async with self.mem_pool_condition` |
| `find_longest_chain` | the timer of that name |
| `Disconnect`, `connect_to_peer` | `gossip_peer_sampler` or the network; `discover_peers` |

### PoaNetwork

No block takes work, so nothing holds the pool's lock across an await that really
waits, and there is neither a queue nor a parked handler. A step is the code between
two readings of a socket or two sleeps. `await self.round_task` after its
cancellation returns in the next turn of the event loop and is part of its step; if
two steps restarted the timer in that turn there would be two of them counting, which
shows in nothing but rounds that shift earlier, and `ShiftMiner` may come at any time.

| variable | code |
|---|---|
| `chain`, `mem_pool`, `seen`, `inbox`, `up` | as above |
| `admin_id`, `miners` | `admin_id`, `miners` (the scheduled lists) |
| `round`, `waited` | `round`, and whether `round_calculator` found the pool not empty and is in its 80 s |
| `miner`, `miner_task` | `miner`, `miner_task`; a task is named after the block that started it |
| `live`, `late` | `mine_blocks` tasks that have not ended; those in the 15 s sleep, with the list they read before it |
| `running` | peers that have not quit |
| `minted`, `created`, `scheduled`, `drops` | history: blocks, transactions, lists of the admin, lost sockets |

| action | code |
|---|---|
| `HandleNewTx`, `HandleNewBlock`, `HandleMinersListUpdate`, `HandleDetailsRequest`, `HandleDetails`, `HandleChainRequest`, `HandleChain` | branches of `handle_messages` |
| `MinerWakes`, `LateMinerWakes` | `mine_blocks` up to its second sleep, and from there (`MineBlock`) |
| `StartWaiting`, `ShiftMiner` | `round_calculator` |
| `user_input_handler`, `create_and_broadcast_tx` | menu choices 8 and 9; choice 1 |
| `find_longest_chain`, `Disconnect`, `connect_to_peer` | as above |
| `Stop` | menu choice 0: what `start` does after `await inp_task` |

`AfterBlock` is what both the handler and the miner do after appending: timer,
schedule, role. `update_role` is told which task calls it, because a task that
cancels itself goes on. A run may begin with the first block (`Joined = {Founder}`)
or at a later quiet moment with several miners, the chain so far cut to one block.
Left out: awaiting a mining task that has died of an empty list re-raises its
exception.

### PosNetwork

Time passes in units of ten seconds (`Tick`) and only differences are kept: `age` is
how long ago a peer's last epoch ended, `tasks`, `restart_in` and `request_in` how
long its timers still run, `since` how long ago a block was made. A timer that is due
runs before time goes on. Clocks agree: the code compares timestamps of
different peers and has no allowance.

| variable | code |
|---|---|
| `current_stakes`, `current_stakers`, `staked_amt` | the fields of those names |
| `asked` | the menu has asked for the amount of a stake, and what it had measured before |
| `tasks` | `create_blocks` tasks that sleep until the epoch ends |
| `count` | history: transactions, stakes, draws won, slashings announced |

| action | code |
|---|---|
| `OpenStake`, `SubmitStake` | menu choice 9 before and after the user answers |
| `HandleStake`, `HandleNewBlock`, `HandleChain`, `HandleSlash`, .. | branches of `handle_messages` |
| `create_blocks` | what is left of the function after its sleep; `WinBlock`, and `DoubleSign` of `mal_node.py` |
| `restart_epoch`, `find_longest_chain` | the timers |

`create_blocks` draws by a verifiable random function; a draw is won with an output
below a share of `MAX_OUTPUT` that grows with the stake, and here the output is any
number. `over_the_wire` models that a stake loses its signature in a block, so that
receivers drop all stakes but those they have heard themselves. The winner appends its
block without asking `isValidBlock`. Peers in `Faulty` run `mal_node.py`: it
sends one block to half of its sockets and another to the rest, checks no amounts and
keeps older rules for blocks and chains.

### PeerDirectory

Endpoints are the elements of `Node`; an identity (key and node id) is a number made
at a start without saved ones. A name is what the user entered and the numbers
`get_unique_name` has put after it. `connecting`, `sampling` and `up` are what
`connect_to_peer`, `gossip_peer_sampler` and the sockets are doing.

| action | code |
|---|---|
| `HandlePing` .. `HandleChain` | the handshake's branches of `handle_messages`, and those by which a newcomer gets details and chain |
| `connect_to_peer`, `discover_peers` | the functions of those names, up to and after the websocket is there |
| `SamplerDrops`, `SamplerConnects` | the two halves of `gossip_peer_sampler` |
| `Stop`, `start` | a process that ends, in whatever state; `Peer(...)` and `start` with what the disk holds |

It is written from `poa/p2p.py`. The handshakes of `pow` and `pos` are the same without
node ids and details.

### WebHost

One process, three kinds of peers, one request at a time (`WsgiToAsgi` runs async views
one after the other), each of which may await and let the peers go on. `Chain` is a
class with one instance per kind and process, so it outlives the peers (`instance`);
a peer has its own object (`chain`), which is a blank one when the class had an
instance already. The rest of a network is one peer elsewhere. What the three copies do
differently has a definition each, named `pow_`, `poa_`, `pos_`.

### Records

Each action is one of `PowNetwork` with what the same code does to `contractsDB` and
`file_hashes`, or a refusal before it. `payload` and `files` are what transactions and
blocks carry besides coins. A contract counts its invocations; `get_contract_state`
and the judgement of invocations are the code's. Facts the model keeps:

- a miner does not run its own block's invocations again; two on the same state end up
  in one block, which others refuse and later adopt as a chain;
- an invocation of a contract a peer has not deployed raises and closes the connection;
- a chain that is adopted deploys nothing and runs nothing; a reorganisation leaves
  deployments that are in no chain any more, and loses files;
- neither the handler of `file` nor `mine_blocks` looks in the chain, and a first chain
  leaves the dictionary as it is: a file that a block overtakes on another way round, or
  that a newcomer announces before it has a chain, stays in the dictionary beside the
  chain (`overtaken`) and is recorded a second time by another miner;
- an upload of a file that is not there returns `None`, and the menu broadcasts it:
  `null` makes the receivers' handlers raise and closes their connections.

## 4 The runs

| run | instance | shows |
|---|---|---|
| `chain_replica` | 3 peers, 3 blocks after genesis | `PrefixAgreement`, `ChainsGrow` for every fork and adoption |
| `pow_race` | 2 miners, 2 transactions, 3 blocks, 1 lost socket | the peers implement `ChainReplica` (`ReplicaSpec`); `NoDuplicateTx`; `PoolHasNoCopies`; `CandidateFromPool` |
| `pow_live` | 1 miner, 2 transactions of 25, 3 blocks, 1 lost socket | `CatchUp` after a loss; `Settled`: without one each transaction ends up in every chain |
| `poa_rounds` | 2 miners, 2 transactions of 30, 3 blocks, rounds 0 to 2 | with both making blocks at one height and chains exchanged, the peers implement `ChainReplica`; `Solvent` |
| `poa_handover` | 2 miners, 1 transaction, 1 peer that quits, 1 lost socket | `HandedOver`: what a running peer has in its pool ends up in its chain |
| `poa_updates` | the admin and a newcomer, 4 transactions of 35, 4 blocks, 1 update | `NoFork`; `ScheduleKept`: the new list is carried from exactly the block it was scheduled for; `ScheduleAgrees`: a newcomer ends up with the admin's schedule |
| `pos_epochs` | 2 stakers, 3 transactions, 3 stakes, 2 blocks | `StakeCounted`, `NoDuplicateTx`, `ReplicaSteps` |
| `pos_slashing` | a peer and a double signer, 2 transactions, 1 draw won | `DoubleSignerSlashed`, `OnlyDoubleSignersSlashed`, `CatchUp`, `EpochReopens` |
| `peer_directory` | a founder, two that join under its name, one of them stops and comes back | `EntriesCurrent`, `NamesDiffer`, `SavedPeers`, `EveryoneMeets`, `Joins` |
| `web_host` | 2 starts among 3 kinds on one port, 1 transaction, 1 block elsewhere | `ServersAnswered`, `ChainKept`, `NoDuplicateTx` |
| `records` | 2 miners, a contract, its invocation, 1 file, 2 blocks | `FilesKept`, `FilesLetGo`, `RecordedOnce`, `DeployedFirst` |
| `claim_double_spend` | | violated: section 7 |

`NoDuplicateTx` is worth its runs because nothing in the code states it:
`isvalidChain`'s own test for duplicates never fires (its helper returns `False` or
`None`), pools keep transactions that are in the chain already, and blocks are made
from pools. It holds because `mine_blocks` and `isValidBlock` test again.
`PoolHasNoCopies` likewise rests on `seen_message_ids` alone: `new_tx` looks at the
chain, never at the pool.

`ScheduleKept` and `NoFork` rest on a margin, not on an agreement: a list is used three
blocks after it was broadcast, and the admin makes one of those blocks itself, so
over one ordered socket its update is there before. With the admin as the only miner at
first, one update at most and no shifted round they hold for any connections and losses
(proved): a peer that missed the list goes on expecting the admin, who has it.
`ScheduleAgrees` also needs that everybody is connected with the admin directly,
newcomers with nobody else, and that nobody stops. With an admin that is not in the list,
a second update or shifted rounds, a peer can pass the height without the update, and then
the list carried in its block undoes it (nobody compares a block's `miners_list` with the
schedule).

`FilesKept` and `DeployedFirst` are claimed while no two blocks compete (`Unforked`): with
three blocks a reorganisation loses records, and the database of contracts keeps what the
new chain lacks. `FilesLetGo` and `RecordedOnce` are claimed for every fork. That a chain
records a file once, whoever the miners are, is not true of the code: two miners record
one when it is `overtaken`, and also when a chain's handler stands in the lock's line
behind a mining task that copies the dictionary first (`MiningRound` before `Resume`).
Files are uploaded once here; the code puts one that is uploaded again into the
dictionary again.

More configurations, each within minutes, for what the runs above leave to one case:

| configuration | module | shows |
|---|---|---|
| `pow_catchup.cfg` | `MCPowNetwork` | `CatchUp` with two miners, forks and one lost socket |
| `pow_settled.cfg` | `MCPowNetwork` | `Settled` with three transactions; `SolventWhileConfirmed`: up to four blocks nobody is overdrawn |
| `records_race.cfg` | `MCRecords` | the properties of `records` with three blocks, a fork and one lost socket |
| `records_catchup.cfg` | `MCRecords` | `CatchUp` with contracts, slow executions and failed uploads |
| `web_pow.cfg` | `MCWebHost` | `Confirms`, `CatchUp`, `Shares`: liveness of the copy for the web application |

## 5 Bounds and fairness

`MaxTxs`, `MaxBlocks`, `MaxDrops` and their like bound how often users act, blocks
are made and sockets lost; they are guards named where they apply.
`find_longest_chain` asks over a socket only while no answer is due there, which bounds
the requests in flight: a repeated request would get the same or a longer chain. A copy
that its receiver would drop as seen is not queued.

Why these are enough: a fork takes two blocks on the same parent, a reorganisation
that loses a block three (two against one), and a second displaced one needs the
third. Two transactions are the least for the loop that skips; three let one be
created between the others' blocks. One lost socket lets either end miss any suffix of
what was on the way. Four blocks are the most that are all confirmed
(`valid_chain_length`), hence `MaxBlocks = 3` in `pow_settled.cfg`; five show what
happens then (`claim_double_spend`).

In PoA a list is first used for the fourth block after it was scheduled
(`poa_updates`: four blocks). Rounds are counted 0, 1, .., `Turns`, 1, ..: with two
miners only whether a round is 0 and its parity matter, and `Turns = 2` keeps both. With
`Turns = 0` no round is shifted. `HandedOver` holds vacuously once `MaxBlocks` blocks
were made; with one transaction at most two are.

In PoS `EPOCH_TIME` is six units. Two draws are won within an epoch or in two
(`pos_epochs`), the second may overtake the first's block; with an opening block both
peers have coins to stake. `Late` names the messages that may cross a tick, `Slow` the
users that may answer late.

In `PeerDirectory` timers run only while no message is under way (`Hasty = FALSE`): they
sleep 30 and 60 seconds. There is one websocket per ordered pair, and a peer asks for
chains only while it has none. With `Hasty = TRUE` two peers can be announced before
either announcement is read, and `NamesDiffer` fails at third parties: a newcomer that has
heard of another may dial it before the founder has read its `add_peer`, and is then
announced under a name the founder never compared.

In `WebHost` two starts are the least for a second peer over a stopped one's chain; one
transaction and one block elsewhere let either side be ahead. Chains stay within four
blocks, all of them confirmed, and only the founder's grant is ever spent. In `Records`
coins never bind; one deployment, two invocations and one file meet three blocks.

Deadlock is not checked in these runs: when the bounds are used up and every message
is read, the bounded system rests. The system itself never does (its timers go on).

Fairness (`Fairness` in `PowNetwork`): weak, for each peer, of `MiningEnds`,
`MiningCancelled`, `Resume`, `find_longest_chain` and each task's `MinerWakes`, for each
socket and end of `HandleMessage`, and for each socket of `connect_to_peer`. The
event loop runs every coroutine that can run and asyncio's lock is first come first
served; sleeps end; a search for a nonce ends; `discover_peers` connects to every known
peer it is not connected to every 30 s, and there are fewer peers than
`MAX_CONNECTIONS`. A per-socket `WF` is justified because each socket's reader is a
coroutine of its own. Nothing obliges the user to act or a socket to fail.

In `PoaNetwork` likewise: weak for each peer's timers and each socket, strong for
`MinerWakes`. A round lasts 80 s (90 s with the wait for a pool) and a mining task looks
every 30 s whether it is its turn, so it cannot miss its turn in every round, which weak
fairness would allow. A peer that quit has no actions. Nothing obliges the admin to act.

In `PosNetwork` time passes, timers run and messages are read (weak); a user who was
asked answers, unless in `Slow`. In `PeerDirectory` also strong fairness for the pairs
in `Sought`: the timers pick a peer at random, so one that can be picked again and
again is picked. In `WebHost` weak for the tasks of peers, chains that were asked for
and the end of a request; nobody need make a request.

The liveness properties fail without it, as they should. `Settled` assumes one
miner and no loss: with two, a reorganisation drops transactions for good.

## 6 The proofs

Checked by tlapm for every value of the constants that satisfies the modules' named
assumptions, `NetworkAssumption`, `PoaAssumption`, `LedgerAssumption`,
`OutputAssumption`, `ReplicaAssumption`, `DirectoryAssumption`, `RecordsAssumption` and
`WebAssumption`: any peers (in `PosNetwork` finitely many, since balances add up over them,
and in `PeerDirectory`, where a free suffix must exist), connections between different
peers, positive amounts, any bounds, `None` no number, lower-casing total and idempotent.

Some theorems assume more, because their property is not true otherwise; the runs'
constants satisfy each of these:

| theorem | assumes | otherwise |
|---|---|---|
| `PosReplicaSteps` | nobody deviates (`Faulty = {}`) | a double signer makes two blocks in one step |
| `PoaNoFork`, `PoaScheduleKept` | `OneSchedule`: no shifted rounds, one update at most, then with the admin as the first list | two peers count rounds differently; section 4 |
| `PoaScheduleAgrees` | `Starlike`: `OneSchedule`, everybody connected with the admin, newcomers with nobody else, nobody stops | an update may be lost with who should have passed it on |
| `DirectoryEntriesCurrent` | `SavedIdentities`: who may stop saves its identity and loads it | entries are never replaced, so they stay stale |
| `DirectoryNamesDiffer` | `Hasty = FALSE`, the founder's name in lower case | section 5; the founder compares its own name as entered |

| run property | theorem |
|---|---|
| `ChainReplica`: `TypeOK`, `PrefixAgreement`, `ChainsGrow` | `ReplicaTypeOK`, `ReplicaAgreement`, `ReplicaGrowth` |
| `PowNetwork`: `TypeOK`, `CandidateFromPool`, `PoolHasNoCopies`, `NoDuplicateTx`, `ReplicaSpec` | `NetworkTypeOK`, `NetworkCandidate`, `NetworkPoolHasNoCopies`, `NetworkNoDuplicateTx`, `NetworkImplementsReplica` |
| `Records`: `FilesKept`, `FilesLetGo`, `RecordedOnce`, `DeployedFirst` | `RecordsFilesKept`, `RecordsFilesLetGo`, `RecordsRecordedOnce`, `RecordsDeployedFirst` |
| `PoaNetwork`: `TypeOK`, `Solvent`, `ReplicaSpec`, `NoFork`, `ScheduleKept`, `ScheduleAgrees` | `PoaTypeOK`, `PoaSolvent`, `PoaImplementsReplica`, `PoaNoFork`, `PoaScheduleKept`, `PoaScheduleAgrees` |
| `PosNetwork`: `TypeOK`, `StakeCounted`, `NoDuplicateTx`, `OnlyDoubleSignersSlashed`, `ReplicaSteps` | `PosTypeOK`, `PosStakeCounted`, `PosNoDuplicateTx`, `PosOnlyDoubleSignersSlashed`, `PosReplicaSteps` |
| `PeerDirectory`: `TypeOK`, `EntriesCurrent`, `SavedPeers`, `NamesDiffer` | `DirectoryTypeOK`, `DirectoryEntriesCurrent`, `DirectorySavedPeers`, `DirectoryNamesDiffer` |
| `WebHost`: `TypeOK`, `ServersAnswered`, `NoDuplicateTx`, `ChainKept` | `WebTypeOK`, `WebServersAnswered`, `WebNoDuplicateTx`, `WebChainKept` |

Each part proves one invariant with a lemma per action (one case per branch of its
handler), and the theorems from it.

- `ChainReplicaProofs`. `PrefixAgreement` is not inductive by itself, since
  nothing in it says what a block's hash determines. The invariant `ReplicaInv` adds that
  chains are linked to genesis, that no two headers made have the same hash, and that genesis is the
  one without a parent; then equal hashes mean equal headers, hence equal parents,
  and so down to genesis (by contradiction with a least height, `LeastNumber`).
- `LedgerProofs`, what the others cite. The confirmed part grows with the chain and stays
  within it; a sweep keeps and takes only what is in the pool, in its order, without
  making copies; what removing in a loop leaves (`WithoutType`); blocks with ids of their
  own on top of a chain without duplicates leave it without (`ApartAppend`); sums over
  sequences step by step, over finite sets their existence and type; headers of chains.
- `PowNetworkProofs`. `TypeOK` alone is not
  inductive: a chain that is received is only known to be a sequence of blocks, and
  `chain[n][1]` must exist. The invariant `NetInv` says that every block in a chain,
  parked in `waiting` or in an `inbox` is one of `minted` but for its miner, that
  every chain starts with genesis, that `minted` is numbered in order, and that
  a peer without a chain has an empty pool, no candidate and nobody in line.
  *Refinement*: `Spec => ReplicaSpec`, with the
  mapping of `headers` (chains without transactions and miners) and the set of
  headers in `minted`. `MiningEnds` maps to `Mint` or a stutter, `HandleNewBlock` to `Accept`
  or a stutter, `HandleChain` to `Adopt` or a stutter, every other action to a stutter. It
  uses `NetInv` for what arrives: a block accepted is one that was made, a chain
  adopted starts with genesis. With `ReplicaAgreement` and `ReplicaGrowth` the
  agreement and growth of chains hold of the peers.
  *Pools*. Nothing in the code looks for a transaction in the pool before adding it,
  and the test for duplicates in `isvalidChain` never fires. That pools have no copies
  rests on the marks of messages seen, which are set before the lock is waited for:
  `Tidy` says that what is in a pool or parked for it was marked, and is there once in
  pool and line together. That marks are of ids already handed out (`SeenInv`) makes an own
  transaction new to its maker. `TxInv` ties it to the chains: there is a set `K` of
  transactions made, no two with one id, that holds all that is in pools, candidates,
  blocks and messages; blocks hold no id twice, and no two blocks of a chain share
  one. A block is put on a chain only after each of its ids was looked for in
  that chain (`isvalidBlock`), and a candidate is the part of a pool without copies.
  *Records*. `RecordsInv` is about the time before the first fork: while `Unforked`, the
  blocks made lie on one line and every chain is its beginning; whatever a peer has in its
  pool, line, candidate or database speaks of contracts deployed within its own chain's
  length; a block parked in line is in the chain already; what a miner has heard of is in
  its dictionary or in the files of its chain. A new block finds room in `files` because
  candidates are counted (`Allotted`). `FilesInv` holds through forks: what a miner has
  recorded it has heard of, and it is neither in its dictionary nor in its candidate's
  copy (`Spent`); what is in a dictionary and in the chain is `overtaken`, or is popped by
  a handler in line (`Awaited`), which is why `FilesLetGo` speaks of peers without one.
- `PoaNetworkProofs`. `NetInv` as for PoW, with late tasks, rounds, roles and updates.
  `ValidChainSolvent` is about the ledger alone: `isvalidChain` tests each transaction
  against the chain before its block less the sender's transactions before it
  in that block, and that is enough for no balance to be negative at any height,
  whoever is paid in the block. `PoaChainsValid` says that
  every chain any peer holds passes that test (own blocks included, which are
  tested before they are sent), whence `PoaSolvent`. `PoaImplementsReplica` carries the mapping of PoW over;
  it needs nothing about whose turn it was.
  `LineInv`, under `OneSchedule`: the i-th block made was made on the one before it, by
  the peer whose turn it was under the list for that height (`ListAt`), whose own chain was
  that long. A peer that finds it is its turn is right: it has the list, or it expects
  the admin, who has. Hence `PoaNoFork` and `PoaScheduleKept`. `StarInv`, under `Starlike`:
  while no connection is lost, a peer that is in has heard the list, or the update is on
  its way from the admin; a newcomer is still to ask, has an answer on its way or knows,
  and what its details lack comes after them. Hence `PoaScheduleAgrees`.
- `PosNetworkProofs`. `NetInv` holds for some set `K` of transactions with unique ids
  (`TxInv`) and some function `H` of heights (`Heights`), which exist in every state without being
  variables of the model. `PoolInv`: pools hold transactions that were seen, once each.
  `KnownStake`: a stake on the way in a `stake_announcement` was seen by its staker, so a
  peer never takes its own stake from a message, and `StakeCounted`, a part of `NetInv`,
  is kept.
  `Heights`: a block sits at the same height in every linked chain, and an honest
  peer makes at most one block per height, because it signs on top of its own chain, which
  never shrinks; so two blocks of one creator where two chains part, which
  is when a peer cries slash, are a double signer's. `Evidence`: the hashes in
  `slash_announcement` are blocks of `Faulty`. Balances are numbers because sums
  over finite sets are (`SetSumsType`). `PosReplicaSteps` assumes
  `Faulty = {}`, as `pos_epochs` does: a double signer makes two blocks in one step, which
  `ChainReplica` does not allow.
- `PeerDirectoryProofs`, one invariant per property. `TypeInv`: every identity in a
  directory or a message was given out by some start. `CurrentInv`: under
  `SavedIdentities` each is the one of the peer at its endpoint. `SavedInv`: whoever saves
  has what it knows in its file. `NamesInv` follows a newcomer from its dialling to its
  announcement: the names the founder has registered differ from each other and from its
  own, and whatever another peer knows or is told of was registered there first.
- `WebHostProofs`. `HostInv`: for a set `K` of transactions with unique ids, each pool
  holds only transactions of `K` that were seen, without repeats; the chains of a kind
  hold each once (id 0 in genesis alone); candidates come from pools; and a server that is
  open belongs to the peer that runs, at every point where `stop_peer` or `shutdown_peer`
  lets others go on. `WebChainKept` is an action property: no step trades the chain of a
  kind for one that is not longer.

Recursive sums and folds are recursive functions on `Nat` (`LeastNumber`'s
`RecursionExists` proves that the defining equations have a solution), since tlapm
does not reason about RECURSIVE operators.

Checked by TLC only:

- all liveness: with fairness and ENABLED it is beyond the prover;
- `SolventWhileConfirmed` of `PowNetwork` (`pow_settled.cfg`): chains of up to four blocks,
  all confirmed; beyond them a user can spend coins twice (`claim_double_spend.cfg`).

## 7 Where the code disagrees with its documentation

Each is a configuration in which TLC finds a violation; the trace is the demonstration.
The first is a run of `PROJECT.json`, the others can be run in the same way.

| configuration | module | property | what the code says, and what it does |
|---|---|---|---|
| `claim_double_spend.cfg` | `MCPowNetwork` | `NoDoubleSpend` | comment at `pow/blockchain_structures.py:240`, "to prevent double spending": `calc_balance` counts neither income nor spending of the last, unconfirmed blocks, so from five blocks on an honest user can spend coins twice |
| `claim_bootstrapped.cfg` | `MCPowNetwork` | `Bootstrapped` | docstring at `pow/blockchain_structures.py:108`, "we receive blockList from the bootstrap node": `to_dict` drops the miner (line 62), so `isvalidChain` refuses a chain on which a reward was spent, and a newcomer never gets one |
| `claim_removed_miner.cfg` | `MCPoaNetwork` | `RemovedMinerStops` | comment at `poa/p2p.py:343`, "# Stop mining": a miner that makes the block after which it is no longer listed cancels and awaits its own task; `update_role` swallows the `CancelledError` and the task goes on; listed again it starts a second one |
| `claim_pos_spacing.cfg` | `MCPosNetwork` | `BlocksSpaced` | comment at `pos/p2p.py:676`, "Blocks shouldn't come faster than the staking registration period": two staked in one epoch; the first one's block is refused (it carries the other's stake without its signature) and arrives as a chain, which clears no stakes; the other makes its block at once |
| `claim_admin.cfg` | `MCPeerDirectory` | `AdminKept` | `README.md:131`, "Admin can add or remove miners": a restarted peer answers a request for details before it has any, with `None`, and the answer replaces an established peer's admin (`poa/p2p.py:592`) |
| `claim_web_stopped.cfg` | `MCWebHost` | `StoppedQuiet` | answer at `pow_controllers.py:122`, "Peer Stopped Successfully": connections the peer opened itself stay, and a `new_block` over one starts mining again |
| `claim_invocable.cfg` | `MCRecords` | `Invocable` | `README.md:138`, "Users can also invoke the deployed contract": not on a peer that got the deployment with a whole chain |
| `claim_lost_update.cfg` | `MCRecords` | `InvokesCurrent` | the test at `pow/p2p.py:267`, "if state != payload[3]": two invocations on one state are mined in one block by the miner, who runs neither again |

Seen in the code while modelling, and part of the models, but without a property of its
own:

- loops that remove from the list they iterate over leave mined transactions in the
  pool (`Visit`); the `isvalidChain` test for duplicates never fires
  (`transaction_exists_in_block_list`);
- a reorganisation returns no transaction to any pool (`HandleChain`);
- a pool with a transaction that lost its cover is built into the same refused candidate
  for ever (`Unpayable`);
- removing the last PoA miner divides by zero, and no later list is ever due, since the
  chain no longer grows (`get_current_miners_list`, `MinerWakes`);
- a start with saved peers raises (`LoadRaises`; the README promises a reconnection);
- a name with capital letters raises in `change_name`, whose `del` looks for it as it
  was entered, and one peer's `change_name` can delete another's entry;
- a restarted peer that others remember gets no answer to `add_peer`; one that comes back
  without its saved identity leaves stale entries, which are never replaced;
- in the web application: `/api/stop` handles only pow and leaves the controllers'
  `peer_instance`; a pos connection sets `consensus` to pow; a start after a stop gets a
  blank `Chain` object, on which sending raises (poa's start itself does); a server whose
  port is taken is `None` and the answer still "success"; poa's `isvalidChain` raises on
  any chain with a transaction, so a newcomer never gets one; `create_blocks` of pos
  survives a stop; a second peer at an endpoint that is known is told of nobody.

## 8 Not modelled

- `mal_node.py` of pow and poa, and of pos all but the double signing and its older rules:
  copies of the peers whose menus send one invalid message each.
- PoS: the trimming of a chain by `slash_announcement` on evidence with one bad signature,
  which no peer here sends; disconnections, since chains are exchanged as in the others.
- Contracts and files of `poa` and `pos`: the same code as `pow`'s, on other chains.
- The execution of contract code in a restricted interpreter (`sandbox_runner.py`,
  `smart_contract.py`, `gas_meter.py`: Python itself), the IPFS daemon, downloads.
- `webApp`: the requests `add_miner` and `remove_miner` of poa (`PoaNetwork` models what
  they do to a network), contracts, files, requests that only read; loading from disk,
  where a saved key raises (`Wallet()` takes none). In `WebHost` rounds, epochs and
  slashing are choices, and balances are those of confirmed chains without rewards;
  that `webApp/blockchain/pos` makes confirmed blocks undecided again at lengths 5, 10, 25
  and 50 is therefore not in any model.
- Keys, signatures, hashes, JSON, the text menus' dialogue, logging; the command line
  (`start_peer.py`, no state) and the frontend.
