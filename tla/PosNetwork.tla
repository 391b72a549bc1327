---------------------------- MODULE PosNetwork ----------------------------
(***************************************************************************)
(* consensus/pos/p2p.py: peers that stake, draw, make blocks, exchange     *)
(* chains and slash; and the peer of consensus/pos/mal_node.py, which      *)
(* signs two blocks when it wins and sends amounts nobody checked.         *)
(*                                                                         *)
(* Every peer is one asyncio event loop; its locks are never held across   *)
(* an await that really waits, so a step is a whole handler, a whole round *)
(* of a timer, or what the menu does between two questions to the user.    *)
(*                                                                         *)
(* Time passes in units of ten seconds and only its differences are kept:  *)
(* how long ago a peer's last epoch ended, how long its timers still run,  *)
(* how long ago a block was made.  A timer that is due runs before time    *)
(* goes on; a message may take any time.  All peers' clocks agree.         *)
(*                                                                         *)
(* The trimming of a chain by slash_announcement needs evidence with one   *)
(* bad signature, which no peer here sends; it is left out.                *)
(***************************************************************************)
EXTENDS PosLedger, SequencesExt

CONSTANTS Node,       \* the running peers, named by their public keys
          Founder,    \* the one started without a bootstrap host
          Joined,     \* the ones that have the genesis block at the beginning
          Staker,     \* the ones started with staker=True
          Faulty,     \* the ones that run mal_node.py
          Conn,       \* websockets, <<client, server>>
          Start,      \* Start[n]: how long n has been running at the beginning
          Opening,    \* what the founder gave each other in a first block; 0: nothing
          Sender,     \* bound: peers whose users send coins
          Amount,     \* what a user may ask to send
          StakeAmount,\* what a user may ask to stake
          Slow,       \* bound: peers whose users may take time to answer a question
          Late,       \* bound: types of messages that may be read a unit of time later
          MaxTxs,     \* bound: transactions the users create
          MaxStakes,  \* bound: stakes the users announce
          MaxBlocks,  \* bound: draws that are won
          MaxSlashes  \* bound: slashings that are announced

ASSUME NetworkAssumption ==
  /\ Node \subseteq Account /\ IsFiniteSet(Node)
  /\ Founder \in Joined /\ Joined \subseteq Node
  /\ Staker \subseteq Node /\ Faulty \subseteq Node /\ Slow \subseteq Node
  /\ Sender \subseteq Node
  /\ Faulty # {} => Cardinality(Account) > 2   \* mal_node wins only if it knows two names
  /\ Conn \subseteq {c \in Node \X Node : c[1] # c[2]}
  /\ Start \in [Node -> 0..(EPOCH_TIME - 1)]
  /\ Opening \in Nat
  /\ Amount \subseteq Int /\ StakeAmount \subseteq Int
  /\ MaxTxs \in Nat /\ MaxStakes \in Nat /\ MaxBlocks \in Nat /\ MaxSlashes \in Nat

VARIABLES
  chain,          \* Chain.instance.chain, << >> while there is no instance
  mem_pool,
  seen,           \* seen_message_ids
  current_stakes, \* set of stakes
  current_stakers,\* staker -> amount; 0 where the code's dictionary has no key
  staked_amt,
  asked,          \* None, or time_since as it was when the menu asked for a stake
  age,            \* time since last_epoch_end_ts
  tasks,          \* create_blocks tasks: how long each still sleeps
  restart_in,     \* how long restart_epoch still sleeps
  request_in,     \* how long find_longest_chain still sleeps
  inbox,          \* inbox[c][n]: sent over c to n and not yet read
  up,             \* connections that are open
  minted,         \* history: every block made, in order
  since,          \* since[i]: how long ago minted[i] was made
  count           \* history: transactions, stakes, draws won, slashings

peer_vars == <<chain, mem_pool, seen>>
epoch_vars == <<current_stakes, current_stakers, staked_amt>>
timer_vars == <<age, tasks, restart_in, request_in>>
net_vars == <<inbox, up>>
block_vars == <<minted, since>>

vars == <<peer_vars, epoch_vars, asked, timer_vars, net_vars, block_vars, count>>

-----------------------------------------------------------------------------
Ends(c) == {c[1], c[2]}
Other(c, n) == IF c[1] = n THEN c[2] ELSE c[1]

Reset == (EPOCH_TIME * 7) \div 6   \* a longer epoch is started again
TooOld == EPOCH_TIME * 2           \* older blocks are refused
\* A block's age is counted no further than a reader of it can tell.
Oldest == IF "new_block" \in Late THEN TooOld + 1 ELSE Registration
Nobody == [pk \in Account |-> 0]

Capped(t, limit) == IF t < limit THEN t ELSE limit

Msg == [type : {"new_tx"}, transaction : Tx]
  \cup [type : {"stake_announcement"}, stake : Stake]
  \cup [type : {"new_block"}, block : Block]
  \cup [type : {"slash_announcement"}, id : Nat, pos : Nat, evidence : SUBSET Nat]
  \cup [type : {"chain_request"}]
  \cup [type : {"chain"}, chain : Seq(Block)]

MsgId(msg) ==
  CASE msg.type = "new_tx" -> <<"new_tx", msg.transaction.id>>
    [] msg.type = "stake_announcement" -> <<"stake", msg.stake.id>>
    [] msg.type = "new_block" -> <<"new_block", msg.block.hash>>
    [] msg.type = "slash_announcement" -> <<"slash", msg.id>>

\* Messages that were handled, or sent for the first time.
MarkSeen(n, msgs) == [seen EXCEPT ![n] = @ \cup {MsgId(msg) : msg \in msgs}]

\* The chain at the beginning: the genesis block and, with an Opening, a block the
\* founder made in an epoch it staked one coin in.
FirstBlock ==
  LET others == SetToSeq(Node \ {Founder})
      paid == [k \in DOMAIN others |-> [id |-> k, sender |-> Founder, receiver |-> others[k],
                                        amount |-> Opening]]
  IN  [hash |-> 1, prevHash |-> 0, transactions |-> paid, creator |-> Founder,
       staked_amt |-> 1, seed |-> 0, vrf |-> 0, gap |-> Registration,
       stakers |-> {[id |-> 1, staker |-> Founder, amt |-> 1, sign |-> TRUE]},
       is_valid |-> TRUE, slash_creator |-> FALSE]

FirstChain == IF Opening = 0 THEN <<genesis_block(Founder)>>
                             ELSE <<genesis_block(Founder), FirstBlock>>

Init ==
  /\ chain = [n \in Node |-> IF n \in Joined THEN FirstChain ELSE << >>]
  /\ mem_pool = [n \in Node |-> << >>]
  /\ seen = [n \in Node |-> {}]
  /\ current_stakes = [n \in Node |-> {}]
  /\ current_stakers = [n \in Node |-> Nobody]
  /\ staked_amt = [n \in Node |-> 0]
  /\ asked = [n \in Node |-> None]
  /\ age = Start
  /\ tasks = [n \in Node |-> << >>]
  /\ restart_in = [n \in Node |-> (EPOCH_TIME \div 2) - (Start[n] % (EPOCH_TIME \div 2))]
  /\ request_in = [n \in Node |-> IF Start[n] = 0 THEN 0 ELSE EPOCH_TIME - Start[n]]
  /\ inbox = [c \in Conn |-> [n \in Node |-> << >>]]
  /\ up = Conn
  /\ minted = FirstChain
  /\ since = [i \in DOMAIN FirstChain |-> IF i = Len(FirstChain) THEN Start[Founder]
                                                                ELSE Oldest]
  /\ count = [txs |-> Cardinality({k \in DOMAIN lastBlock(FirstChain).transactions :
                                    lastBlock(FirstChain).transactions[k].sender # Genesis}),
              stakes |-> Cardinality(lastBlock(FirstChain).stakers),
              blocks |-> 0, slashes |-> 0]

-----------------------------------------------------------------------------
(***************************************************************************)
(* Sending, and the end of an epoch.                                       *)
(***************************************************************************)

\* To n's websockets over, the one a message came over included.  A copy that its
\* receiver would drop as already seen is not queued.
send_over(n, over, msg, boxes) ==
  [c \in Conn |->
     IF c \in over /\ n \in Ends(c) /\ MsgId(msg) \notin seen[Other(c, n)]
     THEN [boxes[c] EXCEPT ![Other(c, n)] = Append(@, msg)]
     ELSE boxes[c]]

broadcast_message(n, msg, boxes) == send_over(n, up, msg, boxes)

Reads(c, n, type) ==
  /\ n \in Ends(c)
  /\ inbox[c][n] # << >>
  /\ Head(inbox[c][n]).type = type

Read(c, n) == [inbox EXCEPT ![c][n] = Tail(@)]

\* An exception leaves handle_connections (or connect_to_peer) through finally:
\* the socket is closed and what n has not read is gone.
HandlerFails(c, n) ==
  /\ inbox' = [inbox EXCEPT ![c][n] = << >>]
  /\ up' = up \ {c}

ForgetStakes_KeepsOwn(n) ==   \* mutant: staked_amt survives the epoch
  /\ current_stakes' = [current_stakes EXCEPT ![n] = {}]
  /\ current_stakers' = [current_stakers EXCEPT ![n] = Nobody]
  /\ UNCHANGED staked_amt

ForgetStakes_ToNone(n) ==   \* mutant: reset as if it had never been asked
  /\ current_stakes' = [current_stakes EXCEPT ![n] = {}]
  /\ current_stakers' = [current_stakers EXCEPT ![n] = Nobody]
  /\ staked_amt' = [staked_amt EXCEPT ![n] = None]

ForgetStakes(n) ==
  /\ current_stakes' = [current_stakes EXCEPT ![n] = {}]
  /\ current_stakers' = [current_stakers EXCEPT ![n] = Nobody]
  /\ staked_amt' = [staked_amt EXCEPT ![n] = 0]

ForgetOwnStake(n) ==
  /\ staked_amt' = [staked_amt EXCEPT ![n] = 0]
  /\ UNCHANGED <<current_stakes, current_stakers>>

balance(n, pk) == calc_balance(chain[n], pk, mem_pool[n], current_stakes[n])

-----------------------------------------------------------------------------
(***************************************************************************)
(* Transactions.                                                           *)
(***************************************************************************)

Affordable(n, amt) == amt > 0 /\ amt <= balance(n, n)

\* The menu's choice 1; mal_node's has no test of the amount.
create_and_broadcast_tx(n, rec, amt) ==
  LET tx == [id |-> count.txs + 1, sender |-> n, receiver |-> rec, amount |-> amt]
      msg == [type |-> "new_tx", transaction |-> tx]
  IN
  /\ n \in Sender /\ count.txs < MaxTxs
  /\ chain[n] # << >> /\ asked[n] = None
  /\ n \in Faulty \/ Affordable(n, amt)
  /\ count' = [count EXCEPT !.txs = @ + 1]
  /\ seen' = MarkSeen(n, {msg})
  /\ mem_pool' = [mem_pool EXCEPT ![n] = Append(@, tx)]
  /\ inbox' = broadcast_message(n, msg, inbox)
  /\ UNCHANGED <<chain, epoch_vars, asked, timer_vars, up, block_vars>>

AcceptsTx(n, tx) ==
  /\ tx.amount > 0
  /\ ~ transaction_exists_in_chain(chain[n], tx)
  /\ tx.amount <= balance(n, tx.sender)

HandleNewTx(c, n) ==
  /\ Reads(c, n, "new_tx")
  /\ LET msg == Head(inbox[c][n])
         isNew == MsgId(msg) \notin seen[n]
         taken == isNew /\ chain[n] # << >> /\ AcceptsTx(n, msg.transaction)
         fails == isNew /\ chain[n] = << >> /\ msg.transaction.amount > 0
     IN
     /\ seen' = MarkSeen(n, {msg})
     /\ IF taken THEN /\ mem_pool' = [mem_pool EXCEPT ![n] = Append(@, msg.transaction)]
                      /\ inbox' = broadcast_message(n, msg, Read(c, n))
                      /\ UNCHANGED up
        ELSE IF fails THEN HandlerFails(c, n) /\ UNCHANGED mem_pool
        ELSE inbox' = Read(c, n) /\ UNCHANGED <<mem_pool, up>>
  /\ UNCHANGED <<chain, epoch_vars, asked, timer_vars, block_vars, count>>

-----------------------------------------------------------------------------
(***************************************************************************)
(* Stakes.                                                                 *)
(***************************************************************************)

\* The time since the last epoch that mal_node's task counts from, when the menu
\* has just started the epoch again: the one it measured before.
mal_Restarted(n) == age[n]

\* The menu's choice 9 up to its question for an amount: only in the first part
\* of an epoch, or when the epoch should long have ended.
OpenStake(n) ==
  /\ count.stakes < MaxStakes
  /\ n \in Staker /\ chain[n] # << >> /\ asked[n] = None
  /\ staked_amt[n] = 0
  /\ \/ /\ age[n] <= Registration
        /\ asked' = [asked EXCEPT ![n] = age[n]]
        /\ UNCHANGED <<epoch_vars, age>>
     \/ /\ age[n] > Reset
        /\ age' = [age EXCEPT ![n] = 0]
        /\ ForgetStakes(n)
        /\ asked' = [asked EXCEPT ![n] =
               IF n \in Faulty THEN mal_Restarted(n) ELSE 0]
  /\ UNCHANGED <<peer_vars, tasks, restart_in, request_in, net_vars, block_vars, count>>

\* The user answers, whenever that is; send_stake_announcements and the task that
\* will make a block, timed by what was measured before the question.
SubmitStake(n, amt) ==
  LET stake == [id |-> count.stakes + 1, staker |-> n, amt |-> amt, sign |-> TRUE]
      msg == [type |-> "stake_announcement", stake |-> stake]
  IN
  /\ asked[n] # None
  /\ asked' = [asked EXCEPT ![n] = None]
  /\ IF count.stakes < MaxStakes /\ (n \in Faulty \/ Affordable(n, amt))
     THEN /\ count' = [count EXCEPT !.stakes = @ + 1]
          /\ seen' = MarkSeen(n, {msg})
          /\ current_stakes' = [current_stakes EXCEPT ![n] = @ \cup {stake}]
          /\ current_stakers' = [current_stakers EXCEPT ![n][n] = amt]
          /\ staked_amt' = [staked_amt EXCEPT ![n] = amt]
          /\ tasks' = [tasks EXCEPT ![n] =
               Append(@, IF asked[n] > EPOCH_TIME THEN 0 ELSE EPOCH_TIME - asked[n])]
          /\ inbox' = broadcast_message(n, msg, inbox)
     ELSE UNCHANGED <<count, seen, epoch_vars, tasks, inbox>>
  /\ UNCHANGED <<chain, mem_pool, age, restart_in, request_in, up, block_vars>>

\* A stake is taken in any phase of the receiver's epoch; its signature is checked
\* but not kept with it.
HandleStake(c, n) ==
  /\ Reads(c, n, "stake_announcement")
  /\ LET msg == Head(inbox[c][n])
         stake == msg.stake
         isNew == MsgId(msg) \notin seen[n] /\ stake.amt > 0
         taken == isNew /\ chain[n] # << >> /\ stake.amt <= balance(n, stake.staker)
     IN
     /\ seen' = MarkSeen(n, {msg})
     /\ IF taken
        THEN /\ current_stakes' = [current_stakes EXCEPT ![n] =
                                     @ \cup {[stake EXCEPT !.sign = FALSE]}]
             /\ current_stakers' = [current_stakers EXCEPT ![n][stake.staker] = stake.amt]
             /\ inbox' = broadcast_message(n, msg, Read(c, n))
             /\ UNCHANGED up
        ELSE /\ UNCHANGED <<current_stakes, current_stakers>>
             /\ IF isNew /\ chain[n] = << >>
                THEN HandlerFails(c, n)
                ELSE inbox' = Read(c, n) /\ UNCHANGED up
  /\ UNCHANGED <<chain, mem_pool, staked_amt, asked, timer_vars, block_vars, count>>

-----------------------------------------------------------------------------
(***************************************************************************)
(* Epochs.                                                                 *)
(***************************************************************************)

\* One unit of time, when no timer is due.
Tick ==
  /\ \A n \in Node : /\ restart_in[n] > 0 /\ request_in[n] > 0
                     /\ \A i \in DOMAIN tasks[n] : tasks[n][i] > 0
                     /\ asked[n] = None \/ n \in Slow
                     /\ \A c \in Conn : \A k \in DOMAIN inbox[c][n] :
                          inbox[c][n][k].type \in Late
  /\ age' = [n \in Node |-> Capped(age[n] + 1, Reset + 1)]
  /\ restart_in' = [n \in Node |-> restart_in[n] - 1]
  /\ request_in' = [n \in Node |-> request_in[n] - 1]
  /\ tasks' = [n \in Node |-> [i \in DOMAIN tasks[n] |-> tasks[n][i] - 1]]
  /\ since' = [i \in DOMAIN since |-> Capped(since[i] + 1, Oldest)]
  /\ UNCHANGED <<peer_vars, epoch_vars, asked, net_vars, minted, count>>

restart_epoch_Counting(n) ==   \* mutant: last_epoch_end_ts is not set
  /\ restart_in[n] = 0
  /\ restart_in' = [restart_in EXCEPT ![n] = EPOCH_TIME \div 2]
  /\ IF age[n] > Reset THEN ForgetStakes(n) ELSE UNCHANGED epoch_vars
  /\ UNCHANGED <<age, peer_vars, asked, tasks, request_in, net_vars, block_vars, count>>

\* Twice per EPOCH_TIME: an epoch that is overdue starts again.
restart_epoch(n) ==
  /\ restart_in[n] = 0
  /\ restart_in' = [restart_in EXCEPT ![n] = EPOCH_TIME \div 2]
  /\ IF age[n] > Reset
     THEN age' = [age EXCEPT ![n] = 0] /\ ForgetStakes(n)
     ELSE UNCHANGED <<age, epoch_vars>>
  /\ UNCHANGED <<peer_vars, asked, tasks, request_in, net_vars, block_vars, count>>

PendingTransactions(n) == Without(mem_pool[n], InChain(mem_pool[n], chain[n]))

\* What n, having won with vrf, makes of the transactions txs.
NewBlock(n, hash, txs, vrf) ==
  [hash |-> hash, prevHash |-> lastBlock(chain[n]).hash, transactions |-> txs,
   creator |-> n, staked_amt |-> staked_amt[n], stakers |-> current_stakes[n],
   seed |-> epoch_seed(chain[n]), vrf |-> vrf,
   gap |-> Capped(since[lastBlock(chain[n]).hash + 1], Registration),
   is_valid |-> TRUE, slash_creator |-> FALSE]

BlockMsg(block) == [type |-> "new_block", block |-> over_the_wire(block)]

\* create_blocks: the winner appends its block, whatever isValidBlock says.
WinBlock(n, vrf) ==
  LET block == NewBlock(n, Len(minted), PendingTransactions(n), vrf) IN
  /\ chain' = [chain EXCEPT ![n] = Append(@, block)]
  /\ minted' = Append(minted, block)
  /\ since' = Append(since, 0)
  /\ seen' = MarkSeen(n, {BlockMsg(block)})
  /\ mem_pool' = [mem_pool EXCEPT ![n] = Sweep(@, InBlock(@, block)).kept]
  /\ inbox' = broadcast_message(n, BlockMsg(block), inbox)
  /\ count' = [count EXCEPT !.blocks = @ + 1]

\* mal_node's create_blocks: both blocks hold the same transactions, the last one
\* sends three quarters of its balance to the second name it knows; it keeps the
\* first block, sends it to half of its websockets and the second to the rest.
DoubleSign(n, vrf) ==
  LET pay == (3 * balance(n, n)) \div 4
      bait == [id |-> count.txs + 1, sender |-> n, amount |-> pay,
               receiver |-> CHOOSE pk \in Account \ {n} : TRUE]
      txs == Append(PendingTransactions(n), bait)
      block1 == NewBlock(n, Len(minted), txs, vrf)
      block2 == NewBlock(n, Len(minted) + 1, txs, vrf)
      targets == {c \in up : n \in Ends(c)}
  IN
  /\ chain' = [chain EXCEPT ![n] = Append(@, block1)]
  /\ minted' = minted \o <<block1, block2>>
  /\ since' = since \o <<0, 0>>
  /\ seen' = MarkSeen(n, {BlockMsg(block1), BlockMsg(block2)})
  /\ mem_pool' = [mem_pool EXCEPT ![n] = Sweep(@, InBlock(@, block1)).kept]
  /\ \E half \in kSubset(Cardinality(targets) \div 2, targets) :
       inbox' = send_over(n, targets \ half, BlockMsg(block2),
                          send_over(n, half, BlockMsg(block1), inbox))
  /\ count' = [count EXCEPT !.blocks = @ + 1, !.txs = @ + 1]

Wins(n, vrf) ==
  LET all == MapThenSumSet(LAMBDA pk : current_stakers[n][pk], Account)
  IN  vrf * all < staked_amt[n] * MAX_OUTPUT

\* The rest of create_blocks, once its sleep is over.  A loser forgets its own
\* stake only.  Bound: with MaxBlocks made every draw is lost.
create_blocks(n, i) ==
  /\ i \in DOMAIN tasks[n] /\ tasks[n][i] = 0
  /\ tasks' = [tasks EXCEPT ![n] = RemoveAt(@, i)]
  /\ \/ /\ current_stakers[n] = Nobody
        /\ age' = [age EXCEPT ![n] = 0]
        /\ ForgetOwnStake(n)
        /\ UNCHANGED <<peer_vars, inbox, block_vars, count>>
     \/ /\ current_stakers[n] # Nobody /\ PendingTransactions(n) = << >>
        /\ age' = [age EXCEPT ![n] = 0]
        /\ ForgetStakes(n)
        /\ UNCHANGED <<peer_vars, inbox, block_vars, count>>
     \/ /\ current_stakers[n] # Nobody /\ PendingTransactions(n) # << >>
        /\ \E vrf \in 0..(MAX_OUTPUT - 1) :
             IF Wins(n, vrf) /\ count.blocks < MaxBlocks
             THEN /\ IF n \in Faulty THEN DoubleSign(n, vrf) ELSE WinBlock(n, vrf)
                  /\ age' = [age EXCEPT ![n] = 0]
                  /\ ForgetStakes(n)
             ELSE /\ ForgetOwnStake(n)
                  /\ UNCHANGED <<peer_vars, age, inbox, block_vars, count>>
  /\ UNCHANGED <<asked, restart_in, request_in, up>>

-----------------------------------------------------------------------------
(***************************************************************************)
(* Blocks.                                                                 *)
(***************************************************************************)
\* The creator staked, the block names as much stake as n knows of, and the draw
\* wins with the creator's stake as n knows it.
AcceptsStakes(n, block) ==
  LET known == MapThenSumSet(LAMBDA pk : current_stakers[n][pk], Account)
      named == total_stake(block.stakers)
  IN  /\ current_stakers[n][block.creator] # 0
      /\ known <= named
      /\ block.vrf * named < current_stakers[n][block.creator] * MAX_OUTPUT

IsTimely(block) == since[block.hash + 1] <= TooOld /\ block.gap >= Registration

\* mal_node's new_block does not look at timestamps.
AcceptsBlock(n, block) ==
  /\ isValidBlock(chain[n], block)
  /\ IsTimely(block)
  /\ block.seed = epoch_seed(chain[n])

mal_AcceptsBlock(n, block) ==
  /\ isValidBlock(chain[n], block)
  /\ block.seed = epoch_seed(chain[n])

HandleNewBlock(c, n) ==
  /\ Reads(c, n, "new_block")
  /\ LET msg == Head(inbox[c][n])
         block == msg.block
         isNew == MsgId(msg) \notin seen[n]
         fits == /\ isNew /\ chain[n] # << >>
                 /\ IF n \in Faulty THEN mal_AcceptsBlock(n, block)
                                   ELSE AcceptsBlock(n, block)
         keyError == fits /\ n \in Faulty /\ current_stakers[n][block.creator] = 0
     IN
     /\ seen' = MarkSeen(n, {msg})
     /\ IF fits /\ AcceptsStakes(n, block)
        THEN /\ chain' = [chain EXCEPT ![n] = Append(@, block)]
             /\ age' = [age EXCEPT ![n] = 0]
             /\ mem_pool' = [mem_pool EXCEPT ![n] = Sweep(@, InBlock(@, block)).kept]
             /\ ForgetStakes(n)
             /\ inbox' = broadcast_message(n, msg, Read(c, n))
             /\ UNCHANGED up
        ELSE /\ UNCHANGED <<chain, age, mem_pool, epoch_vars>>
             /\ IF (isNew /\ chain[n] = << >>) \/ keyError
                THEN HandlerFails(c, n)
                ELSE inbox' = Read(c, n) /\ UNCHANGED up
  /\ UNCHANGED <<asked, tasks, restart_in, request_in, block_vars, count>>

-----------------------------------------------------------------------------
(***************************************************************************)
(* Chains on request, and slashing.                                        *)
(***************************************************************************)
Slashed_Before(c, pos) ==   \* mutant: off by one
  [c EXCEPT ![pos-1].is_valid = FALSE, ![pos-1].slash_creator = TRUE]

Slashed(c, pos) == [c EXCEPT ![pos].is_valid = FALSE, ![pos].slash_creator = TRUE]

Asked(c, n) ==
  \/ \E k \in DOMAIN inbox[c][Other(c, n)] :
       inbox[c][Other(c, n)][k].type = "chain_request"
  \/ \E k \in DOMAIN inbox[c][n] : inbox[c][n][k].type = "chain"

\* Once per EPOCH_TIME n asks all it is connected to for their chains.  Bound: not
\* over a connection on which it still waits for an answer.
find_longest_chain(n) ==
  /\ request_in[n] = 0
  /\ request_in' = [request_in EXCEPT ![n] = EPOCH_TIME]
  /\ inbox' = [c \in Conn |->
       IF c \in up /\ n \in Ends(c) /\ ~ Asked(c, n)
       THEN [inbox[c] EXCEPT ![Other(c, n)] = Append(@, [type |-> "chain_request"])]
       ELSE inbox[c]]
  /\ UNCHANGED <<peer_vars, epoch_vars, asked, age, tasks, restart_in, up, block_vars, count>>

HandleChainRequest(c, n) ==
  /\ Reads(c, n, "chain_request")
  /\ inbox' = IF chain[n] # << >> /\ c \in up
              THEN [Read(c, n) EXCEPT ![c][Other(c, n)] =
                      Append(@, [type |-> "chain",
                                 chain |-> to_block_dict_list(chain[n])])]
              ELSE Read(c, n)
  /\ UNCHANGED <<peer_vars, epoch_vars, asked, timer_vars, up, block_vars, count>>

Heavier(n, list) == weight_of_chain(chain[n]) < weight_of_chain(list)

\* What n's chain is after list arrived and nobody is slashed: where list parts
\* from it the longer one, otherwise list if it is longer and heavier.
Preferred(n, list, pos) ==
  IF chain[n] = << >> THEN list
  ELSE IF pos # 0 \/ Heavier(n, list) THEN rewrite(chain[n], list) ELSE chain[n]

\* mal_node's: list if it is longer and heavier, wherever they part.
mal_Preferred(n, list) ==
  IF chain[n] = << >> THEN list
  ELSE IF Heavier(n, list) THEN rewrite(chain[n], list) ELSE chain[n]

\* The signatures of both blocks are right: n slashes its own and announces it.
\* Bound: only MaxSlashes announcements are sent.
verify_and_slash(n, list, pos, boxes) ==
  LET msg == [type |-> "slash_announcement", id |-> count.slashes + 1, pos |-> pos,
              evidence |-> {chain[n][pos].hash, list[pos].hash}]
  IN
  /\ chain' = [chain EXCEPT ![n] = Slashed(@, pos)]
  /\ IF count.slashes < MaxSlashes
     THEN /\ count' = [count EXCEPT !.slashes = @ + 1]
          /\ seen' = MarkSeen(n, {msg})
          /\ inbox' = broadcast_message(n, msg, boxes)
     ELSE inbox' = boxes /\ UNCHANGED <<count, seen>>

HandleChain(c, n) ==
  /\ Reads(c, n, "chain")
  /\ LET list == Head(inbox[c][n]).chain
         pos == checkEquivalence(chain[n], list)
         sameCreator == pos # 0 /\ chain[n][pos].creator = list[pos].creator
     IN
     \/ /\ ~ isvalidChain(list)
        /\ inbox' = Read(c, n)
        /\ UNCHANGED <<chain, seen, mem_pool, count>>
     \/ /\ isvalidChain(list)
        /\ IF sameCreator
           THEN verify_and_slash(n, list, pos, Read(c, n))
           ELSE /\ chain' = [chain EXCEPT ![n] =
                               IF n \in Faulty THEN mal_Preferred(n, list)
                                               ELSE Preferred(n, list, pos)]
                /\ inbox' = Read(c, n)
                /\ UNCHANGED <<seen, count>>
        /\ mem_pool' = [mem_pool EXCEPT ![n] = Sweep(@, InChain(@, chain'[n])).kept]
  /\ UNCHANGED <<epoch_vars, asked, timer_vars, up, block_vars>>

\* A peer that has one of the two blocks at that place slashes it too and passes
\* the announcement on; mal_node even if it has done so already.
Slashes(n, msg) ==
  /\ msg.pos \in DOMAIN chain[n]
  /\ chain[n][msg.pos].hash \in msg.evidence
  /\ chain[n][msg.pos].is_valid

mal_Slashes(n, msg) ==
  /\ msg.pos \in DOMAIN chain[n]
  /\ chain[n][msg.pos].hash \in msg.evidence

HandleSlash(c, n) ==
  /\ Reads(c, n, "slash_announcement")
  /\ LET msg == Head(inbox[c][n])
         isNew == MsgId(msg) \notin seen[n]
         raises == /\ isNew /\ msg.pos \notin DOMAIN chain[n]
                   /\ chain[n] = << >> \/ n \in Faulty
     IN
     /\ seen' = MarkSeen(n, {msg})
     /\ IF isNew /\ (IF n \in Faulty THEN mal_Slashes(n, msg) ELSE Slashes(n, msg))
        THEN /\ chain' = [chain EXCEPT ![n] = Slashed(@, msg.pos)]
             /\ inbox' = broadcast_message(n, msg, Read(c, n))
             /\ UNCHANGED up
        ELSE /\ UNCHANGED chain
             /\ IF raises THEN HandlerFails(c, n) ELSE inbox' = Read(c, n) /\ UNCHANGED up
  /\ UNCHANGED <<mem_pool, epoch_vars, asked, timer_vars, block_vars, count>>

\* discover_peers connects again to a known peer it has no connection to.
connect_to_peer(c) ==
  /\ c \notin up
  /\ \A n \in Ends(c) : inbox[c][n] = << >>
  /\ up' = up \cup {c}
  /\ UNCHANGED <<peer_vars, epoch_vars, asked, timer_vars, inbox, block_vars, count>>

-----------------------------------------------------------------------------
HandleMessage(c, n) ==
  \/ HandleNewTx(c, n)
  \/ HandleStake(c, n)
  \/ HandleNewBlock(c, n)
  \/ HandleChainRequest(c, n)
  \/ HandleChain(c, n)
  \/ HandleSlash(c, n)

Next ==
  \/ Tick
  \/ \E n \in Node :
       \/ \E rec \in Account \ {n}, amt \in Amount : create_and_broadcast_tx(n, rec, amt)
       \/ OpenStake(n)
       \/ \E amt \in StakeAmount : SubmitStake(n, amt)
       \/ restart_epoch(n)
       \/ \E i \in DOMAIN tasks[n] : create_blocks(n, i)
       \/ find_longest_chain(n)
  \/ \E c \in Conn :
       \/ \E n \in Ends(c) : HandleMessage(c, n)
       \/ connect_to_peer(c)

Spec == Init /\ [][Next]_vars

(***************************************************************************)
(* Time passes, timers that are due run, and a message that can be read is *)
(* read.  Nothing makes a user act; one who is not in Slow answers the      *)
(* question the menu has asked.                                            *)
(***************************************************************************)
Fairness ==
  /\ WF_vars(Tick)
  /\ \A n \in Node \ Slow : WF_vars(\E amt \in StakeAmount : SubmitStake(n, amt))
  /\ \A n \in Node :
       /\ WF_vars(restart_epoch(n))
       /\ WF_vars(find_longest_chain(n))
       /\ WF_vars(\E i \in DOMAIN tasks[n] : create_blocks(n, i))
  /\ \A c \in Conn :
       /\ WF_vars(connect_to_peer(c))
       /\ \A n \in Ends(c) : WF_vars(HandleMessage(c, n))

FairSpec == Spec /\ Fairness

-----------------------------------------------------------------------------
Ids == {"new_tx", "stake", "new_block", "slash"} \X Nat

(***************************************************************************)
(* Chains, pools, stakes and messages hold what the code puts into them.   *)
(***************************************************************************)
TypeOK ==
  /\ chain \in [Node -> Seq(Block)]
  /\ mem_pool \in [Node -> Seq(Tx)]
  /\ seen \in [Node -> SUBSET Ids]
  /\ current_stakes \in [Node -> SUBSET Stake]
  /\ current_stakers \in [Node -> [Account -> Int]]
  /\ staked_amt \in [Node -> Int]
  /\ asked \in [Node -> (0..(Reset + 1)) \cup {None}]
  /\ age \in [Node -> 0..(Reset + 1)]
  /\ tasks \in [Node -> Seq(0..EPOCH_TIME)]
  /\ restart_in \in [Node -> 0..(EPOCH_TIME \div 2)]
  /\ request_in \in [Node -> 0..EPOCH_TIME]
  /\ inbox \in [Conn -> [Node -> Seq(Msg)]]
  /\ up \in SUBSET Conn
  /\ minted \in Seq(Block)
  /\ since \in Seq(0..Oldest)

(***************************************************************************)
(* What a peer has staked is always among the stakes it draws with, signed *)
(* and in the same amount: restart_epoch, create_blocks, new_block and the *)
(* menu each reset the three at different times, and a draw divides        *)
(* staked_amt by the sum of the others.                                    *)
(***************************************************************************)
StakeCounted ==
  \A n \in Node : staked_amt[n] # 0 =>
    /\ current_stakers[n][n] = staked_amt[n]
    /\ \E stake \in current_stakes[n] :
         stake.staker = n /\ stake.amt = staked_amt[n] /\ stake.sign

(***************************************************************************)
(* No transaction is twice in a chain, though isvalidChain's own test for  *)
(* it never fires, new_block and chain leave mined transactions in the     *)
(* pool, and create_blocks tests before it draws and does not ask          *)
(* isValidBlock about the block it made.                                   *)
(***************************************************************************)
NoDuplicateTx ==
  \A n \in Node : \A i, j \in DOMAIN chain[n] :
    \A k \in DOMAIN chain[n][i].transactions, l \in DOMAIN chain[n][j].transactions :
      chain[n][i].transactions[k].id = chain[n][j].transactions[l].id
        => i = j /\ k = l

Header(block) == [hash |-> block.hash, prevHash |-> block.prevHash]

headers == [n \in Node |-> [i \in DOMAIN chain[n] |-> Header(chain[n][i])]]

Replica == INSTANCE ChainReplica WITH
             Hash <- Nat,
             chain <- headers,
             minted <- {Header(minted[i]) : i \in DOMAIN minted}

(***************************************************************************)
(* Whatever a peer does to its chain is a step of ChainReplica: it makes a *)
(* block, takes one that was made on top of its own, or takes a longer     *)
(* chain.  Slashing changes marks only, and late draws, forks and heavier  *)
(* chains change nothing about that.  (An Opening begins with two blocks,  *)
(* so the initial state is not ChainReplica's.)                            *)
(***************************************************************************)
ReplicaSteps == [][Replica!Next]_(Replica!vars)

(***************************************************************************)
(* Only who signed two blocks loses a stake: an honest winner is never     *)
(* slashed, whatever forks chain exchange and announcements bring.         *)
(***************************************************************************)
OnlyDoubleSignersSlashed ==
  \A n \in Node : \A i \in DOMAIN chain[n] :
    chain[n][i].slash_creator => chain[n][i].creator \in Faulty

Twins(b1, b2) == b1.creator = b2.creator /\ b1.prevHash = b2.prevHash /\ b1.hash # b2.hash

\* Some peer holds a twin of n's i-th block.
Contested(n, i) ==
  /\ i \in DOMAIN chain[n]
  /\ \E m \in Node : \E j \in DOMAIN chain[m] : Twins(chain[n][i], chain[m][j])

(***************************************************************************)
(* When two peers hold the two blocks of one double signer, each honest    *)
(* one comes to mark its own as slashed: through a chain it asks for, or   *)
(* through the other's announcement.                                       *)
(***************************************************************************)
DoubleSignerSlashed ==
  \A n \in Node \ Faulty : \A i \in 1..(2 * MaxBlocks + 2) :
    Contested(n, i) ~> (i \in DOMAIN chain[n] /\ chain[n][i].slash_creator)

(***************************************************************************)
(* Registration opens again and again at every peer, though new blocks,    *)
(* lost draws and overdue epochs end epochs at different times and a lost  *)
(* draw ends none.                                                         *)
(***************************************************************************)
EpochReopens == \A n \in Node : []<>(age[n] <= Registration)

(***************************************************************************)
(* A peer that missed blocks, because they came late, disagreed with its   *)
(* stakes or were lost with a connection, gets a chain as long as any by   *)
(* asking for chains, double signers among those it asks.                  *)
(***************************************************************************)
CatchUp ==
  \A len \in 1..(MaxBlocks + 2) :
    (\E n \in Node : Len(chain[n]) >= len) ~> (\A n \in Node : Len(chain[n]) >= len)

(***************************************************************************)
(* What a comment in p2p.py says of the timestamp test: "Blocks shouldn't  *)
(* come faster than the staking registration period".                      *)
(***************************************************************************)
BlocksSpaced ==
  \A n \in Node \ Faulty : \A i \in 2..Len(chain[n]) : chain[n][i].gap >= Registration
=============================================================================
