-------------------------- MODULE PowNetworkProofs --------------------------
(***************************************************************************)
(* Theorems about PowNetwork, for any peers, connections and bounds: its   *)
(* variables are well typed, a miner's candidate stays in its pool, the    *)
(* peers implement ChainReplica, no chain and no pool holds a transaction  *)
(* twice.  And about Records: a file that has reached a miner is not lost, *)
(* a contract is deployed before it is invoked.                            *)
(***************************************************************************)
EXTENDS Records, LedgerProofs

-----------------------------------------------------------------------------
(***************************************************************************)
(* The inductive invariant.  Every block that a peer holds, parks or has   *)
(* on the way is one that was mined, but for its miner; every chain starts *)
(* with the genesis block; a peer without a chain has done nothing yet.    *)
(***************************************************************************)
KnownBlock == {b \in Block : \E i \in DOMAIN minted : Header(minted[i]) = Header(b)}

FirstHeader == [hash |-> 0, prevHash |-> None]

KnownChain == {c \in Seq(KnownBlock) : c # << >> => Header(c[1]) = FirstHeader}

KnownMsg == [type : {"new_tx"}, transaction : Tx]
       \cup [type : {"new_block"}, block : KnownBlock]
       \cup [type : {"chain_request"}]
       \cup [type : {"chain"}, chain : KnownChain]

KnownWaiter == [kind : {"new_tx"}, conn : Conn, data : Tx]
          \cup [kind : {"new_block"}, conn : Conn, data : KnownBlock]
          \cup [kind : {"chain"}, conn : Conn, data : {None}]
          \cup [kind : {"own_tx"}, conn : {None}, data : Tx]
          \cup [kind : {"mine"}, conn : {None}, data : Nat]

MintedInOrder ==
  /\ minted \in Seq(Block)
  /\ minted # << >>
  /\ Header(minted[1]) = FirstHeader
  /\ \A i \in DOMAIN minted : minted[i].hash = i - 1

PeersOK ==
  /\ mem_pool \in [Node -> Seq(Tx)]
  /\ seen \in [Node -> SUBSET ({"new_tx", "new_block"} \X Nat)]
  /\ mine_task \in [Node -> Nat \cup {None}]
  /\ live \in [Node -> SUBSET Nat]
  /\ mining \in [Node -> Candidate \cup {None}]
  /\ up \in SUBSET Conn
  /\ created \in Nat
  /\ drops \in Nat

NotStarted(n) == mem_pool[n] = << >> /\ mining[n] = None /\ waiting[n] = << >>

NetInv ==
  /\ PeersOK
  /\ MintedInOrder
  /\ chain \in [Node -> KnownChain]
  /\ waiting \in [Node -> Seq(KnownWaiter)]
  /\ inbox \in [Conn -> [Node -> Seq(KnownMsg)]]
  /\ \A n \in Node : chain[n] = << >> => NotStarted(n)

-----------------------------------------------------------------------------
(***************************************************************************)
(* Sending keeps every inbox a sequence of members of M.                   *)
(***************************************************************************)
LEMMA BroadcastType ==
  ASSUME NEW M, NEW msg \in M, NEW n \in Node,
         NEW boxes \in [Conn -> [Node -> Seq(M)]]
  PROVE  broadcast_message(n, msg, boxes) \in [Conn -> [Node -> Seq(M)]]
<1>1. ASSUME NEW c \in Conn, n \in Ends(c)
      PROVE  [boxes[c] EXCEPT ![Other(c, n)] = Append(@, msg)] \in [Node -> Seq(M)]
  <2>1. c \in Node \X Node
    BY NetworkAssumption
  <2>2. Other(c, n) \in Node
    BY <2>1 DEF Other
  <2>3. boxes[c] \in [Node -> Seq(M)]
    OBVIOUS
  <2>4. boxes[c][Other(c, n)] \in Seq(M)
    BY <2>2, <2>3
  <2>5. Append(boxes[c][Other(c, n)], msg) \in Seq(M)
    BY <2>4
  <2> QED BY <2>3, <2>5
<1> QED BY <1>1 DEF broadcast_message

(***************************************************************************)
(* Reading a message takes it off its inbox.                               *)
(***************************************************************************)
LEMMA ReadType ==
  ASSUME NEW M, inbox \in [Conn -> [Node -> Seq(M)]],
         NEW c \in Conn, NEW n \in Node, inbox[c][n] # << >>
  PROVE  /\ Head(inbox[c][n]) \in M
         /\ Read(c, n) \in [Conn -> [Node -> Seq(M)]]
<1>1. inbox[c] \in [Node -> Seq(M)] /\ inbox[c][n] \in Seq(M)
  OBVIOUS
<1>2. Head(inbox[c][n]) \in M /\ Tail(inbox[c][n]) \in Seq(M)
  BY <1>1
<1>3. [inbox[c] EXCEPT ![n] = Tail(@)] \in [Node -> Seq(M)]
  BY <1>1, <1>2
<1> QED BY <1>2, <1>3 DEF Read

LEMMA HandlerFailsType ==
  ASSUME NEW M, inbox \in [Conn -> [Node -> Seq(M)]], up \in SUBSET Conn,
         NEW c \in Conn, NEW n \in Node, HandlerFails(c, n)
  PROVE  /\ inbox' \in [Conn -> [Node -> Seq(M)]]
         /\ up' \in SUBSET Conn
<1>1. inbox[c] \in [Node -> Seq(M)] /\ << >> \in Seq(M)
  OBVIOUS
<1>2. [inbox[c] EXCEPT ![n] = << >>] \in [Node -> Seq(M)]
  BY <1>1
<1> QED BY <1>2 DEF HandlerFails

LEMMA ParkType ==
  ASSUME NEW W, waiting \in [Node -> Seq(W)], NEW n \in Node,
         NEW kind, NEW c, NEW data, Park(n, kind, c, data),
         [kind |-> kind, conn |-> c, data |-> data] \in W
  PROVE  waiting' \in [Node -> Seq(W)]
<1>1. Append(waiting[n], [kind |-> kind, conn |-> c, data |-> data]) \in Seq(W)
  OBVIOUS
<1> QED BY <1>1 DEF Park

LEMMA MarkSeenType ==
  ASSUME seen \in [Node -> SUBSET ({"new_tx", "new_block"} \X Nat)],
         NEW n \in Node, NEW msg,
         msg.type = "new_tx" => msg.transaction \in Tx,
         msg.type # "new_tx" => msg.block \in Block
  PROVE  MarkSeen(n, msg) \in [Node -> SUBSET ({"new_tx", "new_block"} \X Nat)]
<1>1. MsgId(msg) \in {"new_tx", "new_block"} \X Nat
  BY DEF MsgId, Tx, Block
<1>2. seen[n] \cup {MsgId(msg)} \in SUBSET ({"new_tx", "new_block"} \X Nat)
  BY <1>1
<1> QED BY <1>2 DEF MarkSeen

LEMMA SameKnown ==
  ASSUME UNCHANGED minted
  PROVE  /\ KnownBlock' = KnownBlock
         /\ KnownChain' = KnownChain
         /\ KnownMsg' = KnownMsg
         /\ KnownWaiter' = KnownWaiter
         /\ MintedInOrder => MintedInOrder'
<1>1. KnownBlock' = KnownBlock
  BY DEF KnownBlock
<1>2. KnownChain' = KnownChain
  BY <1>1 DEF KnownChain
<1>3. MintedInOrder => MintedInOrder'
  BY DEF MintedInOrder
<1> QED BY <1>1, <1>2, <1>3 DEF KnownMsg, KnownWaiter

LEMMA PoolAndSend ==
  ASSUME NEW T, NEW M, mem_pool \in [Node -> Seq(T)],
         NEW n \in Node, NEW tx \in T,
         [type |-> "new_tx", transaction |-> tx] \in M,
         NEW boxes \in [Conn -> [Node -> Seq(M)]],
         AddTransaction(n, tx, boxes)
  PROVE  /\ mem_pool' \in [Node -> Seq(T)]
         /\ \A m \in Node : m # n => mem_pool'[m] = mem_pool[m]
         /\ inbox' \in [Conn -> [Node -> Seq(M)]]
<1>1. Append(mem_pool[n], tx) \in Seq(T)
  OBVIOUS
<1>2. inbox' \in [Conn -> [Node -> Seq(M)]]
  BY BroadcastType DEF AddTransaction
<1> QED BY <1>1, <1>2 DEF AddTransaction

LEMMA AddTransactionType ==
  ASSUME mem_pool \in [Node -> Seq(Tx)],
         NEW n \in Node, NEW tx \in Tx,
         NEW boxes \in [Conn -> [Node -> Seq(KnownMsg)]],
         AddTransaction(n, tx, boxes)
  PROVE  /\ mem_pool' \in [Node -> Seq(Tx)]
         /\ \A m \in Node : m # n => mem_pool'[m] = mem_pool[m]
         /\ inbox' \in [Conn -> [Node -> Seq(KnownMsg)]]
<1>1. [type |-> "new_tx", transaction |-> tx] \in KnownMsg
  BY DEF KnownMsg
<1> QED BY <1>1, PoolAndSend

-----------------------------------------------------------------------------
(***************************************************************************)
(* Each action preserves the invariant.                                    *)
(***************************************************************************)
LEMMA CreateStep ==
  ASSUME NetInv, NEW n \in Node, NEW rec \in Account, NEW amt \in Amount,
         create_and_broadcast_tx(n, rec, amt)
  PROVE  NetInv'
<1> DEFINE tx == [id |-> created + 1, sender |-> n, receiver |-> rec, amount |-> amt]
<1>1. PeersOK /\ chain[n] # << >> /\ created' = created + 1
      /\ UNCHANGED <<chain, mine_task, live, mining, up, minted, drops>>
  BY DEF NetInv, create_and_broadcast_tx, user_input_handler
<1>2. tx \in Tx
  <2>1. n \in Account /\ amt \in Int /\ created \in Nat
    BY <1>1, NetworkAssumption DEF PeersOK
  <2> QED BY <2>1 DEF Tx
<1>3. seen' \in [Node -> SUBSET ({"new_tx", "new_block"} \X Nat)]
  <2>1. seen' = MarkSeen(n, [type |-> "new_tx", transaction |-> tx])
    BY DEF create_and_broadcast_tx
  <2> HIDE DEF tx
  <2> QED BY <1>1, <1>2, <2>1, MarkSeenType DEF PeersOK
<1>4. /\ mem_pool' \in [Node -> Seq(Tx)]
      /\ waiting' \in [Node -> Seq(KnownWaiter)]
      /\ inbox' \in [Conn -> [Node -> Seq(KnownMsg)]]
      /\ \A m \in Node : m # n => mem_pool'[m] = mem_pool[m] /\ waiting'[m] = waiting[m]
  <2>1. CASE AddTransaction(n, tx, inbox) /\ UNCHANGED waiting
    <3> HIDE DEF tx
    <3> QED BY <1>1, <1>2, <2>1, AddTransactionType DEF NetInv, PeersOK
  <2>2. CASE Park(n, "own_tx", None, tx) /\ UNCHANGED <<mem_pool, inbox>>
    <3>1. [kind |-> "own_tx", conn |-> None, data |-> tx] \in KnownWaiter
      BY <1>2 DEF KnownWaiter
    <3> HIDE DEF tx
    <3>2. waiting' \in [Node -> Seq(KnownWaiter)]
      BY <2>2, <3>1, ParkType DEF NetInv
    <3> QED BY <1>1, <2>2, <3>2 DEF NetInv, PeersOK, Park
  <2> QED BY <2>1, <2>2 DEF create_and_broadcast_tx
<1>5. \A m \in Node : chain'[m] = << >> => NotStarted(m)'
  BY <1>1, <1>4 DEF NetInv, NotStarted
<1>6. PeersOK'
  BY <1>1, <1>3, <1>4 DEF PeersOK
<1> QED BY <1>1, <1>4, <1>5, <1>6, SameKnown DEF NetInv

LEMMA EndsAreNodes ==
  ASSUME NEW c \in Conn, NEW n \in Ends(c)
  PROVE  n \in Node /\ Other(c, n) \in Node
BY NetworkAssumption DEF Ends, Other

LEMMA MessageFields ==
  ASSUME NEW msg \in KnownMsg
  PROVE  /\ msg.type = "new_tx" => msg.transaction \in Tx
         /\ msg.type = "new_block" => msg.block \in KnownBlock /\ msg.block \in Block
         /\ msg.type = "chain" => msg.chain \in KnownChain
BY DEF KnownMsg, KnownBlock

LEMMA HandleNewTxStep ==
  ASSUME NetInv, NEW c \in Conn, NEW n \in Ends(c), HandleNewTx(c, n)
  PROVE  NetInv'
<1> DEFINE msg == Head(inbox[c][n])
           tx == msg.transaction
<1>1. n \in Node /\ PeersOK
      /\ UNCHANGED <<chain, mine_task, live, mining, minted, created, drops>>
  BY EndsAreNodes DEF NetInv, HandleNewTx
<1>2. msg \in KnownMsg /\ Read(c, n) \in [Conn -> [Node -> Seq(KnownMsg)]]
  BY <1>1, ReadType DEF NetInv, HandleNewTx, Reads
<1>3. tx \in Tx /\ msg.type = "new_tx"
  BY <1>2, MessageFields DEF HandleNewTx, Reads
<1>4. seen' \in [Node -> SUBSET ({"new_tx", "new_block"} \X Nat)]
  <2>1. seen' = MarkSeen(n, msg)
    BY DEF HandleNewTx
  <2> HIDE DEF msg
  <2> QED BY <1>1, <1>3, <2>1, MarkSeenType DEF PeersOK
<1>5. /\ mem_pool' \in [Node -> Seq(Tx)]
      /\ waiting' \in [Node -> Seq(KnownWaiter)]
      /\ inbox' \in [Conn -> [Node -> Seq(KnownMsg)]]
      /\ up' \in SUBSET Conn
      /\ \A m \in Node : m # n \/ chain[n] = << >>
           => mem_pool'[m] = mem_pool[m] /\ waiting'[m] = waiting[m]
  <2>1. CASE inbox' = Read(c, n) /\ UNCHANGED <<mem_pool, waiting, up>>
    BY <1>1, <1>2, <2>1 DEF NetInv, PeersOK
  <2>2. CASE HandlerFails(c, n) /\ UNCHANGED <<mem_pool, waiting>>
    <3>1. inbox' \in [Conn -> [Node -> Seq(KnownMsg)]] /\ up' \in SUBSET Conn
      BY <1>1, <2>2, HandlerFailsType DEF NetInv, PeersOK
    <3> QED BY <1>1, <2>2, <3>1 DEF NetInv, PeersOK
  <2>3. CASE /\ chain[n] # << >>
             /\ AddTransaction(n, tx, Read(c, n)) /\ UNCHANGED <<waiting, up>>
    <3> HIDE DEF msg
    <3> QED BY <1>1, <1>2, <1>3, <2>3, AddTransactionType DEF NetInv, PeersOK
  <2>4. CASE /\ chain[n] # << >> /\ inbox' = Read(c, n)
             /\ Park(n, "new_tx", c, tx) /\ UNCHANGED <<mem_pool, up>>
    <3>1. [kind |-> "new_tx", conn |-> c, data |-> tx] \in KnownWaiter
      BY <1>3 DEF KnownWaiter
    <3> HIDE DEF msg
    <3>2. waiting' \in [Node -> Seq(KnownWaiter)]
      BY <1>1, <2>4, <3>1, ParkType DEF NetInv
    <3> QED BY <1>1, <1>2, <2>4, <3>2 DEF NetInv, PeersOK, Park
  <2> QED BY <2>1, <2>2, <2>3, <2>4 DEF HandleNewTx
<1>6. \A m \in Node : chain'[m] = << >> => NotStarted(m)'
  BY <1>1, <1>5 DEF NetInv, NotStarted
<1>7. PeersOK'
  BY <1>1, <1>4, <1>5 DEF PeersOK
<1> QED BY <1>1, <1>5, <1>6, <1>7, SameKnown DEF NetInv

-----------------------------------------------------------------------------
LEMMA SweepPoolType ==
  ASSUME NEW T, mem_pool \in [Node -> Seq(T)], NEW n \in Node, NEW gone
  PROVE  /\ [mem_pool EXCEPT ![n] = Sweep(@, gone).kept] \in [Node -> Seq(T)]
         /\ Sweep(mem_pool[n], gone).taken \in Seq(T)
<1>1. mem_pool[n] \in Seq(T)
  OBVIOUS
<1>2. Sweep(mem_pool[n], gone).kept \in Seq(T) /\ Sweep(mem_pool[n], gone).taken \in Seq(T)
  BY <1>1, SweepType
<1> QED BY <1>2

LEMMA FinishNewBlockType ==
  ASSUME PeersOK, NEW n \in Node, NEW block \in KnownBlock, NEW alive \in SUBSET Nat,
         NEW boxes \in [Conn -> [Node -> Seq(KnownMsg)]],
         FinishNewBlock(n, block, alive, boxes)
  PROVE  /\ mem_pool' \in [Node -> Seq(Tx)]
         /\ mine_task' \in [Node -> Nat \cup {None}]
         /\ live' \in [Node -> SUBSET Nat]
         /\ inbox' \in [Conn -> [Node -> Seq(KnownMsg)]]
         /\ \A m \in Node : m # n => mem_pool'[m] = mem_pool[m]
<1>1. mem_pool' \in [Node -> Seq(Tx)] /\ \A m \in Node : m # n => mem_pool'[m] = mem_pool[m]
  <2>1. mem_pool' = [mem_pool EXCEPT ![n] = Sweep(@, InBlock(@, block)).kept]
    BY DEF FinishNewBlock
  <2> QED BY <2>1, SweepPoolType DEF PeersOK
<1>2. block.hash \in Nat
  BY DEF KnownBlock, Block
<1>3. mine_task' \in [Node -> Nat \cup {None}] /\ live' \in [Node -> SUBSET Nat]
  <2>1. alive \cup {block.hash} \in SUBSET Nat /\ block.hash \in Nat \cup {None}
    BY <1>2
  <2>2. mine_task \in [Node -> Nat \cup {None}] /\ live \in [Node -> SUBSET Nat]
    BY DEF PeersOK
  <2>3. CASE n \in Miner
    <3>1. /\ mine_task' = [mine_task EXCEPT ![n] = block.hash]
          /\ live' = [live EXCEPT ![n] = alive \cup {block.hash}]
      BY <2>3 DEF FinishNewBlock
    <3> QED BY <2>1, <2>2, <3>1
  <2>4. CASE n \notin Miner
    BY <2>2, <2>4 DEF FinishNewBlock
  <2> QED BY <2>3, <2>4
<1>4. [type |-> "new_block", block |-> block] \in KnownMsg
  BY DEF KnownMsg
<1>5. inbox' \in [Conn -> [Node -> Seq(KnownMsg)]]
  <2>1. inbox' = broadcast_message(n, [type |-> "new_block", block |-> block], boxes)
    BY DEF FinishNewBlock
  <2> HIDE DEF KnownMsg
  <2> QED BY <1>4, <2>1, BroadcastType
<1> QED BY <1>1, <1>3, <1>5

LEMMA KnownAppend ==
  ASSUME NEW c \in KnownChain, c # << >>, NEW b \in KnownBlock
  PROVE  Append(c, b) \in KnownChain /\ Append(c, b) # << >>
<1>1. c \in Seq(KnownBlock) /\ Header(c[1]) = FirstHeader
  BY DEF KnownChain
<1>2. /\ Append(c, b) \in Seq(KnownBlock)
      /\ Append(c, b)[1] = c[1]
      /\ Append(c, b) # << >>
  BY <1>1
<1> QED BY <1>1, <1>2 DEF KnownChain

LEMMA HandleNewBlockStep ==
  ASSUME NetInv, NEW c \in Conn, NEW n \in Ends(c), HandleNewBlock(c, n)
  PROVE  NetInv'
<1> DEFINE msg == Head(inbox[c][n])
           newBlock == msg.block
<1>1. n \in Node /\ PeersOK /\ UNCHANGED <<mining, minted, created, drops>>
  BY EndsAreNodes DEF NetInv, HandleNewBlock
<1>2. msg \in KnownMsg /\ Read(c, n) \in [Conn -> [Node -> Seq(KnownMsg)]]
  BY <1>1, ReadType DEF NetInv, HandleNewBlock, Reads
<1>3. newBlock \in KnownBlock /\ newBlock \in Block /\ msg.type = "new_block"
  BY <1>2, MessageFields DEF HandleNewBlock, Reads
<1>4. seen' \in [Node -> SUBSET ({"new_tx", "new_block"} \X Nat)]
  <2>1. seen' = MarkSeen(n, msg)
    BY DEF HandleNewBlock
  <2> HIDE DEF msg
  <2> QED BY <1>1, <1>3, <2>1, MarkSeenType DEF PeersOK
<1> DEFINE Typed == /\ mem_pool' \in [Node -> Seq(Tx)]
                    /\ mine_task' \in [Node -> Nat \cup {None}]
                    /\ live' \in [Node -> SUBSET Nat]
                    /\ chain' \in [Node -> KnownChain]
                    /\ waiting' \in [Node -> Seq(KnownWaiter)]
                    /\ inbox' \in [Conn -> [Node -> Seq(KnownMsg)]]
                    /\ up' \in SUBSET Conn
                    /\ \A m \in Node : chain'[m] = << >>
                         => /\ chain[m] = << >>
                            /\ mem_pool'[m] = mem_pool[m]
                            /\ waiting'[m] = waiting[m]
<1>5. CASE inbox' = Read(c, n)
           /\ UNCHANGED <<chain, mem_pool, mine_task, live, waiting, up>>
  <2>1. Typed
    BY <1>1, <1>2, <1>5 DEF NetInv, PeersOK
  <2> QED BY <1>1, <1>4, <2>1, SameKnown DEF NetInv, PeersOK, NotStarted
<1>6. CASE HandlerFails(c, n) /\ UNCHANGED <<chain, mem_pool, mine_task, live, waiting>>
  <2>1. inbox' \in [Conn -> [Node -> Seq(KnownMsg)]] /\ up' \in SUBSET Conn
    BY <1>1, <1>6, HandlerFailsType DEF NetInv, PeersOK
  <2>2. Typed
    BY <1>1, <1>6, <2>1 DEF NetInv, PeersOK
  <2> QED BY <1>1, <1>4, <2>2, SameKnown DEF NetInv, PeersOK, NotStarted
<1>7. CASE /\ chain[n] # << >> /\ isValidBlock(chain[n], newBlock)
           /\ chain' = [chain EXCEPT ![n] = Append(@, newBlock)]
           /\ \/ /\ FinishNewBlock(n, newBlock, live[n] \ {mine_task[n]}, Read(c, n))
                 /\ UNCHANGED waiting
              \/ /\ live' = [live EXCEPT ![n] = @ \ {mine_task[n]}]
                 /\ Park(n, "new_block", c, newBlock)
                 /\ inbox' = Read(c, n)
                 /\ UNCHANGED <<mem_pool, mine_task>>
           /\ UNCHANGED up
  <2>1. chain' \in [Node -> KnownChain]
    <3>1. Append(chain[n], newBlock) \in KnownChain
      <4> HIDE DEF msg
      <4> QED BY <1>1, <1>3, <1>7, KnownAppend DEF NetInv
    <3> HIDE DEF msg
    <3> QED BY <1>7, <3>1 DEF NetInv
  <2>2. \A m \in Node : chain'[m] = << >> => chain[m] = << >> /\ m # n
    <3>1. Append(chain[n], newBlock) # << >>
      <4> HIDE DEF msg
      <4> QED BY <1>1, <1>3, <1>7, KnownAppend DEF NetInv
    <3> HIDE DEF msg
    <3> QED BY <1>1, <1>7, <3>1 DEF NetInv
  <2>3. CASE /\ FinishNewBlock(n, newBlock, live[n] \ {mine_task[n]}, Read(c, n))
             /\ UNCHANGED waiting
    <3>1. live[n] \ {mine_task[n]} \in SUBSET Nat
      BY <1>1 DEF PeersOK
    <3> HIDE DEF msg
    <3>2. /\ mem_pool' \in [Node -> Seq(Tx)]
          /\ mine_task' \in [Node -> Nat \cup {None}]
          /\ live' \in [Node -> SUBSET Nat]
          /\ inbox' \in [Conn -> [Node -> Seq(KnownMsg)]]
          /\ \A m \in Node : m # n => mem_pool'[m] = mem_pool[m]
      BY <1>1, <1>2, <1>3, <2>3, <3>1, FinishNewBlockType
    <3>3. Typed
      BY <1>1, <1>7, <2>1, <2>2, <2>3, <3>2 DEF NetInv, PeersOK
    <3> QED BY <1>1, <1>4, <3>3, SameKnown DEF NetInv, PeersOK, NotStarted
  <2>4. CASE /\ live' = [live EXCEPT ![n] = @ \ {mine_task[n]}]
             /\ Park(n, "new_block", c, newBlock)
             /\ inbox' = Read(c, n)
             /\ UNCHANGED <<mem_pool, mine_task>>
    <3>1. [kind |-> "new_block", conn |-> c, data |-> newBlock] \in KnownWaiter
      BY <1>3 DEF KnownWaiter
    <3>2. live' \in [Node -> SUBSET Nat]
      BY <1>1, <2>4 DEF PeersOK
    <3> HIDE DEF msg
    <3>3. waiting' \in [Node -> Seq(KnownWaiter)]
      BY <1>1, <2>4, <3>1, ParkType DEF NetInv
    <3>4. \A m \in Node : m # n => waiting'[m] = waiting[m]
      BY <2>4 DEF Park, NetInv
    <3>5. Typed
      BY <1>1, <1>2, <1>7, <2>1, <2>2, <2>4, <3>2, <3>3, <3>4 DEF NetInv, PeersOK
    <3> QED BY <1>1, <1>4, <3>5, SameKnown DEF NetInv, PeersOK, NotStarted
  <2> QED BY <1>7, <2>3, <2>4
<1> QED BY <1>5, <1>6, <1>7 DEF HandleNewBlock

-----------------------------------------------------------------------------
LEMMA MiningRoundType ==
  ASSUME NetInv, NEW n \in Node, NEW task \in Nat, MiningRound(n, task)
  PROVE  /\ mem_pool' \in [Node -> Seq(Tx)]
         /\ mining' \in [Node -> Candidate \cup {None}]
         /\ \A m \in Node : m # n => mem_pool'[m] = mem_pool[m] /\ mining'[m] = mining[m]
         /\ chain[n] = << >> => mem_pool'[n] = << >> /\ mining'[n] = None
<1> DEFINE swept == Sweep(mem_pool[n], InChain(mem_pool[n], chain[n]))
           candidate == [task |-> task, prevHash |-> lastBlock(chain[n]).hash,
                         transactions |-> swept.taken]
<1>1. /\ mem_pool \in [Node -> Seq(Tx)]
      /\ mining \in [Node -> Candidate \cup {None}]
      /\ chain \in [Node -> KnownChain]
  BY DEF NetInv, PeersOK
<1>2. /\ mem_pool' = [mem_pool EXCEPT ![n] = swept.kept]
      /\ \/ mining' = [mining EXCEPT ![n] = None]
         \/ mining' = [mining EXCEPT ![n] = candidate] /\ swept.taken # << >>
  BY DEF MiningRound
<1>3. mem_pool' \in [Node -> Seq(Tx)] /\ swept.taken \in Seq(Tx)
  BY <1>1, <1>2, SweepPoolType
<1>4. chain[n] = << >> => swept.kept = << >> /\ swept.taken = << >>
  <2>1. SUFFICES ASSUME chain[n] = << >>
                 PROVE  swept.kept = << >> /\ swept.taken = << >>
    OBVIOUS
  <2>2. mem_pool[n] \in Seq({})
    BY <2>1 DEF NetInv, NotStarted
  <2>3. swept.kept \in Seq({}) /\ swept.taken \in Seq({})
    BY <2>2, SweepType
  <2> HIDE DEF swept
  <2> QED BY <2>3
<1>5. chain[n] # << >> => candidate \in Candidate
  <2>1. chain[n] # << >> => lastBlock(chain[n]).hash \in Nat
    <3>1. chain[n] \in Seq(KnownBlock)
      BY <1>1 DEF KnownChain
    <3>2. chain[n] # << >> => lastBlock(chain[n]) \in KnownBlock
      BY <3>1 DEF lastBlock
    <3> QED BY <3>2 DEF KnownBlock, Block
  <2> HIDE DEF swept
  <2> QED BY <1>3, <2>1 DEF Candidate
<1> HIDE DEF swept, candidate
<1> QED BY <1>1, <1>2, <1>3, <1>4, <1>5

LEMMA MinerWakesStep ==
  ASSUME NetInv, NEW n \in Node, NEW task \in live[n], MinerWakes(n, task)
  PROVE  NetInv'
<1>1. PeersOK /\ UNCHANGED <<chain, seen, mine_task, live, inbox, up, minted, created, drops>>
  BY DEF NetInv, MinerWakes
<1>2. task \in Nat
  BY <1>1 DEF PeersOK
<1>3. /\ mem_pool' \in [Node -> Seq(Tx)]
      /\ mining' \in [Node -> Candidate \cup {None}]
      /\ waiting' \in [Node -> Seq(KnownWaiter)]
      /\ \A m \in Node : chain[m] = << >> => NotStarted(m)'
  <2>1. CASE MiningRound(n, task) /\ UNCHANGED waiting
    BY <1>2, <2>1, MiningRoundType DEF NetInv, NotStarted
  <2>2. CASE /\ ~ LockIsFree(n) /\ Park(n, "mine", None, task)
             /\ UNCHANGED <<mem_pool, mining>>
    <3>1. [kind |-> "mine", conn |-> None, data |-> task] \in KnownWaiter
      BY <1>2 DEF KnownWaiter
    <3>2. waiting' \in [Node -> Seq(KnownWaiter)]
      BY <2>2, <3>1, ParkType DEF NetInv
    <3>3. chain[n] # << >> /\ \A m \in Node : m # n => waiting'[m] = waiting[m]
      BY <2>2 DEF LockIsFree, NetInv, NotStarted, Park
    <3> QED BY <1>1, <2>2, <3>2, <3>3 DEF NetInv, PeersOK, NotStarted
  <2> QED BY <2>1, <2>2 DEF MinerWakes
<1> QED BY <1>1, <1>3, SameKnown DEF NetInv, PeersOK

LEMMA KnownGrows ==
  ASSUME MintedInOrder, NEW b \in Block, b.hash = Len(minted),
         minted' = Append(minted, b)
  PROVE  /\ MintedInOrder'
         /\ KnownBlock \subseteq KnownBlock' /\ b \in KnownBlock'
         /\ KnownChain \subseteq KnownChain'
         /\ KnownMsg \subseteq KnownMsg'
         /\ KnownWaiter \subseteq KnownWaiter'
<1>1. /\ Len(minted) \in Nat /\ Len(minted) >= 1
      /\ minted' \in Seq(Block)
      /\ DOMAIN minted' = 1..(Len(minted) + 1)
      /\ \A i \in DOMAIN minted : i \in DOMAIN minted' /\ minted'[i] = minted[i]
      /\ minted'[Len(minted) + 1] = b
  BY DEF MintedInOrder
<1>2. MintedInOrder'
  BY <1>1 DEF MintedInOrder
<1>3. KnownBlock \subseteq KnownBlock' /\ b \in KnownBlock'
  BY <1>1 DEF KnownBlock
<1>4. KnownChain \subseteq KnownChain'
  <2> HIDE DEF KnownBlock
  <2> QED BY <1>3 DEF KnownChain
<1>5. KnownMsg \subseteq KnownMsg'
  BY <1>3, <1>4 DEF KnownMsg
<1>6. KnownWaiter \subseteq KnownWaiter'
  BY <1>3 DEF KnownWaiter
<1> QED BY <1>2, <1>3, <1>4, <1>5, <1>6

LEMMA MiningEndsStep ==
  ASSUME NetInv, NEW n \in Node, MiningEnds(n)
  PROVE  NetInv'
<1> DEFINE newBlock == [hash |-> Len(minted), prevHash |-> mining[n].prevHash,
                        transactions |-> mining[n].transactions, miner |-> n]
           msg == [type |-> "new_block", block |-> newBlock]
<1>1. /\ PeersOK /\ mining[n] # None
      /\ mining' = [mining EXCEPT ![n] = None]
      /\ UNCHANGED <<mine_task, live, waiting, up, created, drops>>
  BY DEF NetInv, MiningEnds
<1>2. chain[n] # << >>
  BY <1>1 DEF NetInv, NotStarted
<1>3. mining' \in [Node -> Candidate \cup {None}]
  BY <1>1 DEF PeersOK
<1>4. newBlock \in Block
  <2>1. mining[n] \in Candidate
    BY <1>1 DEF PeersOK
  <2>2. Len(minted) \in Nat /\ n \in Account
    BY NetworkAssumption DEF NetInv, MintedInOrder
  <2> QED BY <2>1, <2>2 DEF Block, Candidate
<1>5. CASE UNCHANGED <<chain, minted, mem_pool, seen, inbox>>
  <2>1. \A m \in Node : chain'[m] = << >> => NotStarted(m)'
    BY <1>1, <1>2, <1>5 DEF NetInv, NotStarted, PeersOK
  <2> QED BY <1>1, <1>3, <1>5, <2>1, SameKnown DEF NetInv, PeersOK
<1>6. CASE /\ chain' = [chain EXCEPT ![n] = Append(@, newBlock)]
           /\ minted' = Append(minted, newBlock)
           /\ mem_pool' = [mem_pool EXCEPT ![n] = Sweep(@, InBlock(@, newBlock)).kept]
           /\ seen' = MarkSeen(n, msg)
           /\ inbox' = broadcast_message(n, msg, inbox)
  <2> newBlock.hash = Len(minted)
    OBVIOUS
  <2>1. /\ MintedInOrder'
        /\ KnownBlock \subseteq KnownBlock' /\ newBlock \in KnownBlock'
        /\ KnownChain \subseteq KnownChain'
        /\ KnownMsg \subseteq KnownMsg'
        /\ KnownWaiter \subseteq KnownWaiter'
    <3> HIDE DEF newBlock
    <3> QED BY <1>4, <1>6, KnownGrows DEF NetInv
  <2>2. chain' \in [Node -> KnownChain'] /\ chain'[n] # << >>
        /\ \A m \in Node : m # n => chain'[m] = chain[m]
    <3>1. chain \in [Node -> KnownChain] /\ chain[n] \in Seq(KnownBlock')
          /\ Header(chain[n][1]) = FirstHeader
      <4>1. chain \in [Node -> KnownChain]
        BY DEF NetInv
      <4>2. chain[n] \in Seq(KnownBlock) /\ Header(chain[n][1]) = FirstHeader
        BY <1>2, <4>1 DEF KnownChain
      <4> QED BY <2>1, <4>1, <4>2
    <3>2. /\ Append(chain[n], newBlock) \in Seq(KnownBlock')
          /\ Append(chain[n], newBlock)[1] = chain[n][1]
          /\ Append(chain[n], newBlock) # << >>
      <4> HIDE DEF newBlock
      <4> QED BY <1>2, <2>1, <3>1
    <3>3. Append(chain[n], newBlock) \in KnownChain'
      BY <3>1, <3>2 DEF KnownChain
    <3> HIDE DEF newBlock
    <3> QED BY <1>6, <2>1, <3>1, <3>2, <3>3
  <2>3. mem_pool' \in [Node -> Seq(Tx)] /\ \A m \in Node : m # n => mem_pool'[m] = mem_pool[m]
    BY <1>1, <1>6, SweepPoolType DEF PeersOK
  <2>4. seen' \in [Node -> SUBSET ({"new_tx", "new_block"} \X Nat)]
    <3>1. msg.type = "new_block" /\ msg.block = newBlock
      OBVIOUS
    <3> HIDE DEF msg, newBlock
    <3> QED BY <1>1, <1>4, <1>6, <3>1, MarkSeenType DEF PeersOK
  <2>5. inbox' \in [Conn -> [Node -> Seq(KnownMsg')]]
    <3>1. msg \in KnownMsg'
      BY <2>1 DEF KnownMsg
    <3>2. inbox \in [Conn -> [Node -> Seq(KnownMsg')]]
      <4>1. Seq(KnownMsg) \subseteq Seq(KnownMsg')
        BY <2>1
      <4>2. inbox \in [Conn -> [Node -> Seq(KnownMsg)]]
        BY DEF NetInv
      <4> HIDE DEF KnownMsg
      <4> QED BY <4>1, <4>2
    <3> HIDE DEF msg, newBlock
    <3> QED BY <1>6, <3>1, <3>2, BroadcastType
  <2>6. waiting' \in [Node -> Seq(KnownWaiter')]
    <3>1. Seq(KnownWaiter) \subseteq Seq(KnownWaiter')
      BY <2>1
    <3> QED BY <1>1, <3>1 DEF NetInv
  <2>7. \A m \in Node : chain'[m] = << >> => NotStarted(m)'
    BY <1>1, <2>2, <2>3 DEF NetInv, NotStarted, PeersOK
  <2>8. PeersOK'
    BY <1>1, <1>3, <2>3, <2>4 DEF PeersOK
  <2> QED BY <2>1, <2>2, <2>5, <2>6, <2>7, <2>8 DEF NetInv
<1> QED BY <1>5, <1>6 DEF MiningEnds

LEMMA MiningCancelledStep ==
  ASSUME NetInv, NEW n \in Node, MiningCancelled(n)
  PROVE  NetInv'
<1>1. /\ PeersOK /\ mining' = [mining EXCEPT ![n] = None]
      /\ UNCHANGED <<chain, mem_pool, seen, mine_task, live, waiting, inbox, up, minted,
                     created, drops>>
  BY DEF NetInv, MiningCancelled
<1>2. mining' \in [Node -> Candidate \cup {None}]
      /\ \A m \in Node : mining[m] = None => mining'[m] = None
  BY <1>1 DEF PeersOK
<1> QED BY <1>1, <1>2, SameKnown DEF NetInv, PeersOK, NotStarted

LEMMA ResumeStep ==
  ASSUME NetInv, NEW n \in Node, Resume(n)
  PROVE  NetInv'
<1> DEFINE w == Head(waiting[n])
<1>1. /\ PeersOK /\ waiting[n] # << >>
      /\ waiting' = [waiting EXCEPT ![n] = Tail(@)]
      /\ UNCHANGED <<chain, seen, up, minted, created, drops>>
  BY DEF NetInv, Resume
<1>2. w \in KnownWaiter /\ waiting' \in [Node -> Seq(KnownWaiter)]
      /\ \A m \in Node : m # n => waiting'[m] = waiting[m]
  BY <1>1 DEF NetInv
<1>3. chain[n] # << >>
  BY <1>1 DEF NetInv, NotStarted
<1>4. /\ w.kind \in {"new_tx", "own_tx"} => w.data \in Tx
      /\ w.kind = "new_block" => w.data \in KnownBlock
      /\ w.kind = "mine" => w.data \in Nat
  <2> HIDE DEF w
  <2> QED BY <1>2 DEF KnownWaiter
<1> DEFINE Typed == /\ mem_pool' \in [Node -> Seq(Tx)]
                    /\ mine_task' \in [Node -> Nat \cup {None}]
                    /\ live' \in [Node -> SUBSET Nat]
                    /\ mining' \in [Node -> Candidate \cup {None}]
                    /\ inbox' \in [Conn -> [Node -> Seq(KnownMsg)]]
                    /\ \A m \in Node : m # n
                         => mem_pool'[m] = mem_pool[m] /\ mining'[m] = mining[m]
<1> HIDE DEF w
<1>5. Typed
  <2>1. CASE w.kind \in {"new_tx", "own_tx"} /\ AddTransaction(n, w.data, inbox)
             /\ UNCHANGED <<mine_task, live, mining>>
    BY <1>1, <1>4, <2>1, AddTransactionType DEF NetInv, PeersOK
  <2>2. CASE w.kind = "new_block" /\ FinishNewBlock(n, w.data, live[n], inbox)
             /\ UNCHANGED mining
    <3>1. live[n] \in SUBSET Nat
      BY <1>1 DEF PeersOK
    <3> QED BY <1>1, <1>4, <2>2, <3>1, FinishNewBlockType DEF NetInv, PeersOK
  <2>3. CASE /\ mem_pool' = [mem_pool EXCEPT ![n] = Sweep(@, InChain(@, chain[n])).kept]
             /\ UNCHANGED <<mine_task, live, mining, inbox>>
    BY <1>1, <2>3, SweepPoolType DEF NetInv, PeersOK
  <2>4. CASE /\ w.kind = "mine" /\ MiningRound(n, w.data)
             /\ UNCHANGED <<mine_task, live, inbox>>
    BY <1>1, <1>4, <2>4, MiningRoundType DEF NetInv, PeersOK
  <2>5. CASE UNCHANGED <<mem_pool, mine_task, live, mining, inbox>>
    BY <1>1, <2>5 DEF NetInv, PeersOK
  <2> QED BY <2>1, <2>2, <2>3, <2>4, <2>5 DEF Resume, w
<1>6. \A m \in Node : chain'[m] = << >> => NotStarted(m)'
  BY <1>1, <1>2, <1>3, <1>5 DEF NetInv, NotStarted
<1>7. PeersOK'
  BY <1>1, <1>5 DEF PeersOK
<1> QED BY <1>1, <1>2, <1>5, <1>6, <1>7, SameKnown DEF NetInv

-----------------------------------------------------------------------------
(***************************************************************************)
(* A message put at the end of one inbox.                                  *)
(***************************************************************************)
LEMMA SendType ==
  ASSUME NEW M, NEW boxes \in [Conn -> [Node -> Seq(M)]], NEW msg \in M,
         NEW c \in Conn, NEW m \in Node
  PROVE  [boxes[c] EXCEPT ![m] = Append(@, msg)] \in [Node -> Seq(M)]
<1>1. boxes[c] \in [Node -> Seq(M)] /\ boxes[c][m] \in Seq(M)
  OBVIOUS
<1>2. Append(boxes[c][m], msg) \in Seq(M)
  BY <1>1
<1> QED BY <1>1, <1>2

LEMMA FindLongestChainStep ==
  ASSUME NetInv, NEW n \in Node, find_longest_chain(n)
  PROVE  NetInv'
<1> DEFINE asks == {c \in up : n \in Ends(c) /\ ~ Asked(c, n)}
           msg == [type |-> "chain_request"]
<1>1. UNCHANGED <<chain, mem_pool, seen, mine_task, live, mining, waiting, up, minted,
                  created, drops>>
  BY DEF find_longest_chain
<1>2. inbox' = [c \in Conn |-> IF c \in asks
                               THEN [inbox[c] EXCEPT ![Other(c, n)] = Append(@, msg)]
                               ELSE inbox[c]]
  BY DEF find_longest_chain
<1>3. inbox \in [Conn -> [Node -> Seq(KnownMsg)]] /\ msg \in KnownMsg
  BY DEF NetInv, KnownMsg
<1>4. ASSUME NEW c \in Conn, c \in asks
      PROVE  [inbox[c] EXCEPT ![Other(c, n)] = Append(@, msg)] \in [Node -> Seq(KnownMsg)]
  <2>1. Other(c, n) \in Node
    BY <1>4, EndsAreNodes
  <2> HIDE DEF msg
  <2> QED BY <1>3, <2>1, SendType
<1>5. inbox' \in [Conn -> [Node -> Seq(KnownMsg)]]
  <2> HIDE DEF asks, msg
  <2> QED BY <1>2, <1>3, <1>4
<1> QED BY <1>1, <1>5, SameKnown DEF NetInv, PeersOK, NotStarted

(***************************************************************************)
(* A chain sent to another peer is the sender's, header by header.         *)
(***************************************************************************)
LEMMA WireType ==
  ASSUME NEW c \in KnownChain
  PROVE  to_block_dict_list(c) \in KnownChain
<1>1. c \in Seq(KnownBlock) /\ (c # << >> => Header(c[1]) = FirstHeader)
  BY DEF KnownChain
<1>2. ASSUME NEW b \in KnownBlock
      PROVE  over_the_wire(b) \in KnownBlock /\ Header(over_the_wire(b)) = Header(b)
  <2>1. over_the_wire(b) \in Block
    BY DEF KnownBlock, Block, over_the_wire
  <2>2. Header(over_the_wire(b)) = Header(b)
    BY DEF KnownBlock, Block, over_the_wire, Header
  <2> QED BY <2>1, <2>2 DEF KnownBlock
<1>3. /\ to_block_dict_list(c) \in Seq(KnownBlock)
      /\ Len(to_block_dict_list(c)) = Len(c)
      /\ \A i \in DOMAIN c : to_block_dict_list(c)[i] = over_the_wire(c[i])
  BY <1>1, <1>2 DEF to_block_dict_list
<1>4. to_block_dict_list(c) # << >>
        => c # << >> /\ Header(to_block_dict_list(c)[1]) = Header(c[1])
  <2>1. SUFFICES ASSUME to_block_dict_list(c) # << >>
                 PROVE  c # << >> /\ Header(to_block_dict_list(c)[1]) = Header(c[1])
    OBVIOUS
  <2>2. c # << >> /\ 1 \in DOMAIN c
    BY <1>1, <1>3, <2>1
  <2> QED BY <1>1, <1>2, <1>3, <2>2
<1> QED BY <1>1, <1>3, <1>4 DEF KnownChain

LEMMA HandleChainRequestStep ==
  ASSUME NetInv, NEW c \in Conn, NEW n \in Ends(c), HandleChainRequest(c, n)
  PROVE  NetInv'
<1> DEFINE msg == [type |-> "chain", chain |-> to_block_dict_list(chain[n])]
<1>1. /\ n \in Node /\ Other(c, n) \in Node
      /\ UNCHANGED <<chain, mem_pool, seen, mine_task, live, mining, waiting, up, minted,
                     created, drops>>
  BY EndsAreNodes DEF HandleChainRequest
<1>2. Read(c, n) \in [Conn -> [Node -> Seq(KnownMsg)]]
  BY <1>1, ReadType DEF NetInv, HandleChainRequest, Reads
<1>3. msg \in KnownMsg
  <2>1. to_block_dict_list(chain[n]) \in KnownChain
    BY <1>1, WireType DEF NetInv
  <2> QED BY <2>1 DEF KnownMsg
<1>4. \/ inbox' = Read(c, n)
      \/ inbox' = [Read(c, n) EXCEPT
                     ![c] = [Read(c, n)[c] EXCEPT
                               ![Other(c, n)] = Append(Read(c, n)[c][Other(c, n)], msg)]]
  BY DEF HandleChainRequest
<1>5. inbox' \in [Conn -> [Node -> Seq(KnownMsg)]]
  <2>1. [Read(c, n)[c] EXCEPT ![Other(c, n)] = Append(@, msg)] \in [Node -> Seq(KnownMsg)]
    <3> HIDE DEF msg
    <3> QED BY <1>1, <1>2, <1>3, SendType
  <2> HIDE DEF msg
  <2> QED BY <1>2, <1>4, <2>1
<1> QED BY <1>1, <1>5, SameKnown DEF NetInv, PeersOK, NotStarted

LEMMA HandleChainStep ==
  ASSUME NetInv, NEW c \in Conn, NEW n \in Ends(c), HandleChain(c, n)
  PROVE  NetInv'
<1> DEFINE block_list == Head(inbox[c][n]).chain
<1>1. /\ n \in Node /\ PeersOK
      /\ UNCHANGED <<seen, mine_task, live, mining, up, minted, created, drops>>
      /\ inbox' = Read(c, n)
  BY EndsAreNodes DEF NetInv, HandleChain
<1>2. Head(inbox[c][n]) \in KnownMsg /\ Read(c, n) \in [Conn -> [Node -> Seq(KnownMsg)]]
  BY <1>1, ReadType DEF NetInv, HandleChain, Reads
<1>3. block_list \in KnownChain
  BY <1>2, MessageFields DEF HandleChain, Reads
<1> HIDE DEF block_list
<1>4. CASE UNCHANGED <<chain, mem_pool, waiting>>
  BY <1>1, <1>2, <1>4, SameKnown DEF NetInv, PeersOK, NotStarted
<1>5. CASE /\ chain[n] = << >> /\ chain' = [chain EXCEPT ![n] = block_list]
           /\ UNCHANGED <<mem_pool, waiting>>
  <2>1. /\ chain' \in [Node -> KnownChain]
        /\ \A m \in Node : chain'[m] = << >> => chain[m] = << >>
    BY <1>1, <1>3, <1>5 DEF NetInv
  <2> QED BY <1>1, <1>2, <1>5, <2>1, SameKnown DEF NetInv, PeersOK, NotStarted
<1>6. CASE /\ chain[n] # << >> /\ chain' = [chain EXCEPT ![n] = rewrite(@, block_list)]
           /\ \/ PurgeConfirmed(n) /\ UNCHANGED waiting
              \/ Park(n, "chain", c, None) /\ UNCHANGED mem_pool
  <2>1. rewrite(chain[n], block_list) \in KnownChain /\ rewrite(chain[n], block_list) # << >>
    <3>1. chain[n] \in KnownChain /\ chain[n] \in Seq(KnownBlock)
          /\ block_list \in Seq(KnownBlock)
      BY <1>1, <1>3 DEF NetInv, KnownChain
    <3>2. Len(chain[n]) > 0
      BY <1>6, <3>1
    <3> QED BY <1>3, <1>6, <3>1, <3>2 DEF rewrite
  <2>2. /\ chain' \in [Node -> KnownChain]
        /\ \A m \in Node : chain'[m] = << >> => m # n /\ chain[m] = << >>
    BY <1>1, <1>6, <2>1 DEF NetInv
  <2>3. /\ mem_pool' \in [Node -> Seq(Tx)]
        /\ waiting' \in [Node -> Seq(KnownWaiter)]
        /\ \A m \in Node : m # n => mem_pool'[m] = mem_pool[m] /\ waiting'[m] = waiting[m]
    <3>1. CASE PurgeConfirmed(n) /\ UNCHANGED waiting
      BY <1>1, <3>1, SweepPoolType DEF NetInv, PeersOK, PurgeConfirmed
    <3>2. CASE Park(n, "chain", c, None) /\ UNCHANGED mem_pool
      <4>1. [kind |-> "chain", conn |-> c, data |-> None] \in KnownWaiter
        BY DEF KnownWaiter
      <4>2. waiting' \in [Node -> Seq(KnownWaiter)]
        BY <1>1, <3>2, <4>1, ParkType DEF NetInv
      <4> QED BY <1>1, <3>2, <4>2 DEF NetInv, PeersOK, Park
    <3> QED BY <1>6, <3>1, <3>2
  <2> QED BY <1>1, <1>2, <2>2, <2>3, SameKnown DEF NetInv, PeersOK, NotStarted
<1> QED BY <1>4, <1>5, <1>6 DEF HandleChain, block_list

LEMMA DisconnectStep ==
  ASSUME NetInv, NEW c \in Conn, Disconnect(c)
  PROVE  NetInv'
<1>1. /\ PeersOK /\ drops' = drops + 1 /\ up' = up \ {c}
      /\ UNCHANGED <<chain, mem_pool, seen, mine_task, live, mining, waiting, minted, created>>
  BY DEF NetInv, Disconnect
<1>2. PICK lost \in SUBSET Ends(c) :
        inbox' = [inbox EXCEPT ![c] = [n \in Node |-> IF n \in lost THEN << >> ELSE @[n]]]
  BY DEF Disconnect
<1>3. inbox[c] \in [Node -> Seq(KnownMsg)] /\ << >> \in Seq(KnownMsg)
  BY DEF NetInv
<1>4. [n \in Node |-> IF n \in lost THEN << >> ELSE inbox[c][n]] \in [Node -> Seq(KnownMsg)]
  BY <1>3
<1>5. inbox' \in [Conn -> [Node -> Seq(KnownMsg)]]
  BY <1>2, <1>4 DEF NetInv
<1>6. PeersOK'
  BY <1>1 DEF PeersOK
<1> QED BY <1>1, <1>5, <1>6, SameKnown DEF NetInv, NotStarted

LEMMA ConnectStep ==
  ASSUME NetInv, NEW c \in Conn, connect_to_peer(c)
  PROVE  NetInv'
BY SameKnown DEF NetInv, PeersOK, NotStarted, connect_to_peer

-----------------------------------------------------------------------------
LEMMA NetInit == Init => NetInv
<1> SUFFICES ASSUME Init PROVE NetInv
  OBVIOUS
<1> DEFINE first == genesis_block(Founder)
<1>1. first \in Block /\ first.hash = 0 /\ Header(first) = FirstHeader
  <2>1. Founder \in Account
    BY NetworkAssumption
  <2>2. [id |-> 0, sender |-> Genesis, receiver |-> Founder, amount |-> GenesisGrant] \in Tx
    BY <2>1 DEF Tx, GenesisGrant
  <2> QED BY <2>2 DEF Block, genesis_block, Header, FirstHeader
<1>2. minted = <<first>> /\ MintedInOrder
  BY <1>1 DEF Init, MintedInOrder
<1>3. first \in KnownBlock
  BY <1>1, <1>2 DEF KnownBlock
<1>4. <<first>> \in KnownChain /\ << >> \in KnownChain
  BY <1>1, <1>3 DEF KnownChain
<1>5. chain \in [Node -> KnownChain] /\ \A n \in Node : chain[n] = << >> => NotStarted(n)
  BY <1>4 DEF Init, NotStarted
<1>6. PeersOK
  BY DEF Init, PeersOK
<1>7. waiting \in [Node -> Seq(KnownWaiter)] /\ inbox \in [Conn -> [Node -> Seq(KnownMsg)]]
  BY DEF Init
<1> QED BY <1>2, <1>5, <1>6, <1>7 DEF NetInv

LEMMA NetStep == NetInv /\ [Next]_vars => NetInv'
<1> SUFFICES ASSUME NetInv, [Next]_vars PROVE NetInv'
  OBVIOUS
<1>1. ASSUME NEW n \in Node, NEW rec \in Account \ {n}, NEW amt \in Amount,
             create_and_broadcast_tx(n, rec, amt)
      PROVE  NetInv'
  BY <1>1, CreateStep
<1>2. ASSUME NEW n \in Node, NEW task \in live[n], MinerWakes(n, task) PROVE NetInv'
  BY <1>2, MinerWakesStep
<1>3. ASSUME NEW n \in Node,
             MiningEnds(n) \/ MiningCancelled(n) \/ Resume(n) \/ find_longest_chain(n)
      PROVE  NetInv'
  BY <1>3, MiningEndsStep, MiningCancelledStep, ResumeStep, FindLongestChainStep
<1>4. ASSUME NEW c \in Conn, NEW n \in Ends(c), HandleMessage(c, n) PROVE NetInv'
  BY <1>4, HandleNewTxStep, HandleNewBlockStep, HandleChainRequestStep, HandleChainStep
     DEF HandleMessage
<1>5. ASSUME NEW c \in Conn, Disconnect(c) \/ connect_to_peer(c) PROVE NetInv'
  BY <1>5, DisconnectStep, ConnectStep
<1>6. CASE UNCHANGED vars
  BY <1>6, SameKnown DEF vars, NetInv, PeersOK, NotStarted
<1> QED BY <1>1, <1>2, <1>3, <1>4, <1>5, <1>6 DEF Next

THEOREM NetInvariant == Spec => []NetInv
BY NetInit, NetStep, PTL DEF Spec

(***************************************************************************)
(* Type correctness of the peers.                                          *)
(***************************************************************************)
THEOREM NetworkTypeOK == Spec => []TypeOK
<1>1. NetInv => TypeOK
  <2> SUFFICES ASSUME NetInv PROVE TypeOK
    OBVIOUS
  <2>1. KnownBlock \subseteq Block
    BY DEF KnownBlock
  <2>2. KnownChain \subseteq Seq(Block)
    BY <2>1 DEF KnownChain
  <2>3. KnownMsg \subseteq Msg /\ KnownWaiter \subseteq Waiter
    BY <2>1, <2>2 DEF KnownMsg, Msg, KnownWaiter, Waiter
  <2>4. Seq(KnownMsg) \subseteq Seq(Msg) /\ Seq(KnownWaiter) \subseteq Seq(Waiter)
    BY <2>3
  <2>5. chain \in [Node -> Seq(Block)]
    BY <2>2 DEF NetInv
  <2>6. waiting \in [Node -> Seq(Waiter)] /\ inbox \in [Conn -> [Node -> Seq(Msg)]]
    BY <2>4 DEF NetInv
  <2> QED BY <2>5, <2>6 DEF NetInv, PeersOK, MintedInOrder, TypeOK
<1> QED BY <1>1, NetInvariant, PTL

-----------------------------------------------------------------------------
(***************************************************************************)
(* The candidate and the pool.  Wherever the pool changes, the lock was    *)
(* free or is just being handed over, so no candidate is in the making.    *)
(***************************************************************************)
FromPool(n) ==
  mining[n] # None =>
    \A k \in DOMAIN mining[n].transactions :
      \E i \in DOMAIN mem_pool[n] : mem_pool[n][i] = mining[n].transactions[k]

Untouched(n) == mining'[n] = mining[n] /\ mem_pool'[n] = mem_pool[n]

LEMMA MiningRoundFromPool ==
  ASSUME NetInv, NEW n \in Node, NEW task, MiningRound(n, task)
  PROVE  /\ FromPool(n)'
         /\ \A m \in Node : m # n => Untouched(m)
<1> DEFINE swept == Sweep(mem_pool[n], InChain(mem_pool[n], chain[n]))
<1>1. mem_pool \in [Node -> Seq(Tx)] /\ mining \in [Node -> Candidate \cup {None}]
  BY DEF NetInv, PeersOK
<1>2. /\ mem_pool' = [mem_pool EXCEPT ![n] = swept.kept]
      /\ \/ mining' = [mining EXCEPT ![n] = None]
         \/ mining' = [mining EXCEPT ![n] = [task |-> task,
                                             prevHash |-> lastBlock(chain[n]).hash,
                                             transactions |-> swept.taken]]
  BY DEF MiningRound
<1>3. \A k \in DOMAIN swept.taken : \E i \in DOMAIN swept.kept : swept.kept[i] = swept.taken[k]
  BY <1>1, SweepType
<1> HIDE DEF swept
<1>4. FromPool(n)'
  BY <1>1, <1>2, <1>3 DEF FromPool
<1> QED BY <1>1, <1>2, <1>4 DEF Untouched

LEMMA CandidateStep == NetInv /\ CandidateFromPool /\ [Next]_vars => CandidateFromPool'
<1> SUFFICES ASSUME NetInv, CandidateFromPool, [Next]_vars,
                    NEW m \in Node
             PROVE  FromPool(m)'
  BY DEF CandidateFromPool, FromPool
<1>1. FromPool(m)
  BY DEF CandidateFromPool, FromPool
<1>2. Untouched(m) => FromPool(m)'
  BY <1>1 DEF Untouched, FromPool
<1>3. mining'[m] = None => FromPool(m)'
  BY DEF FromPool
<1>4. mem_pool \in [Node -> Seq(Tx)] /\ mining \in [Node -> Candidate \cup {None}]
  BY DEF NetInv, PeersOK
<1>5. ASSUME NEW n \in Node, NEW rec, NEW amt, create_and_broadcast_tx(n, rec, amt)
      PROVE  Untouched(m) \/ mining'[m] = None
  BY <1>4, <1>5 DEF create_and_broadcast_tx, AddTransaction, LockIsFree, Untouched
<1>6. ASSUME NEW c \in Conn, NEW n \in Ends(c), HandleMessage(c, n)
      PROVE  Untouched(m) \/ mining'[m] = None
  <2>1. n \in Node
    BY EndsAreNodes
  <2>2. CASE HandleNewTx(c, n)
    BY <1>4, <2>1, <2>2 DEF HandleNewTx, AddTransaction, LockIsFree, Untouched
  <2>3. CASE HandleNewBlock(c, n)
    BY <1>4, <2>1, <2>3 DEF HandleNewBlock, FinishNewBlock, LockIsFree, Untouched
  <2>4. CASE HandleChainRequest(c, n)
    BY <2>4 DEF HandleChainRequest, Untouched
  <2>5. CASE HandleChain(c, n)
    BY <1>4, <2>1, <2>5 DEF HandleChain, PurgeConfirmed, LockIsFree, Untouched
  <2> QED BY <1>6, <2>2, <2>3, <2>4, <2>5 DEF HandleMessage
<1>7. ASSUME NEW n \in Node, NEW task \in live[n], MinerWakes(n, task)
      PROVE  FromPool(m)'
  <2>1. CASE MiningRound(n, task)
    BY <1>2, <2>1, MiningRoundFromPool
  <2>2. CASE UNCHANGED <<mem_pool, mining>>
    BY <1>2, <2>2 DEF Untouched
  <2> QED BY <1>7, <2>1, <2>2 DEF MinerWakes
<1>8. ASSUME NEW n \in Node, MiningEnds(n) \/ MiningCancelled(n)
      PROVE  Untouched(m) \/ mining'[m] = None
  BY <1>4, <1>8 DEF MiningEnds, MiningCancelled, Untouched
<1>9. ASSUME NEW n \in Node, Resume(n) PROVE FromPool(m)'
  <2>1. CASE MiningRound(n, Head(waiting[n]).data)
    BY <1>2, <2>1, MiningRoundFromPool
  <2>2. CASE UNCHANGED mining /\ \A o \in Node : o # n => mem_pool'[o] = mem_pool[o]
    BY <1>2, <1>3, <1>9, <2>2 DEF Resume, Untouched
  <2> QED BY <1>4, <1>9, <2>1, <2>2 DEF Resume, AddTransaction, FinishNewBlock
<1>10. ASSUME NEW n \in Node, find_longest_chain(n) PROVE Untouched(m)
  BY <1>10 DEF find_longest_chain, Untouched
<1>11. ASSUME NEW c \in Conn, Disconnect(c) \/ connect_to_peer(c) PROVE Untouched(m)
  BY <1>11 DEF Disconnect, connect_to_peer, Untouched
<1>12. CASE UNCHANGED vars
  BY <1>2, <1>12 DEF vars, Untouched
<1> QED BY <1>2, <1>3, <1>5, <1>6, <1>7, <1>8, <1>9, <1>10, <1>11, <1>12 DEF Next

(***************************************************************************)
(* A candidate's transactions stay in the miner's pool until its proof of  *)
(* work ends.                                                              *)
(***************************************************************************)
THEOREM NetworkCandidate == Spec => []CandidateFromPool
<1>1. Init => CandidateFromPool
  BY DEF Init, CandidateFromPool
<1> QED BY <1>1, CandidateStep, NetInvariant, PTL DEF Spec

-----------------------------------------------------------------------------
(***************************************************************************)
(* The peers implement ChainReplica: their chains, read as headers, change *)
(* only as it allows.                                                      *)
(***************************************************************************)

mintedHeaders == {Header(minted[i]) : i \in DOMAIN minted}

ChainHeaders(c) == [i \in DOMAIN c |-> Header(c[i])]

-----------------------------------------------------------------------------
(***************************************************************************)
(* The headers of known blocks are headers that were made.                 *)
(***************************************************************************)
LEMMA KnownHeaders ==
  ASSUME NEW c \in Seq(KnownBlock)
  PROVE  /\ ChainHeaders(c) \in Seq(mintedHeaders)
         /\ Len(ChainHeaders(c)) = Len(c)
         /\ DOMAIN c = 1..Len(c) /\ Len(c) \in Nat
         /\ \A i \in DOMAIN c : /\ ChainHeaders(c)[i] = Header(c[i])
                                /\ ChainHeaders(c)[i].hash = c[i].hash
                                /\ ChainHeaders(c)[i].prevHash = c[i].prevHash
<1>1. \A b \in KnownBlock : HeaderOf(b) \in mintedHeaders
  BY DEF KnownBlock, mintedHeaders, Header, HeaderOf
<1>2. ChainHeaders(c) = HeadersOf(c)
  BY DEF ChainHeaders, HeadersOf, Header, HeaderOf
<1>3. \A b : Header(b) = HeaderOf(b)
  BY DEF Header, HeaderOf
<1> QED BY <1>1, <1>2, <1>3, HeadersType

LEMMA AppendHeaders ==
  ASSUME NEW c \in Seq(KnownBlock), NEW b
  PROVE  ChainHeaders(Append(c, b)) = Append(ChainHeaders(c), Header(b))
<1>1. \A d : ChainHeaders(d) = HeadersOf(d)
  BY DEF ChainHeaders, HeadersOf, Header, HeaderOf
<1>2. Header(b) = HeaderOf(b)
  BY DEF Header, HeaderOf
<1> QED BY <1>1, <1>2, HeadersAppend

LEMMA PeerHeaders ==
  ASSUME NetInv, NEW n \in Node
  PROVE  /\ chain[n] \in KnownChain /\ chain[n] \in Seq(KnownBlock)
         /\ headers[n] = ChainHeaders(chain[n])
         /\ headers[n] = << >> <=> chain[n] = << >>
<1>1. chain[n] \in KnownChain /\ chain[n] \in Seq(KnownBlock)
  BY DEF NetInv, KnownChain
<1>2. headers[n] = ChainHeaders(chain[n])
  BY DEF headers, ChainHeaders
<1>3. headers[n] = << >> <=> chain[n] = << >>
  BY <1>1, <1>2, KnownHeaders
<1> QED BY <1>1, <1>2, <1>3

(***************************************************************************)
(* A peer that appends block to its chain appends its header.              *)
(***************************************************************************)
LEMMA AppendStep ==
  ASSUME NetInv, NEW n \in Node, NEW b, chain[n] # << >>,
         isValidBlock(chain[n], b),
         chain' = [chain EXCEPT ![n] = Append(@, b)]
  PROVE  /\ headers' = [headers EXCEPT ![n] = Append(@, Header(b))]
         /\ headers[n] # << >>
         /\ Header(b).prevHash = Replica!tip(headers[n])
         /\ headers'[n] # << >> /\ Replica!tip(headers'[n]) = b.hash
<1>1. /\ chain[n] \in Seq(KnownBlock) /\ headers[n] = ChainHeaders(chain[n])
      /\ headers[n] # << >>
  BY PeerHeaders
<1>2. /\ headers[n] \in Seq(mintedHeaders) /\ Len(headers[n]) = Len(chain[n])
      /\ Len(chain[n]) \in DOMAIN chain[n]
      /\ headers[n][Len(chain[n])].hash = chain[n][Len(chain[n])].hash
  BY <1>1, KnownHeaders
<1>3. Header(b).prevHash = Replica!tip(headers[n])
  BY <1>2 DEF isValidBlock, lastBlock, Header, Replica!tip
<1>4. ChainHeaders(Append(chain[n], b)) = Append(headers[n], Header(b))
  BY <1>1, AppendHeaders
<1>5. chain \in [Node -> KnownChain]
  BY DEF NetInv
<1>6. headers' = [headers EXCEPT ![n] = Append(@, Header(b))]
  <2>1. chain'[n] = Append(chain[n], b) /\ \A m \in Node : m # n => chain'[m] = chain[m]
    BY <1>5
  <2>2. headers = [m \in Node |-> ChainHeaders(chain[m])]
        /\ headers' = [m \in Node |-> ChainHeaders(chain'[m])]
    BY DEF headers, ChainHeaders
  <2>3. \A m \in Node : ChainHeaders(chain'[m]) = IF m = n THEN Append(headers[n], Header(b))
                                                          ELSE headers[m]
    <3>1. \A m \in Node : headers[m] = ChainHeaders(chain[m])
      BY <2>2
    <3>2. ChainHeaders(chain'[n]) = Append(headers[n], Header(b))
      BY <1>4, <2>1, Zenon
    <3>3. \A m \in Node : m # n => ChainHeaders(chain'[m]) = headers[m]
      BY <2>1, <3>1, Zenon
    <3> QED BY <3>2, <3>3
  <2>4. headers' = [m \in Node |-> IF m = n THEN Append(headers[n], Header(b)) ELSE headers[m]]
    BY <2>2, <2>3
  <2>5. headers = [m \in Node |-> headers[m]]
    BY <2>2
  <2> QED BY <2>4, <2>5
<1>7. headers'[n] = Append(headers[n], Header(b))
  BY <1>6 DEF headers
<1>8. headers'[n] # << >> /\ Replica!tip(headers'[n]) = b.hash
  <2>1. /\ Len(Append(headers[n], Header(b))) = Len(headers[n]) + 1
        /\ Append(headers[n], Header(b))[Len(headers[n]) + 1] = Header(b)
        /\ Append(headers[n], Header(b)) # << >>
    BY <1>2
  <2> QED BY <1>7, <2>1 DEF Replica!tip, Header
<1> QED BY <1>1, <1>3, <1>6, <1>8

-----------------------------------------------------------------------------
LEMMA SameHeaders ==
  ASSUME UNCHANGED <<chain, minted>>
  PROVE  UNCHANGED Replica!vars
BY DEF headers, Replica!vars

LEMMA NewBlockAccepts ==
  ASSUME NetInv, NEW c \in Conn, NEW n \in Ends(c), HandleNewBlock(c, n)
  PROVE  Replica!Next \/ UNCHANGED Replica!vars
<1> DEFINE newBlock == Head(inbox[c][n]).block
<1>1. n \in Node /\ UNCHANGED minted
  BY EndsAreNodes DEF HandleNewBlock
<1>2. newBlock \in KnownBlock
  <2>1. Head(inbox[c][n]) \in KnownMsg
    BY <1>1, ReadType DEF NetInv, HandleNewBlock, Reads
  <2> QED BY <2>1, MessageFields DEF HandleNewBlock, Reads
<1>3. CASE UNCHANGED chain
  BY <1>1, <1>3, SameHeaders
<1>4. CASE /\ chain[n] # << >> /\ isValidBlock(chain[n], newBlock)
           /\ chain' = [chain EXCEPT ![n] = Append(@, newBlock)]
  <2> HIDE DEF newBlock
  <2>1. /\ headers' = [headers EXCEPT ![n] = Append(@, Header(newBlock))]
        /\ headers[n] # << >>
        /\ Header(newBlock).prevHash = Replica!tip(headers[n])
    BY <1>1, <1>4, AppendStep
  <2>2. Header(newBlock) \in mintedHeaders /\ UNCHANGED mintedHeaders
    BY <1>1, <1>2 DEF KnownBlock, mintedHeaders
  <2>3. Replica!Accept(n)
    BY <2>1, <2>2 DEF Replica!Accept, mintedHeaders
  <2> QED BY <1>1, <2>3 DEF Replica!Next
<1> QED BY <1>3, <1>4 DEF HandleNewBlock

LEMMA MiningMints ==
  ASSUME NetInv, NEW n \in Node, MiningEnds(n)
  PROVE  Replica!Next \/ UNCHANGED Replica!vars
<1> DEFINE newBlock == [hash |-> Len(minted), prevHash |-> mining[n].prevHash,
                        transactions |-> mining[n].transactions, miner |-> n]
<1>1. chain[n] # << >>
  BY DEF NetInv, NotStarted, MiningEnds
<1>2. CASE UNCHANGED <<chain, minted>>
  BY <1>2, SameHeaders
<1>3. CASE /\ isValidBlock(chain[n], newBlock)
           /\ chain' = [chain EXCEPT ![n] = Append(@, newBlock)]
           /\ minted' = Append(minted, newBlock)
  <2>1. newBlock.hash = Len(minted)
    OBVIOUS
  <2> HIDE DEF newBlock
  <2>2. /\ headers' = [headers EXCEPT ![n] = Append(@, Header(newBlock))]
        /\ headers[n] # << >>
        /\ Header(newBlock).prevHash = Replica!tip(headers[n])
        /\ headers'[n] # << >> /\ Replica!tip(headers'[n]) = newBlock.hash
    BY <1>1, <1>3, AppendStep
  <2>3. Header(newBlock) = [hash |-> Len(minted), prevHash |-> Replica!tip(headers[n])]
    BY <2>1, <2>2 DEF Header
  <2>4. /\ minted \in Seq(Block) /\ Len(minted) \in Nat
        /\ \A i \in DOMAIN minted : minted[i].hash = i - 1 /\ i - 1 # Len(minted)
    BY DEF NetInv, MintedInOrder
  <2>5. \A b \in mintedHeaders : b.hash # Len(minted)
    BY <2>4 DEF mintedHeaders, Header
  <2>6. mintedHeaders' = mintedHeaders \cup {Header(newBlock)}
    <3>1. /\ DOMAIN minted' = DOMAIN minted \cup {Len(minted) + 1}
          /\ \A i \in DOMAIN minted : minted'[i] = minted[i]
          /\ minted'[Len(minted) + 1] = newBlock
      BY <1>3, <2>4
    <3> QED BY <3>1 DEF mintedHeaders
  <2>7. Replica!Mint(n, Len(minted))
    BY <2>2, <2>3, <2>4, <2>5, <2>6 DEF Replica!Mint, mintedHeaders
  <2> QED BY <2>1, <2>2, <2>7 DEF Replica!Next
<1> QED BY <1>2, <1>3 DEF MiningEnds

LEMMA ChainAdopts ==
  ASSUME NetInv, NEW c \in Conn, NEW n \in Ends(c), HandleChain(c, n)
  PROVE  Replica!Next \/ UNCHANGED Replica!vars
<1> DEFINE block_list == Head(inbox[c][n]).chain
<1>1. n \in Node /\ UNCHANGED minted
  BY EndsAreNodes DEF HandleChain
<1>2. block_list \in KnownChain /\ block_list \in Seq(KnownBlock)
      /\ chain[n] \in Seq(KnownBlock) /\ chain \in [Node -> KnownChain]
  <2>1. Head(inbox[c][n]) \in KnownMsg
    BY <1>1, ReadType DEF NetInv, HandleChain, Reads
  <2>2. block_list \in KnownChain
    BY <2>1, MessageFields DEF HandleChain, Reads
  <2> HIDE DEF block_list
  <2> QED BY <1>1, <2>2 DEF NetInv, KnownChain
<1> HIDE DEF block_list
<1>3. CASE UNCHANGED chain
  BY <1>1, <1>3, SameHeaders
<1>4. CASE /\ isvalidChain(block_list)
           /\ Len(block_list) > Len(chain[n])
           /\ chain' = [chain EXCEPT ![n] = block_list]
  <2> DEFINE taken == ChainHeaders(block_list)
  <2>1. /\ taken \in Seq(mintedHeaders) /\ Len(taken) = Len(block_list)
        /\ Len(headers[n]) = Len(chain[n])
        /\ Len(chain[n]) \in Nat /\ DOMAIN block_list = 1..Len(block_list)
        /\ \A i \in DOMAIN block_list : /\ taken[i] = Header(block_list[i])
                                        /\ taken[i].hash = block_list[i].hash
                                        /\ taken[i].prevHash = block_list[i].prevHash
    BY <1>1, <1>2, KnownHeaders, PeerHeaders
  <2> HIDE DEF taken
  <2>2. Replica!Linked(taken)
    <3>1. block_list # << >> /\ taken # << >> /\ 1 \in DOMAIN block_list
      BY <1>2, <1>4, <2>1
    <3>2. taken[1] = Replica!genesis
      BY <1>2, <2>1, <3>1 DEF KnownChain, FirstHeader, Replica!genesis
    <3>3. ASSUME NEW i \in 2..Len(taken) PROVE taken[i].prevHash = taken[i-1].hash
      <4>1. i \in DOMAIN block_list /\ i - 1 \in DOMAIN block_list
        BY <2>1
      <4>2. block_list[i].prevHash = block_list[i-1].hash
        BY <1>4, <2>1 DEF isvalidChain, ExtendsList
      <4> QED BY <2>1, <4>1, <4>2
    <3> QED BY <3>1, <3>2, <3>3 DEF Replica!Linked
  <2>3. headers' = [headers EXCEPT ![n] = taken] /\ headers'[n] = taken
    <3>1. headers = [m \in Node |-> ChainHeaders(chain[m])]
          /\ headers' = [m \in Node |-> ChainHeaders(chain'[m])]
      BY DEF headers, ChainHeaders
    <3>2. chain'[n] = block_list /\ \A m \in Node : m # n => chain'[m] = chain[m]
      BY <1>1, <1>2, <1>4
    <3>3. headers' = [m \in Node |-> IF m = n THEN taken ELSE headers[m]]
      <4>1. \A m \in Node : headers[m] = ChainHeaders(chain[m])
        BY <3>1
      <4>2. ChainHeaders(chain'[n]) = taken
        BY <3>2 DEF taken
      <4>3. \A m \in Node : m # n => ChainHeaders(chain'[m]) = headers[m]
        BY <3>2, <4>1, Zenon
      <4> QED BY <3>1, <4>2, <4>3
    <3>4. headers = [m \in Node |-> headers[m]]
      BY <3>1
    <3> QED BY <1>1, <3>3, <3>4
  <2>4. Replica!Adopt(n, taken)
    BY <1>1, <1>4, <2>1, <2>2, <2>3 DEF Replica!Adopt, mintedHeaders
  <2> QED BY <1>1, <2>3, <2>4 DEF Replica!Next
<1>5. \/ UNCHANGED chain
      \/ /\ isvalidChain(block_list)
         /\ Len(block_list) > Len(chain[n])
         /\ chain' = [chain EXCEPT ![n] = block_list]
  <2>1. CASE isvalidChain(block_list) /\ chain[n] = << >>
             /\ chain' = [chain EXCEPT ![n] = block_list]
    <3>1. block_list = << >> => UNCHANGED chain
      BY <1>1, <1>2, <2>1
    <3>2. block_list # << >> => Len(block_list) > 0 /\ Len(chain[n]) = 0
      BY <1>2, <2>1
    <3> QED BY <2>1, <3>1, <3>2
  <2>2. CASE isvalidChain(block_list) /\ chain' = [chain EXCEPT ![n] = rewrite(@, block_list)]
    <3>1. Len(chain[n]) \in Nat /\ Len(block_list) \in Nat
      BY <1>2
    <3>2. CASE Len(chain[n]) >= Len(block_list)
      <4>1. chain' = [chain EXCEPT ![n] = chain[n]]
        BY <2>2, <3>2 DEF rewrite
      <4> QED BY <1>2, <4>1
    <3>3. CASE ~ (Len(chain[n]) >= Len(block_list))
      <4>1. chain' = [chain EXCEPT ![n] = block_list]
        BY <2>2, <3>3 DEF rewrite
      <4>2. Len(block_list) > Len(chain[n])
        BY <3>1, <3>3
      <4> QED BY <2>2, <4>1, <4>2
    <3> QED BY <3>2, <3>3
  <2>3. \/ UNCHANGED chain
        \/ isvalidChain(block_list) /\ chain[n] = << >>
           /\ chain' = [chain EXCEPT ![n] = block_list]
        \/ isvalidChain(block_list) /\ chain' = [chain EXCEPT ![n] = rewrite(@, block_list)]
    BY DEF HandleChain, block_list
  <2> QED BY <2>1, <2>2, <2>3
<1> QED BY <1>3, <1>4, <1>5

-----------------------------------------------------------------------------
LEMMA InitImplements == Init => Replica!Init
<1> SUFFICES ASSUME Init PROVE Replica!Init
  OBVIOUS
<1>1. Header(genesis_block(Founder)) = Replica!genesis
  BY DEF Header, genesis_block, Replica!genesis
<1>2. {Header(minted[i]) : i \in DOMAIN minted} = {Replica!genesis}
  BY <1>1 DEF Init
<1>3. headers = [n \in Node |-> IF n = Founder THEN <<Replica!genesis>> ELSE << >>]
  BY <1>1 DEF Init, headers
<1> QED BY <1>2, <1>3 DEF Replica!Init

LEMMA StepImplements == NetInv /\ [Next]_vars => [Replica!Next]_(Replica!vars)
<1> SUFFICES ASSUME NetInv, [Next]_vars PROVE Replica!Next \/ UNCHANGED Replica!vars
  OBVIOUS
<1>1. ASSUME NEW n \in Node,
             \/ \E rec \in Account \ {n}, amt \in Amount : create_and_broadcast_tx(n, rec, amt)
             \/ \E task \in live[n] : MinerWakes(n, task)
             \/ MiningCancelled(n) \/ Resume(n) \/ find_longest_chain(n)
      PROVE  UNCHANGED <<chain, minted>>
  BY <1>1 DEF create_and_broadcast_tx, MinerWakes, MiningCancelled, Resume, find_longest_chain
<1>2. ASSUME NEW n \in Node, MiningEnds(n) PROVE Replica!Next \/ UNCHANGED Replica!vars
  BY <1>2, MiningMints
<1>3. ASSUME NEW c \in Conn, NEW n \in Ends(c), HandleMessage(c, n)
      PROVE  Replica!Next \/ UNCHANGED Replica!vars
  <2>1. CASE HandleNewTx(c, n) \/ HandleChainRequest(c, n)
    BY <2>1, SameHeaders DEF HandleNewTx, HandleChainRequest
  <2> QED BY <1>3, <2>1, NewBlockAccepts, ChainAdopts DEF HandleMessage
<1>4. ASSUME NEW c \in Conn, Disconnect(c) \/ connect_to_peer(c)
      PROVE  UNCHANGED <<chain, minted>>
  BY <1>4 DEF Disconnect, connect_to_peer
<1>5. CASE UNCHANGED vars
  BY <1>5, SameHeaders DEF vars
<1> QED BY <1>1, <1>2, <1>3, <1>4, <1>5, SameHeaders DEF Next

(***************************************************************************)
(* The peers implement ChainReplica, so PrefixAgreement and ChainsGrow     *)
(* hold of the headers of their chains.                                    *)
(***************************************************************************)
THEOREM NetworkImplementsReplica == Spec => ReplicaSpec
BY InitImplements, StepImplements, NetInvariant, PTL DEF Spec, ReplicaSpec, Replica!Spec

-----------------------------------------------------------------------------
(***************************************************************************)
(* No pool holds a transaction twice, and no chain holds one twice.        *)
(***************************************************************************)

(***************************************************************************)
(* The pool and the line for the lock, at one peer: PoolHasNoCopies, and   *)
(* everything in the pool or in line for it is marked as seen.             *)
(***************************************************************************)
Queued(queue) == {k \in DOMAIN queue : queue[k].kind \in {"new_tx", "own_tx"}}

Tidy(pool, queue, marks) ==
  /\ DistinctIds(pool)
  /\ \A k, l \in Queued(queue) : queue[k].data.id = queue[l].data.id => k = l
  /\ \A k \in Queued(queue), i \in DOMAIN pool : queue[k].data.id # pool[i].id
  /\ \A i \in DOMAIN pool : <<"new_tx", pool[i].id>> \in marks
  /\ \A k \in Queued(queue) : <<"new_tx", queue[k].data.id>> \in marks

LEMMA TidyMarks ==
  ASSUME NEW pool, NEW queue, NEW marks, NEW more,
         Tidy(pool, queue, marks), marks \subseteq more
  PROVE  Tidy(pool, queue, more)
BY DEF Tidy

(***************************************************************************)
(* A transaction not seen before goes into the pool.                       *)
(***************************************************************************)
LEMMA TidyAdd ==
  ASSUME NEW S, NEW pool \in Seq(S), NEW queue, NEW marks, NEW tx,
         Tidy(pool, queue, marks), <<"new_tx", tx.id>> \notin marks
  PROVE  Tidy(Append(pool, tx), queue, marks \cup {<<"new_tx", tx.id>>})
<1> DEFINE p == Append(pool, tx)
           e == Len(pool) + 1
<1>1. /\ DOMAIN p = DOMAIN pool \cup {e} /\ e \notin DOMAIN pool /\ p[e] = tx
      /\ \A i \in DOMAIN pool : p[i] = pool[i]
  BY AppendFacts
<1>2. \A i \in DOMAIN pool : pool[i].id # tx.id
  BY DEF Tidy
<1>3. \A k \in Queued(queue) : queue[k].data.id # tx.id
  BY DEF Tidy
<1> HIDE DEF p, e
<1>4. DistinctIds(p)
  BY <1>1, <1>2 DEF Tidy, DistinctIds
<1>5. \A k \in Queued(queue), i \in DOMAIN p : queue[k].data.id # p[i].id
  BY <1>1, <1>3 DEF Tidy
<1>6. \A i \in DOMAIN p : <<"new_tx", p[i].id>> \in marks \cup {<<"new_tx", tx.id>>}
  BY <1>1 DEF Tidy
<1>7. Tidy(p, queue, marks \cup {<<"new_tx", tx.id>>})
  BY <1>4, <1>5, <1>6 DEF Tidy
<1> QED BY <1>7 DEF p

(***************************************************************************)
(* ... or into the line for it.                                            *)
(***************************************************************************)
LEMMA TidyPark ==
  ASSUME NEW W, NEW pool, NEW queue \in Seq(W), NEW marks, NEW w,
         Tidy(pool, queue, marks), <<"new_tx", w.data.id>> \notin marks
  PROVE  Tidy(pool, Append(queue, w), marks \cup {<<"new_tx", w.data.id>>})
<1> DEFINE q == Append(queue, w)
           e == Len(queue) + 1
<1>1. /\ DOMAIN q = DOMAIN queue \cup {e} /\ e \notin DOMAIN queue /\ q[e] = w
      /\ \A i \in DOMAIN queue : q[i] = queue[i]
  BY AppendFacts
<1> HIDE DEF q, e
<1>2. Queued(q) \subseteq Queued(queue) \cup {e} /\ e \notin Queued(queue)
      /\ \A k \in Queued(queue) : q[k] = queue[k]
  BY <1>1 DEF Queued
<1>3. \A i \in DOMAIN pool : pool[i].id # w.data.id
  BY DEF Tidy
<1>4. \A k \in Queued(queue) : queue[k].data.id # w.data.id
  BY DEF Tidy
<1>5. \A k, l \in Queued(q) : q[k].data.id = q[l].data.id => k = l
  BY <1>1, <1>2, <1>4 DEF Tidy
<1>6. \A k \in Queued(q), i \in DOMAIN pool : q[k].data.id # pool[i].id
  BY <1>1, <1>2, <1>3 DEF Tidy
<1>7. \A k \in Queued(q) : <<"new_tx", q[k].data.id>> \in marks \cup {<<"new_tx", w.data.id>>}
  BY <1>1, <1>2 DEF Tidy
<1>8. Tidy(pool, q, marks \cup {<<"new_tx", w.data.id>>})
  BY <1>5, <1>6, <1>7 DEF Tidy
<1> QED BY <1>8 DEF q

LEMMA TidyParkOther ==
  ASSUME NEW W, NEW pool, NEW queue \in Seq(W), NEW marks, NEW w,
         Tidy(pool, queue, marks), w.kind \notin {"new_tx", "own_tx"}
  PROVE  Tidy(pool, Append(queue, w), marks)
<1> DEFINE q == Append(queue, w)
           e == Len(queue) + 1
<1>1. /\ DOMAIN q = DOMAIN queue \cup {e} /\ q[e] = w
      /\ \A i \in DOMAIN queue : q[i] = queue[i]
  BY AppendFacts
<1> HIDE DEF q, e
<1>2. Queued(q) \subseteq Queued(queue) /\ \A k \in Queued(queue) : q[k] = queue[k]
  BY <1>1 DEF Queued
<1>3. \A k, l \in Queued(q) : q[k].data.id = q[l].data.id => k = l
  <2> SUFFICES ASSUME NEW k \in Queued(q), NEW l \in Queued(q), q[k].data.id = q[l].data.id
               PROVE  k = l
    OBVIOUS
  <2>1. /\ k \in Queued(queue) /\ q[k] = queue[k]
        /\ l \in Queued(queue) /\ q[l] = queue[l]
    BY <1>2
  <2> QED BY <2>1 DEF Tidy
<1>4. /\ \A k \in Queued(q), i \in DOMAIN pool : q[k].data.id # pool[i].id
      /\ \A k \in Queued(q) : <<"new_tx", q[k].data.id>> \in marks
  <2> SUFFICES ASSUME NEW k \in Queued(q)
               PROVE  /\ \A i \in DOMAIN pool : q[k].data.id # pool[i].id
                      /\ <<"new_tx", q[k].data.id>> \in marks
    OBVIOUS
  <2>1. k \in Queued(queue) /\ q[k] = queue[k]
    BY <1>2
  <2> QED BY <2>1 DEF Tidy
<1>5. Tidy(pool, q, marks)
  BY <1>3, <1>4 DEF Tidy
<1> QED BY <1>5 DEF q

(***************************************************************************)
(* The first in line leaves it, for the pool if it is a transaction.       *)
(***************************************************************************)
LEMMA TidyNext ==
  ASSUME NEW S, NEW W, NEW pool \in Seq(S), NEW queue \in Seq(W), NEW marks,
         queue # << >>, Tidy(pool, queue, marks)
  PROVE  /\ Tidy(pool, Tail(queue), marks)
         /\ Head(queue).kind \in {"new_tx", "own_tx"}
              => Tidy(Append(pool, Head(queue).data), Tail(queue), marks)
<1> DEFINE q == Tail(queue)
           p == Append(pool, queue[1].data)
           e == Len(pool) + 1
<1>1. /\ Head(queue) = queue[1] /\ 1 \in DOMAIN queue
      /\ \A i \in DOMAIN q : /\ q[i] = queue[i + 1]
                             /\ i + 1 \in DOMAIN queue /\ i \in Nat /\ i + 1 # 1
  BY TailFacts
<1>2. /\ DOMAIN p = DOMAIN pool \cup {e} /\ e \notin DOMAIN pool /\ p[e] = queue[1].data
      /\ \A i \in DOMAIN pool : p[i] = pool[i]
  BY AppendFacts
<1> HIDE DEF q, p, e
<1>3. \A k \in Queued(q) : /\ q[k] = queue[k + 1] /\ k + 1 \in Queued(queue)
                           /\ k \in Nat /\ k + 1 # 1
  BY <1>1 DEF Queued
<1>4. \A k, l \in Queued(q) : q[k].data.id = q[l].data.id => k = l
  <2>1. ASSUME NEW k \in Queued(q), NEW l \in Queued(q), q[k].data.id = q[l].data.id
        PROVE  k = l
    <3>1. k + 1 = l + 1 /\ k \in Nat /\ l \in Nat
      <4>1. /\ k + 1 \in Queued(queue) /\ q[k] = queue[k + 1] /\ k \in Nat
            /\ l + 1 \in Queued(queue) /\ q[l] = queue[l + 1] /\ l \in Nat
        BY <1>3, <2>1
      <4> QED BY <2>1, <4>1 DEF Tidy
    <3> QED BY <3>1
  <2> QED BY <2>1
<1>5. Tidy(pool, q, marks)
  <2>1. /\ \A k \in Queued(q), i \in DOMAIN pool : q[k].data.id # pool[i].id
        /\ \A k \in Queued(q) : <<"new_tx", q[k].data.id>> \in marks
    <3> SUFFICES ASSUME NEW k \in Queued(q)
                 PROVE  /\ \A i \in DOMAIN pool : q[k].data.id # pool[i].id
                        /\ <<"new_tx", q[k].data.id>> \in marks
      OBVIOUS
    <3>1. k + 1 \in Queued(queue) /\ q[k] = queue[k + 1]
      BY <1>3
    <3> QED BY <3>1 DEF Tidy
  <2> QED BY <1>4, <2>1 DEF Tidy
<1>6. ASSUME queue[1].kind \in {"new_tx", "own_tx"}
      PROVE  Tidy(p, q, marks)
  <2>1. 1 \in Queued(queue)
    BY <1>1, <1>6 DEF Queued
  <2>2. \A i \in DOMAIN pool : pool[i].id # queue[1].data.id
    BY <2>1 DEF Tidy
  <2>3. \A k \in Queued(q) : q[k].data.id # queue[1].data.id
    BY <1>3, <2>1 DEF Tidy
  <2>4. DistinctIds(p)
    BY <1>2, <2>2 DEF Tidy, DistinctIds
  <2>5. \A k \in Queued(q), i \in DOMAIN p : q[k].data.id # p[i].id
    BY <1>2, <1>5, <2>3 DEF Tidy
  <2>6. \A i \in DOMAIN p : <<"new_tx", p[i].id>> \in marks
    BY <1>2, <2>1 DEF Tidy
  <2> QED BY <1>5, <2>4, <2>5, <2>6 DEF Tidy
<1> QED BY <1>1, <1>5, <1>6 DEF p, q

(***************************************************************************)
(* A swept pool is as tidy: the sweep only takes away.                     *)
(***************************************************************************)
LEMMA TidySweep ==
  ASSUME NEW S, NEW pool \in Seq(S), NEW queue, NEW marks, NEW gone,
         Tidy(pool, queue, marks)
  PROVE  Tidy(Sweep(pool, gone).kept, queue, marks)
<1> DEFINE Members == {pool[i] : i \in DOMAIN pool}
           kept == Sweep(pool, gone).kept
<1>1. pool \in Seq(Members)
  OBVIOUS
<1>2. kept \in Seq(Members)
  <2> HIDE DEF Members
  <2> QED BY <1>1, SweepType
<1>3. DistinctIds(kept)
  BY SweepDistinct DEF Tidy
<1> HIDE DEF kept
<1>4. \A i \in DOMAIN kept : \E j \in DOMAIN pool : kept[i] = pool[j]
  BY <1>2
<1>5. Tidy(kept, queue, marks)
  BY <1>3, <1>4 DEF Tidy
<1> QED BY <1>5 DEF kept

-----------------------------------------------------------------------------
(***************************************************************************)
(* The transactions there are: a set K of them, no two with the same id,   *)
(* none with an id not yet given out, and everything a peer holds, parks,  *)
(* mines or has on the way is made of members of K.                        *)
(***************************************************************************)
GoodBlock(K) == {b \in Block : b.transactions \in Seq(K) /\ DistinctIds(b.transactions)}

GoodChain(K) == {c \in Seq(GoodBlock(K)) : Apart(c)}

GoodCandidate(K) ==
  {m \in Candidate : m.transactions \in Seq(K) /\ DistinctIds(m.transactions)}

GoodMsg(K) == [type : {"new_tx"}, transaction : K]
         \cup [type : {"new_block"}, block : GoodBlock(K)]
         \cup [type : {"chain_request"}]
         \cup [type : {"chain"}, chain : GoodChain(K)]

GoodWaiter(K) == [kind : {"new_tx"}, conn : Conn, data : K]
            \cup [kind : {"new_block"}, conn : Conn, data : GoodBlock(K)]
            \cup [kind : {"chain"}, conn : Conn, data : {None}]
            \cup [kind : {"own_tx"}, conn : {None}, data : K]
            \cup [kind : {"mine"}, conn : {None}, data : Nat]

MadeOf(K) ==
  /\ chain \in [Node -> GoodChain(K)]
  /\ mem_pool \in [Node -> Seq(K)]
  /\ mining \in [Node -> GoodCandidate(K) \cup {None}]
  /\ waiting \in [Node -> Seq(GoodWaiter(K))]
  /\ inbox \in [Conn -> [Node -> Seq(GoodMsg(K))]]

TxInv(K) ==
  /\ K \in SUBSET Tx
  /\ UniqueIds(K)
  /\ \A t \in K : t.id <= created
  /\ MadeOf(K)

SeenInv == \A n \in Node : \A mark \in seen[n] : mark[1] = "new_tx" => mark[2] <= created

PoolInv == \A n \in Node : Tidy(mem_pool[n], waiting[n], seen[n])

LedgerInv ==
  /\ NetInv
  /\ SeenInv
  /\ PoolInv
  /\ \E K \in SUBSET Tx : TxInv(K)

-----------------------------------------------------------------------------
(***************************************************************************)
(* A larger set of transactions admits all a smaller one does.             *)
(***************************************************************************)
LEMMA GoodGrows ==
  ASSUME NEW K, NEW L, K \subseteq L
  PROVE  /\ GoodChain(K) \subseteq GoodChain(L)
         /\ GoodCandidate(K) \subseteq GoodCandidate(L)
         /\ GoodMsg(K) \subseteq GoodMsg(L)
         /\ GoodWaiter(K) \subseteq GoodWaiter(L)
         /\ Seq(K) \subseteq Seq(L)
<1>1. Seq(K) \subseteq Seq(L)
  OBVIOUS
<1>2. GoodBlock(K) \subseteq GoodBlock(L)
  BY <1>1 DEF GoodBlock
<1>3. Seq(GoodBlock(K)) \subseteq Seq(GoodBlock(L))
  BY <1>2
<1>4. GoodChain(K) \subseteq GoodChain(L)
  BY <1>3 DEF GoodChain
<1>5. GoodCandidate(K) \subseteq GoodCandidate(L)
  BY <1>1 DEF GoodCandidate
<1>6. GoodMsg(K) \subseteq GoodMsg(L)
  BY <1>2, <1>4 DEF GoodMsg
<1>7. GoodWaiter(K) \subseteq GoodWaiter(L)
  BY <1>2 DEF GoodWaiter
<1> QED BY <1>1, <1>4, <1>5, <1>6, <1>7

LEMMA MadeOfMore ==
  ASSUME NEW K, NEW L, K \subseteq L, MadeOf(K)
  PROVE  MadeOf(L)
<1>1. /\ GoodChain(K) \subseteq GoodChain(L)
      /\ GoodCandidate(K) \cup {None} \subseteq GoodCandidate(L) \cup {None}
      /\ Seq(GoodMsg(K)) \subseteq Seq(GoodMsg(L))
      /\ Seq(GoodWaiter(K)) \subseteq Seq(GoodWaiter(L))
      /\ Seq(K) \subseteq Seq(L)
  <2>1. GoodMsg(K) \subseteq GoodMsg(L) /\ GoodWaiter(K) \subseteq GoodWaiter(L)
    BY GoodGrows
  <2> QED BY <2>1, GoodGrows
<1>2. inbox \in [Conn -> [Node -> Seq(GoodMsg(L))]]
  BY <1>1 DEF MadeOf
<1> QED BY <1>1, <1>2 DEF MadeOf

LEMMA GoodFields ==
  ASSUME NEW K
  PROVE  /\ \A msg \in GoodMsg(K) :
              /\ msg.type = "new_tx" => msg.transaction \in K
              /\ msg.type = "new_block" => msg.block \in GoodBlock(K)
              /\ msg.type = "chain" => msg.chain \in GoodChain(K)
         /\ \A w \in GoodWaiter(K) :
              /\ w.kind \in {"new_tx", "own_tx"} => w.data \in K
              /\ w.kind = "new_block" => w.data \in GoodBlock(K)
<1>1. ASSUME NEW msg \in GoodMsg(K)
      PROVE  /\ msg.type = "new_tx" => msg.transaction \in K
             /\ msg.type = "new_block" => msg.block \in GoodBlock(K)
             /\ msg.type = "chain" => msg.chain \in GoodChain(K)
  BY DEF GoodMsg
<1>2. ASSUME NEW w \in GoodWaiter(K)
      PROVE  /\ w.kind \in {"new_tx", "own_tx"} => w.data \in K
             /\ w.kind = "new_block" => w.data \in GoodBlock(K)
  BY DEF GoodWaiter
<1> QED BY <1>1, <1>2

(***************************************************************************)
(* isValidBlock compares whole transactions; as ids name them, a block     *)
(* that passes it brings no id that the chain has.                         *)
(***************************************************************************)
LEMMA GoodAppend ==
  ASSUME NEW K, UniqueIds(K), NEW c \in GoodChain(K), NEW b \in GoodBlock(K),
         isValidBlock(c, b)
  PROVE  Append(c, b) \in GoodChain(K)
<1>1. /\ c \in Seq(GoodBlock(K)) /\ Apart(c)
      /\ \A i \in DOMAIN c : c[i] \in GoodBlock(K)
  BY DEF GoodChain
<1>2. ASSUME NEW i \in DOMAIN c,
             NEW k \in DOMAIN c[i].transactions, NEW l \in DOMAIN b.transactions
      PROVE  c[i].transactions[k].id # b.transactions[l].id
  <2>1. c[i].transactions[k] # b.transactions[l]
    BY DEF isValidBlock, transaction_exists_in_chain, transaction_exists_in_block
  <2>2. c[i].transactions[k] \in K /\ b.transactions[l] \in K
    BY <1>1 DEF GoodBlock
  <2> QED BY <2>1, <2>2 DEF UniqueIds
<1>3. Apart(Append(c, b))
  BY <1>1, <1>2, ApartAppend DEF Fresh
<1>4. Append(c, b) \in Seq(GoodBlock(K))
  BY <1>1
<1> QED BY <1>3, <1>4 DEF GoodChain

LEMMA WireGood ==
  ASSUME NEW K, NEW c \in GoodChain(K)
  PROVE  to_block_dict_list(c) \in GoodChain(K)
<1> DEFINE d == to_block_dict_list(c)
<1>1. c \in Seq(GoodBlock(K)) /\ Apart(c)
  BY DEF GoodChain
<1>2. ASSUME NEW b \in GoodBlock(K)
      PROVE  over_the_wire(b) \in GoodBlock(K)
             /\ over_the_wire(b).transactions = b.transactions
  <2>1. b \in Block /\ b.transactions \in Seq(K) /\ DistinctIds(b.transactions)
    BY DEF GoodBlock
  <2>2. over_the_wire(b) \in Block /\ over_the_wire(b).transactions = b.transactions
    BY <2>1 DEF Block, over_the_wire
  <2> QED BY <2>1, <2>2 DEF GoodBlock
<1>3. /\ d \in Seq(GoodBlock(K)) /\ DOMAIN d = DOMAIN c
      /\ \A i \in DOMAIN c : d[i].transactions = c[i].transactions
  BY <1>1, <1>2 DEF to_block_dict_list
<1> HIDE DEF d
<1>4. Apart(d)
  BY <1>1, <1>3 DEF Apart
<1>5. d \in GoodChain(K)
  BY <1>3, <1>4 DEF GoodChain
<1> QED BY <1>5 DEF d

-----------------------------------------------------------------------------
(***************************************************************************)
(* Each action keeps what the peers hold made of members of K.             *)
(***************************************************************************)
LEMMA MakesCreate ==
  ASSUME NetInv, NEW K, MadeOf(K), NEW n \in Node, NEW rec \in Account, NEW amt \in Amount,
         create_and_broadcast_tx(n, rec, amt),
         [id |-> created + 1, sender |-> n, receiver |-> rec, amount |-> amt] \in K
  PROVE  MadeOf(K)'
<1> DEFINE tx == [id |-> created + 1, sender |-> n, receiver |-> rec, amount |-> amt]
<1> HIDE DEF tx
<1>1. tx \in K /\ UNCHANGED <<chain, mining>>
  BY DEF tx, create_and_broadcast_tx
<1>2. CASE AddTransaction(n, tx, inbox) /\ UNCHANGED waiting
  <2>1. [type |-> "new_tx", transaction |-> tx] \in GoodMsg(K)
    BY <1>1 DEF GoodMsg
  <2>2. mem_pool' \in [Node -> Seq(K)] /\ inbox' \in [Conn -> [Node -> Seq(GoodMsg(K))]]
    BY <1>1, <1>2, <2>1, PoolAndSend DEF MadeOf
  <2> QED BY <1>1, <1>2, <2>2 DEF MadeOf
<1>3. CASE Park(n, "own_tx", None, tx) /\ UNCHANGED <<mem_pool, inbox>>
  <2>1. [kind |-> "own_tx", conn |-> None, data |-> tx] \in GoodWaiter(K)
    BY <1>1 DEF GoodWaiter
  <2>2. waiting' \in [Node -> Seq(GoodWaiter(K))]
    BY <1>3, <2>1, ParkType DEF MadeOf
  <2> QED BY <1>1, <1>3, <2>2 DEF MadeOf
<1> QED BY <1>2, <1>3 DEF create_and_broadcast_tx, tx

LEMMA MakesHandleNewTx ==
  ASSUME NetInv, NEW K, MadeOf(K), NEW c \in Conn, NEW n \in Ends(c), HandleNewTx(c, n)
  PROVE  MadeOf(K)'
<1> DEFINE msg == Head(inbox[c][n])
<1> HIDE DEF msg
<1>1. n \in Node /\ UNCHANGED <<chain, mining>>
  BY EndsAreNodes DEF HandleNewTx
<1>2. /\ msg \in GoodMsg(K) /\ msg.type = "new_tx"
      /\ Read(c, n) \in [Conn -> [Node -> Seq(GoodMsg(K))]]
  BY <1>1, ReadType DEF MadeOf, HandleNewTx, Reads, msg
<1>3. msg.transaction \in K
  BY <1>2, GoodFields
<1>4. CASE inbox' = Read(c, n) /\ UNCHANGED <<mem_pool, waiting>>
  BY <1>1, <1>2, <1>4 DEF MadeOf
<1>5. CASE HandlerFails(c, n) /\ UNCHANGED <<mem_pool, waiting>>
  <2>1. inbox' \in [Conn -> [Node -> Seq(GoodMsg(K))]]
    BY <1>1, <1>5, HandlerFailsType DEF MadeOf, NetInv, PeersOK
  <2> QED BY <1>1, <1>5, <2>1 DEF MadeOf
<1>6. CASE AddTransaction(n, msg.transaction, Read(c, n)) /\ UNCHANGED waiting
  <2>1. [type |-> "new_tx", transaction |-> msg.transaction] \in GoodMsg(K)
    BY <1>3 DEF GoodMsg
  <2>2. mem_pool' \in [Node -> Seq(K)] /\ inbox' \in [Conn -> [Node -> Seq(GoodMsg(K))]]
    BY <1>1, <1>2, <1>3, <1>6, <2>1, PoolAndSend DEF MadeOf
  <2> QED BY <1>1, <1>6, <2>2 DEF MadeOf
<1>7. CASE Park(n, "new_tx", c, msg.transaction) /\ inbox' = Read(c, n) /\ UNCHANGED mem_pool
  <2>1. [kind |-> "new_tx", conn |-> c, data |-> msg.transaction] \in GoodWaiter(K)
    BY <1>3 DEF GoodWaiter
  <2>2. waiting' \in [Node -> Seq(GoodWaiter(K))]
    BY <1>1, <1>7, <2>1, ParkType DEF MadeOf
  <2> QED BY <1>1, <1>2, <1>7, <2>2 DEF MadeOf
<1> QED BY <1>4, <1>5, <1>6, <1>7 DEF HandleNewTx, msg

(***************************************************************************)
(* A block goes on to the others and its transactions leave the pool.      *)
(***************************************************************************)
LEMMA SweepAndSend ==
  ASSUME NEW K, mem_pool \in [Node -> Seq(K)], NEW n \in Node,
         NEW block \in GoodBlock(K),
         NEW boxes \in [Conn -> [Node -> Seq(GoodMsg(K))]]
  PROVE  /\ [mem_pool EXCEPT ![n] = Sweep(@, InBlock(@, block)).kept] \in [Node -> Seq(K)]
         /\ broadcast_message(n, [type |-> "new_block", block |-> block], boxes)
              \in [Conn -> [Node -> Seq(GoodMsg(K))]]
<1>1. [type |-> "new_block", block |-> block] \in GoodMsg(K)
  BY DEF GoodMsg
<1> QED BY <1>1, SweepPoolType, BroadcastType

LEMMA MakesHandleNewBlock ==
  ASSUME NetInv, NEW K, UniqueIds(K), MadeOf(K), NEW c \in Conn, NEW n \in Ends(c),
         HandleNewBlock(c, n)
  PROVE  MadeOf(K)'
<1> DEFINE msg == Head(inbox[c][n])
<1> HIDE DEF msg
<1>1. n \in Node /\ UNCHANGED mining
  BY EndsAreNodes DEF HandleNewBlock
<1>2. /\ msg \in GoodMsg(K) /\ msg.type = "new_block"
      /\ Read(c, n) \in [Conn -> [Node -> Seq(GoodMsg(K))]]
  BY <1>1, ReadType DEF MadeOf, HandleNewBlock, Reads, msg
<1>3. msg.block \in GoodBlock(K)
  BY <1>2, GoodFields
<1>4. CASE inbox' = Read(c, n) /\ UNCHANGED <<chain, mem_pool, waiting>>
  BY <1>1, <1>2, <1>4 DEF MadeOf
<1>5. CASE HandlerFails(c, n) /\ UNCHANGED <<chain, mem_pool, waiting>>
  <2>1. inbox' \in [Conn -> [Node -> Seq(GoodMsg(K))]]
    BY <1>1, <1>5, HandlerFailsType DEF MadeOf, NetInv, PeersOK
  <2> QED BY <1>1, <1>5, <2>1 DEF MadeOf
<1>6. CASE /\ isValidBlock(chain[n], msg.block)
           /\ chain' = [chain EXCEPT ![n] = Append(@, msg.block)]
           /\ \/ /\ FinishNewBlock(n, msg.block, live[n] \ {mine_task[n]}, Read(c, n))
                 /\ UNCHANGED waiting
              \/ /\ Park(n, "new_block", c, msg.block)
                 /\ inbox' = Read(c, n)
                 /\ UNCHANGED mem_pool
  <2>1. chain' \in [Node -> GoodChain(K)]
    <3>1. Append(chain[n], msg.block) \in GoodChain(K)
      BY <1>1, <1>3, <1>6, GoodAppend DEF MadeOf
    <3> QED BY <1>6, <3>1 DEF MadeOf
  <2>2. CASE /\ FinishNewBlock(n, msg.block, live[n] \ {mine_task[n]}, Read(c, n))
             /\ UNCHANGED waiting
    <3>1. mem_pool' \in [Node -> Seq(K)] /\ inbox' \in [Conn -> [Node -> Seq(GoodMsg(K))]]
      BY <1>1, <1>2, <1>3, <2>2, SweepAndSend DEF FinishNewBlock, MadeOf
    <3> QED BY <1>1, <2>1, <2>2, <3>1 DEF MadeOf
  <2>3. CASE /\ Park(n, "new_block", c, msg.block)
             /\ inbox' = Read(c, n)
             /\ UNCHANGED mem_pool
    <3>1. [kind |-> "new_block", conn |-> c, data |-> msg.block] \in GoodWaiter(K)
      BY <1>3 DEF GoodWaiter
    <3>2. waiting' \in [Node -> Seq(GoodWaiter(K))]
      BY <1>1, <2>3, <3>1, ParkType DEF MadeOf
    <3> QED BY <1>1, <1>2, <2>1, <2>3, <3>2 DEF MadeOf
  <2> QED BY <1>6, <2>2, <2>3
<1> QED BY <1>4, <1>5, <1>6 DEF HandleNewBlock, msg

(***************************************************************************)
(* A candidate is collected from a pool without copies.                    *)
(***************************************************************************)
LEMMA MakesMiningRound ==
  ASSUME NetInv, PoolInv, NEW K, MadeOf(K), NEW n \in Node, NEW task \in Nat,
         MiningRound(n, task)
  PROVE  /\ mem_pool' \in [Node -> Seq(K)]
         /\ mining' \in [Node -> GoodCandidate(K) \cup {None}]
<1> DEFINE swept == Sweep(mem_pool[n], InChain(mem_pool[n], chain[n]))
<1>1. mining' \in [Node -> Candidate \cup {None}]
  BY MiningRoundType
<1>2. mem_pool \in [Node -> Seq(K)] /\ mining \in [Node -> GoodCandidate(K) \cup {None}]
  BY DEF MadeOf
<1>3. swept.taken \in Seq(K) /\ DistinctIds(swept.taken)
  <2>1. mem_pool[n] \in Seq(K) /\ DistinctIds(mem_pool[n])
    BY <1>2 DEF PoolInv, Tidy
  <2> QED BY <2>1, SweepType, SweepDistinct
<1>4. mem_pool' \in [Node -> Seq(K)]
  BY <1>2, SweepPoolType DEF MiningRound
<1>5. \/ mining' = [mining EXCEPT ![n] = None]
      \/ mining' = [mining EXCEPT ![n] = [task |-> task, prevHash |-> lastBlock(chain[n]).hash,
                                          transactions |-> swept.taken]]
  BY DEF MiningRound
<1> HIDE DEF swept
<1>6. mining'[n] \in GoodCandidate(K) \cup {None}
  BY <1>1, <1>2, <1>3, <1>5 DEF GoodCandidate
<1> QED BY <1>2, <1>4, <1>5, <1>6

LEMMA MakesMinerWakes ==
  ASSUME NetInv, PoolInv, NEW K, MadeOf(K), NEW n \in Node, NEW task \in live[n],
         MinerWakes(n, task)
  PROVE  MadeOf(K)'
<1>1. task \in Nat /\ UNCHANGED <<chain, inbox>>
  BY DEF NetInv, PeersOK, MinerWakes
<1>2. CASE MiningRound(n, task) /\ UNCHANGED waiting
  BY <1>1, <1>2, MakesMiningRound DEF MadeOf
<1>3. CASE Park(n, "mine", None, task) /\ UNCHANGED <<mem_pool, mining>>
  <2>1. [kind |-> "mine", conn |-> None, data |-> task] \in GoodWaiter(K)
    BY <1>1 DEF GoodWaiter
  <2>2. waiting' \in [Node -> Seq(GoodWaiter(K))]
    BY <1>3, <2>1, ParkType DEF MadeOf
  <2> QED BY <1>1, <1>3, <2>2 DEF MadeOf
<1> QED BY <1>2, <1>3 DEF MinerWakes

LEMMA MakesMiningEnds ==
  ASSUME NetInv, NEW K, UniqueIds(K), MadeOf(K), NEW n \in Node, MiningEnds(n)
  PROVE  MadeOf(K)'
<1> DEFINE newBlock == [hash |-> Len(minted), prevHash |-> mining[n].prevHash,
                        transactions |-> mining[n].transactions, miner |-> n]
<1>1. /\ mining[n] # None /\ UNCHANGED waiting
      /\ mining' = [mining EXCEPT ![n] = None]
  BY DEF MiningEnds
<1>2. mining' \in [Node -> GoodCandidate(K) \cup {None}]
  BY <1>1 DEF MadeOf
<1>3. newBlock \in GoodBlock(K)
  <2>1. mining[n] \in GoodCandidate(K) /\ mining[n] \in Candidate
    BY <1>1 DEF MadeOf, GoodCandidate
  <2>2. Len(minted) \in Nat /\ n \in Account
    BY NetworkAssumption DEF NetInv, MintedInOrder
  <2>3. newBlock \in Block
    BY <2>1, <2>2 DEF Block, Candidate
  <2> QED BY <2>1, <2>3 DEF GoodBlock, GoodCandidate
<1> HIDE DEF newBlock
<1>4. CASE UNCHANGED <<chain, mem_pool, inbox>>
  BY <1>1, <1>2, <1>4 DEF MadeOf
<1>5. CASE /\ isValidBlock(chain[n], newBlock)
           /\ chain' = [chain EXCEPT ![n] = Append(@, newBlock)]
           /\ mem_pool' = [mem_pool EXCEPT ![n] = Sweep(@, InBlock(@, newBlock)).kept]
           /\ inbox' = broadcast_message(n, [type |-> "new_block", block |-> newBlock], inbox)
  <2>1. Append(chain[n], newBlock) \in GoodChain(K)
    BY <1>3, <1>5, GoodAppend DEF MadeOf
  <2>2. chain' \in [Node -> GoodChain(K)]
    BY <1>5, <2>1 DEF MadeOf
  <2>3. mem_pool' \in [Node -> Seq(K)] /\ inbox' \in [Conn -> [Node -> Seq(GoodMsg(K))]]
    BY <1>3, <1>5, SweepAndSend DEF MadeOf
  <2> QED BY <1>1, <1>2, <2>2, <2>3 DEF MadeOf
<1> QED BY <1>4, <1>5 DEF MiningEnds, newBlock

LEMMA MakesMiningCancelled ==
  ASSUME NEW K, MadeOf(K), NEW n \in Node, MiningCancelled(n)
  PROVE  MadeOf(K)'
BY DEF MadeOf, MiningCancelled

LEMMA MakesResume ==
  ASSUME NetInv, PoolInv, NEW K, MadeOf(K), NEW n \in Node, Resume(n)
  PROVE  MadeOf(K)'
<1> DEFINE w == Head(waiting[n])
<1>1. /\ w \in GoodWaiter(K) /\ UNCHANGED chain
      /\ waiting' \in [Node -> Seq(GoodWaiter(K))]
  <2>1. waiting[n] \in Seq(GoodWaiter(K)) /\ waiting[n] # << >>
        /\ waiting' = [waiting EXCEPT ![n] = Tail(@)] /\ UNCHANGED chain
    BY DEF MadeOf, Resume
  <2>2. w \in GoodWaiter(K) /\ Tail(waiting[n]) \in Seq(GoodWaiter(K))
    BY <2>1
  <2> QED BY <2>1, <2>2 DEF MadeOf
<1> HIDE DEF w
<1>2. /\ w.kind \in {"new_tx", "own_tx"} => w.data \in K
      /\ w.kind = "new_block" => w.data \in GoodBlock(K)
      /\ w.kind = "mine" => w.data \in Nat
  <2>1. w.kind = "mine" => w.data \in Nat
    BY <1>1 DEF GoodWaiter
  <2> QED BY <1>1, <2>1, GoodFields
<1>3. CASE w.kind \in {"new_tx", "own_tx"} /\ AddTransaction(n, w.data, inbox)
           /\ UNCHANGED mining
  <2>1. [type |-> "new_tx", transaction |-> w.data] \in GoodMsg(K)
    BY <1>2, <1>3 DEF GoodMsg
  <2>2. mem_pool' \in [Node -> Seq(K)] /\ inbox' \in [Conn -> [Node -> Seq(GoodMsg(K))]]
    BY <1>2, <1>3, <2>1, PoolAndSend DEF MadeOf
  <2> QED BY <1>1, <1>3, <2>2 DEF MadeOf
<1>4. CASE w.kind = "new_block" /\ FinishNewBlock(n, w.data, live[n], inbox)
           /\ UNCHANGED mining
  <2>1. mem_pool' \in [Node -> Seq(K)] /\ inbox' \in [Conn -> [Node -> Seq(GoodMsg(K))]]
    BY <1>2, <1>4, SweepAndSend DEF FinishNewBlock, MadeOf
  <2> QED BY <1>1, <1>4, <2>1 DEF MadeOf
<1>5. CASE /\ mem_pool' = [mem_pool EXCEPT ![n] = Sweep(@, InChain(@, chain[n])).kept]
           /\ UNCHANGED <<mining, inbox>>
  <2>1. mem_pool' \in [Node -> Seq(K)]
    BY <1>5, SweepPoolType DEF MadeOf
  <2> QED BY <1>1, <1>5, <2>1 DEF MadeOf
<1>6. CASE w.kind = "mine" /\ MiningRound(n, w.data) /\ UNCHANGED inbox
  BY <1>1, <1>2, <1>6, MakesMiningRound DEF MadeOf
<1>7. CASE UNCHANGED <<mem_pool, mining, inbox>>
  BY <1>1, <1>7 DEF MadeOf
<1> QED BY <1>3, <1>4, <1>5, <1>6, <1>7 DEF Resume, w

LEMMA MakesFindLongestChain ==
  ASSUME NEW K, MadeOf(K), NEW n \in Node, up \in SUBSET Conn, find_longest_chain(n)
  PROVE  MadeOf(K)'
<1> DEFINE asks == {c \in up : n \in Ends(c) /\ ~ Asked(c, n)}
           msg == [type |-> "chain_request"]
<1>1. /\ UNCHANGED <<chain, mem_pool, mining, waiting>>
      /\ inbox' = [c \in Conn |-> IF c \in asks
                                  THEN [inbox[c] EXCEPT ![Other(c, n)] = Append(@, msg)]
                                  ELSE inbox[c]]
  BY DEF find_longest_chain
<1>2. inbox \in [Conn -> [Node -> Seq(GoodMsg(K))]] /\ msg \in GoodMsg(K)
  BY DEF MadeOf, GoodMsg
<1>3. ASSUME NEW c \in Conn, c \in asks
      PROVE  [inbox[c] EXCEPT ![Other(c, n)] = Append(@, msg)] \in [Node -> Seq(GoodMsg(K))]
  <2>1. Other(c, n) \in Node
    BY <1>3, EndsAreNodes
  <2> HIDE DEF msg
  <2> QED BY <1>2, <2>1, SendType
<1>4. inbox' \in [Conn -> [Node -> Seq(GoodMsg(K))]]
  <2> HIDE DEF asks, msg
  <2> QED BY <1>1, <1>2, <1>3
<1> QED BY <1>1, <1>4 DEF MadeOf

LEMMA MakesHandleChainRequest ==
  ASSUME NEW K, MadeOf(K), NEW c \in Conn, NEW n \in Ends(c), HandleChainRequest(c, n)
  PROVE  MadeOf(K)'
<1> DEFINE msg == [type |-> "chain", chain |-> to_block_dict_list(chain[n])]
<1>1. /\ n \in Node /\ Other(c, n) \in Node
      /\ UNCHANGED <<chain, mem_pool, mining, waiting>>
  BY EndsAreNodes DEF HandleChainRequest
<1>2. Read(c, n) \in [Conn -> [Node -> Seq(GoodMsg(K))]]
  BY <1>1, ReadType DEF MadeOf, HandleChainRequest, Reads
<1>3. msg \in GoodMsg(K)
  <2>1. to_block_dict_list(chain[n]) \in GoodChain(K)
    BY <1>1, WireGood DEF MadeOf
  <2> QED BY <2>1 DEF GoodMsg
<1>4. \/ inbox' = Read(c, n)
      \/ inbox' = [Read(c, n) EXCEPT
                     ![c] = [Read(c, n)[c] EXCEPT
                               ![Other(c, n)] = Append(Read(c, n)[c][Other(c, n)], msg)]]
  BY DEF HandleChainRequest
<1> HIDE DEF msg
<1>5. [Read(c, n)[c] EXCEPT ![Other(c, n)] = Append(@, msg)] \in [Node -> Seq(GoodMsg(K))]
  BY <1>1, <1>2, <1>3, SendType
<1>6. inbox' \in [Conn -> [Node -> Seq(GoodMsg(K))]]
  BY <1>2, <1>4, <1>5
<1> QED BY <1>1, <1>6 DEF MadeOf

LEMMA MakesHandleChain ==
  ASSUME NEW K, MadeOf(K), NEW c \in Conn, NEW n \in Ends(c), HandleChain(c, n)
  PROVE  MadeOf(K)'
<1> DEFINE block_list == Head(inbox[c][n]).chain
<1>1. n \in Node /\ inbox' = Read(c, n) /\ UNCHANGED mining
  BY EndsAreNodes DEF HandleChain
<1>2. /\ Head(inbox[c][n]) \in GoodMsg(K) /\ Head(inbox[c][n]).type = "chain"
      /\ Read(c, n) \in [Conn -> [Node -> Seq(GoodMsg(K))]]
  BY <1>1, ReadType DEF MadeOf, HandleChain, Reads
<1>3. block_list \in GoodChain(K)
  BY <1>2, GoodFields
<1> HIDE DEF block_list
<1>4. CASE UNCHANGED <<chain, mem_pool, waiting>>
  BY <1>1, <1>2, <1>4 DEF MadeOf
<1>5. CASE /\ chain' = [chain EXCEPT ![n] = block_list]
           /\ UNCHANGED <<mem_pool, waiting>>
  BY <1>1, <1>2, <1>3, <1>5 DEF MadeOf
<1>6. CASE /\ chain' = [chain EXCEPT ![n] = rewrite(@, block_list)]
           /\ \/ PurgeConfirmed(n) /\ UNCHANGED waiting
              \/ Park(n, "chain", c, None) /\ UNCHANGED mem_pool
  <2>1. rewrite(chain[n], block_list) \in GoodChain(K)
    BY <1>1, <1>3 DEF rewrite, MadeOf
  <2>2. chain' \in [Node -> GoodChain(K)]
    BY <1>6, <2>1 DEF MadeOf
  <2>3. CASE PurgeConfirmed(n) /\ UNCHANGED waiting
    <3>1. mem_pool' \in [Node -> Seq(K)]
      BY <1>1, <2>3, SweepPoolType DEF MadeOf, PurgeConfirmed
    <3> QED BY <1>1, <1>2, <2>2, <2>3, <3>1 DEF MadeOf
  <2>4. CASE Park(n, "chain", c, None) /\ UNCHANGED mem_pool
    <3>1. [kind |-> "chain", conn |-> c, data |-> None] \in GoodWaiter(K)
      BY DEF GoodWaiter
    <3>2. waiting' \in [Node -> Seq(GoodWaiter(K))]
      BY <1>1, <2>4, <3>1, ParkType DEF MadeOf
    <3> QED BY <1>1, <1>2, <2>2, <2>4, <3>2 DEF MadeOf
  <2> QED BY <1>6, <2>3, <2>4
<1> QED BY <1>4, <1>5, <1>6 DEF HandleChain, block_list

LEMMA MakesDisconnect ==
  ASSUME NEW K, MadeOf(K), NEW c \in Conn, Disconnect(c)
  PROVE  MadeOf(K)'
<1>1. PICK lost \in SUBSET Ends(c) :
        inbox' = [inbox EXCEPT ![c] = [n \in Node |-> IF n \in lost THEN << >> ELSE @[n]]]
  BY DEF Disconnect
<1>2. inbox[c] \in [Node -> Seq(GoodMsg(K))] /\ << >> \in Seq(GoodMsg(K))
  BY DEF MadeOf
<1>3. [n \in Node |-> IF n \in lost THEN << >> ELSE inbox[c][n]] \in [Node -> Seq(GoodMsg(K))]
  BY <1>2
<1>4. inbox' \in [Conn -> [Node -> Seq(GoodMsg(K))]]
  BY <1>1, <1>3 DEF MadeOf
<1> QED BY <1>4 DEF MadeOf, Disconnect

-----------------------------------------------------------------------------
(***************************************************************************)
(* What there is of transactions after a step: the same, or one more.      *)
(***************************************************************************)
LEMMA TxStep ==
  ASSUME NetInv, PoolInv, NEW K, TxInv(K), [Next]_vars
  PROVE  \E L \in SUBSET Tx : TxInv(L)'
<1>1. K \in SUBSET Tx /\ UniqueIds(K) /\ (\A t \in K : t.id <= created) /\ MadeOf(K)
  BY DEF TxInv
<1>2. created \in Nat /\ up \in SUBSET Conn
  BY DEF NetInv, PeersOK
<1>3. ASSUME NEW n \in Node, NEW rec \in Account, NEW amt \in Amount,
             create_and_broadcast_tx(n, rec, amt)
      PROVE  \E L \in SUBSET Tx : TxInv(L)'
  <2> DEFINE tx == [id |-> created + 1, sender |-> n, receiver |-> rec, amount |-> amt]
  <2> PICK L : L = K \cup {tx}
    OBVIOUS
  <2>1. tx \in Tx /\ tx.id = created + 1 /\ created' = created + 1
    <3>1. n \in Account /\ amt \in Int
      BY NetworkAssumption
    <3> QED BY <1>2, <1>3, <3>1 DEF Tx, create_and_broadcast_tx
  <2>2. \A t \in K : t.id # tx.id /\ t.id \in Nat
    BY <1>1, <1>2, <2>1 DEF Tx
  <2>3. tx \in L
    OBVIOUS
  <2>4. MadeOf(L)'
    <3>1. K \subseteq L
      OBVIOUS
    <3>2. MadeOf(L)
      BY <1>1, <3>1, MadeOfMore
    <3> QED BY <1>3, <2>3, <3>2, MakesCreate
  <2> HIDE DEF tx
  <2>5. UniqueIds(L)
    BY <1>1, <2>2 DEF UniqueIds
  <2>6. \A t \in L : t.id <= created'
    BY <1>1, <1>2, <2>1, <2>2
  <2>7. L \in SUBSET Tx
    BY <1>1, <2>1
  <2>8. TxInv(L)'
    BY <2>4, <2>5, <2>6, <2>7 DEF TxInv
  <2> QED BY <2>7, <2>8
<1>4. ASSUME UNCHANGED created, MadeOf(K)'
      PROVE  \E L \in SUBSET Tx : TxInv(L)'
  <2>1. TxInv(K)'
    BY <1>1, <1>4 DEF TxInv
  <2> QED BY <1>1, <2>1
<1>5. ASSUME NEW n \in Node, NEW task \in live[n], MinerWakes(n, task)
      PROVE  UNCHANGED created /\ MadeOf(K)'
  BY <1>1, <1>5, MakesMinerWakes DEF MinerWakes
<1>6. ASSUME NEW n \in Node,
             MiningEnds(n) \/ MiningCancelled(n) \/ Resume(n) \/ find_longest_chain(n)
      PROVE  UNCHANGED created /\ MadeOf(K)'
  <2>1. MadeOf(K)'
    BY <1>1, <1>2, <1>6, MakesMiningEnds, MakesMiningCancelled, MakesResume,
       MakesFindLongestChain
  <2> QED BY <1>6, <2>1 DEF MiningEnds, MiningCancelled, Resume, find_longest_chain
<1>7. ASSUME NEW c \in Conn, NEW n \in Ends(c), HandleMessage(c, n)
      PROVE  UNCHANGED created /\ MadeOf(K)'
  <2>1. MadeOf(K)'
    BY <1>1, <1>7, MakesHandleNewTx, MakesHandleNewBlock, MakesHandleChainRequest,
       MakesHandleChain DEF HandleMessage
  <2> QED BY <1>7, <2>1
          DEF HandleMessage, HandleNewTx, HandleNewBlock, HandleChainRequest, HandleChain
<1>8. ASSUME NEW c \in Conn, Disconnect(c) \/ connect_to_peer(c)
      PROVE  UNCHANGED created /\ MadeOf(K)'
  <2>1. CASE Disconnect(c)
    BY <1>1, <2>1, MakesDisconnect DEF Disconnect
  <2>2. CASE connect_to_peer(c)
    BY <1>1, <2>2 DEF connect_to_peer, MadeOf
  <2> QED BY <1>8, <2>1, <2>2
<1>9. CASE UNCHANGED vars
  BY <1>1, <1>4, <1>9 DEF vars, MadeOf
<1> QED BY <1>3, <1>4, <1>5, <1>6, <1>7, <1>8, <1>9 DEF Next

(***************************************************************************)
(* No peer has seen an id that was not given out.                          *)
(***************************************************************************)
LEMMA SeenStep ==
  ASSUME NetInv, SeenInv, NEW K, TxInv(K), [Next]_vars
  PROVE  SeenInv'
<1>1. /\ created \in Nat
      /\ seen \in [Node -> SUBSET ({"new_tx", "new_block"} \X Nat)]
      /\ \A t \in K : t.id <= created /\ t.id \in Nat
  BY DEF NetInv, PeersOK, TxInv, Tx
<1>2. ASSUME NEW n \in Node, NEW msg, NEW last \in Nat, created' = last,
             created <= last, seen' = MarkSeen(n, msg),
             msg.type = "new_tx" => msg.transaction.id <= last
      PROVE  SeenInv'
  <2>1. MsgId(msg)[1] = "new_tx" => MsgId(msg)[2] <= last
    BY <1>2 DEF MsgId
  <2>2. \A m \in Node : \A mark \in seen[m] : mark[2] \in Nat
    BY <1>1
  <2>3. \A m \in Node : \A mark \in seen[m] : mark[1] = "new_tx" => mark[2] <= last
    BY <1>1, <1>2, <2>2 DEF SeenInv
  <2>4. \A m \in Node : \A mark \in seen'[m] : mark \in seen[m] \/ mark = MsgId(msg)
    BY <1>1, <1>2 DEF MarkSeen
  <2> QED BY <1>2, <2>1, <2>3, <2>4 DEF SeenInv
<1>3. ASSUME NEW n \in Node, NEW rec, NEW amt, create_and_broadcast_tx(n, rec, amt)
      PROVE  SeenInv'
  <2> DEFINE msg == [type |-> "new_tx",
                     transaction |-> [id |-> created + 1, sender |-> n, receiver |-> rec,
                                      amount |-> amt]]
  <2>1. /\ created' = created + 1 /\ seen' = MarkSeen(n, msg)
        /\ msg.transaction.id = created + 1
    BY <1>3 DEF create_and_broadcast_tx
  <2>2. created + 1 \in Nat /\ created <= created + 1 /\ created + 1 <= created + 1
    BY <1>1
  <2> HIDE DEF msg
  <2> QED BY <1>2, <2>1, <2>2
<1>4. ASSUME NEW c \in Conn, NEW n \in Ends(c), HandleMessage(c, n)
      PROVE  SeenInv'
  <2> DEFINE msg == Head(inbox[c][n])
  <2>1. n \in Node /\ UNCHANGED created
    BY <1>4, EndsAreNodes
       DEF HandleMessage, HandleNewTx, HandleNewBlock, HandleChainRequest, HandleChain
  <2>2. CASE HandleNewTx(c, n)
    <3>1. msg \in GoodMsg(K) /\ msg.type = "new_tx" /\ seen' = MarkSeen(n, msg)
      BY <2>1, <2>2, ReadType DEF TxInv, MadeOf, HandleNewTx, Reads
    <3>2. msg.transaction \in K
      BY <3>1, GoodFields
    <3> HIDE DEF msg
    <3> QED BY <1>1, <1>2, <2>1, <3>1, <3>2
  <2>3. CASE HandleNewBlock(c, n)
    <3>1. msg.type = "new_block" /\ seen' = MarkSeen(n, msg)
      BY <2>3 DEF HandleNewBlock, Reads
    <3> HIDE DEF msg
    <3> QED BY <1>1, <1>2, <2>1, <3>1
  <2>4. CASE HandleChainRequest(c, n) \/ HandleChain(c, n)
    BY <2>4 DEF HandleChainRequest, HandleChain, SeenInv
  <2> QED BY <1>4, <2>2, <2>3, <2>4 DEF HandleMessage
<1>5. ASSUME NEW n \in Node, MiningEnds(n) PROVE SeenInv'
  <2> DEFINE msg == [type |-> "new_block",
                     block |-> [hash |-> Len(minted), prevHash |-> mining[n].prevHash,
                                transactions |-> mining[n].transactions, miner |-> n]]
  <2>1. UNCHANGED created /\ (UNCHANGED seen \/ seen' = MarkSeen(n, msg))
    BY <1>5 DEF MiningEnds
  <2>2. msg.type = "new_block"
    OBVIOUS
  <2> HIDE DEF msg
  <2>3. CASE UNCHANGED seen
    BY <2>1, <2>3 DEF SeenInv
  <2> QED BY <1>1, <1>2, <2>1, <2>2, <2>3
<1>6. ASSUME UNCHANGED <<seen, created>> PROVE SeenInv'
  BY <1>6 DEF SeenInv
<1>7. ASSUME NEW n \in Node,
             \/ \E task \in live[n] : MinerWakes(n, task)
             \/ MiningCancelled(n) \/ Resume(n) \/ find_longest_chain(n)
      PROVE  UNCHANGED <<seen, created>>
  BY <1>7 DEF MinerWakes, MiningCancelled, Resume, find_longest_chain
<1>8. ASSUME NEW c \in Conn, Disconnect(c) \/ connect_to_peer(c)
      PROVE  UNCHANGED <<seen, created>>
  BY <1>8 DEF Disconnect, connect_to_peer
<1>9. CASE UNCHANGED vars
  BY <1>6, <1>9 DEF vars
<1> QED BY <1>3, <1>4, <1>5, <1>6, <1>7, <1>8, <1>9 DEF Next

(***************************************************************************)
(* Every pool stays tidy, at every peer m.                                 *)
(***************************************************************************)
TidyAt(m) == Tidy(mem_pool[m], waiting[m], seen[m])

LeavesTidy(m) ==
  mem_pool'[m] = mem_pool[m] /\ waiting'[m] = waiting[m] /\ seen[m] \subseteq seen'[m]

LEMMA PoolLeft ==
  ASSUME PoolInv, NEW m \in Node, LeavesTidy(m)
  PROVE  TidyAt(m)'
BY TidyMarks DEF PoolInv, LeavesTidy, TidyAt

(***************************************************************************)
(* A transaction that n has not seen goes into its pool or in line for it. *)
(***************************************************************************)
LEMMA PoolAdmits ==
  ASSUME NetInv, PoolInv, NEW n \in Node, NEW tx, NEW kind, NEW c,
         <<"new_tx", tx.id>> \notin seen[n],
         seen' = [seen EXCEPT ![n] = @ \cup {<<"new_tx", tx.id>>}],
         \/ mem_pool' = [mem_pool EXCEPT ![n] = Append(@, tx)] /\ UNCHANGED waiting
         \/ Park(n, kind, c, tx) /\ UNCHANGED mem_pool,
         NEW m \in Node
  PROVE  TidyAt(m)'
<1>1. /\ mem_pool \in [Node -> Seq(Tx)] /\ waiting \in [Node -> Seq(KnownWaiter)]
      /\ seen \in [Node -> SUBSET ({"new_tx", "new_block"} \X Nat)]
  BY DEF NetInv, PeersOK
<1>2. Tidy(mem_pool[n], waiting[n], seen[n])
  BY DEF PoolInv
<1>3. CASE m # n
  <2>1. LeavesTidy(m)
    BY <1>1, <1>3 DEF LeavesTidy, Park
  <2> QED BY <2>1, PoolLeft
<1>4. seen'[n] = seen[n] \cup {<<"new_tx", tx.id>>}
  BY <1>1
<1>5. CASE mem_pool' = [mem_pool EXCEPT ![n] = Append(@, tx)] /\ UNCHANGED waiting
  <2>1. Tidy(Append(mem_pool[n], tx), waiting[n], seen[n] \cup {<<"new_tx", tx.id>>})
    BY <1>1, <1>2, TidyAdd
  <2>2. mem_pool'[n] = Append(mem_pool[n], tx) /\ waiting'[n] = waiting[n]
    BY <1>1, <1>5
  <2> QED BY <1>3, <1>4, <2>1, <2>2 DEF TidyAt
<1>6. CASE Park(n, kind, c, tx) /\ UNCHANGED mem_pool
  <2> DEFINE w == [kind |-> kind, conn |-> c, data |-> tx]
  <2>1. w.data = tx /\ waiting' = [waiting EXCEPT ![n] = Append(@, w)]
    BY <1>6 DEF Park
  <2> HIDE DEF w
  <2>2. Tidy(mem_pool[n], Append(waiting[n], w), seen[n] \cup {<<"new_tx", tx.id>>})
    BY <1>1, <1>2, <2>1, TidyPark
  <2>3. mem_pool'[n] = mem_pool[n] /\ waiting'[n] = Append(waiting[n], w)
    BY <1>1, <1>6, <2>1
  <2> QED BY <1>3, <1>4, <2>2, <2>3 DEF TidyAt
<1> QED BY <1>5, <1>6

(***************************************************************************)
(* n sweeps its pool, or parks something that is not a transaction.        *)
(***************************************************************************)
LEMMA PoolSweeps ==
  ASSUME NetInv, PoolInv, NEW n \in Node, NEW gone, NEW kind, NEW c, NEW data,
         kind \notin {"new_tx", "own_tx"},
         \/ mem_pool' = [mem_pool EXCEPT ![n] = Sweep(@, gone).kept] /\ UNCHANGED waiting
         \/ Park(n, kind, c, data) /\ UNCHANGED mem_pool,
         \A m \in Node : seen[m] \subseteq seen'[m],
         NEW m \in Node
  PROVE  TidyAt(m)'
<1>1. mem_pool \in [Node -> Seq(Tx)] /\ waiting \in [Node -> Seq(KnownWaiter)]
  BY DEF NetInv, PeersOK
<1>2. Tidy(mem_pool[n], waiting[n], seen[n])
  BY DEF PoolInv
<1>3. CASE m # n
  <2>1. LeavesTidy(m)
    BY <1>1, <1>3 DEF LeavesTidy, Park
  <2> QED BY <2>1, PoolLeft
<1>4. CASE mem_pool' = [mem_pool EXCEPT ![n] = Sweep(@, gone).kept] /\ UNCHANGED waiting
  <2>1. Tidy(Sweep(mem_pool[n], gone).kept, waiting[n], seen[n])
    BY <1>1, <1>2, TidySweep
  <2>2. mem_pool'[n] = Sweep(mem_pool[n], gone).kept /\ waiting'[n] = waiting[n]
    BY <1>1, <1>4
  <2>3. Tidy(mem_pool'[n], waiting'[n], seen[n])
    BY <2>1, <2>2
  <2> QED BY <1>3, <2>3, TidyMarks DEF TidyAt
<1>5. CASE Park(n, kind, c, data) /\ UNCHANGED mem_pool
  <2> DEFINE w == [kind |-> kind, conn |-> c, data |-> data]
  <2>1. w.kind = kind /\ waiting' = [waiting EXCEPT ![n] = Append(@, w)]
    BY <1>5 DEF Park
  <2> HIDE DEF w
  <2>2. Tidy(mem_pool[n], Append(waiting[n], w), seen[n])
    BY <1>1, <1>2, <2>1, TidyParkOther
  <2>3. mem_pool'[n] = mem_pool[n] /\ waiting'[n] = Append(waiting[n], w)
    BY <1>1, <1>5, <2>1
  <2>4. Tidy(mem_pool'[n], waiting'[n], seen[n])
    BY <2>2, <2>3
  <2> QED BY <1>3, <2>4, TidyMarks DEF TidyAt
<1> QED BY <1>4, <1>5

LEMMA MarksGrow ==
  ASSUME seen \in [Node -> SUBSET ({"new_tx", "new_block"} \X Nat)],
         NEW n \in Node, NEW msg, seen' = MarkSeen(n, msg), NEW m \in Node
  PROVE  seen[m] \subseteq seen'[m]
BY DEF MarkSeen

LEMMA PoolCreate ==
  ASSUME NetInv, SeenInv, PoolInv, NEW n \in Node, NEW rec, NEW amt,
         create_and_broadcast_tx(n, rec, amt), NEW m \in Node
  PROVE  TidyAt(m)'
<1> DEFINE tx == [id |-> created + 1, sender |-> n, receiver |-> rec, amount |-> amt]
<1>1. created \in Nat
  BY DEF NetInv, PeersOK
<1>2. <<"new_tx", tx.id>> \notin seen[n]
  <2> DEFINE mark == <<"new_tx", tx.id>>
  <2>1. mark[1] = "new_tx" /\ mark[2] = created + 1 /\ ~ (created + 1 <= created)
    BY <1>1
  <2> QED BY <2>1 DEF SeenInv
<1>3. seen' = [seen EXCEPT ![n] = @ \cup {<<"new_tx", tx.id>>}]
  BY DEF create_and_broadcast_tx, MarkSeen, MsgId
<1>4. \/ mem_pool' = [mem_pool EXCEPT ![n] = Append(@, tx)] /\ UNCHANGED waiting
      \/ Park(n, "own_tx", None, tx) /\ UNCHANGED mem_pool
  BY DEF create_and_broadcast_tx, AddTransaction
<1> HIDE DEF tx
<1> QED BY <1>2, <1>3, <1>4, PoolAdmits

LEMMA PoolNewTx ==
  ASSUME NetInv, PoolInv, NEW c \in Conn, NEW n \in Ends(c), HandleNewTx(c, n),
         NEW m \in Node
  PROVE  TidyAt(m)'
<1> DEFINE msg == Head(inbox[c][n])
           tx == msg.transaction
<1>1. n \in Node /\ seen \in [Node -> SUBSET ({"new_tx", "new_block"} \X Nat)]
  BY EndsAreNodes DEF NetInv, PeersOK
<1>2. seen' = MarkSeen(n, msg) /\ MsgId(msg) = <<"new_tx", tx.id>>
  BY DEF HandleNewTx, Reads, MsgId
<1>3. \/ UNCHANGED <<mem_pool, waiting>>
      \/ /\ MsgId(msg) \notin seen[n]
         /\ \/ mem_pool' = [mem_pool EXCEPT ![n] = Append(@, tx)] /\ UNCHANGED waiting
            \/ Park(n, "new_tx", c, tx) /\ UNCHANGED mem_pool
  BY DEF HandleNewTx, AddTransaction
<1> HIDE DEF msg, tx
<1>4. CASE UNCHANGED <<mem_pool, waiting>>
  <2>1. LeavesTidy(m)
    BY <1>1, <1>2, <1>4, MarksGrow DEF LeavesTidy
  <2> QED BY <2>1, PoolLeft
<1>5. CASE /\ MsgId(msg) \notin seen[n]
           /\ \/ mem_pool' = [mem_pool EXCEPT ![n] = Append(@, tx)] /\ UNCHANGED waiting
              \/ Park(n, "new_tx", c, tx) /\ UNCHANGED mem_pool
  <2>1. <<"new_tx", tx.id>> \notin seen[n]
    BY <1>2, <1>5
  <2>2. seen' = [seen EXCEPT ![n] = @ \cup {<<"new_tx", tx.id>>}]
    BY <1>2 DEF MarkSeen
  <2> QED BY <1>1, <1>5, <2>1, <2>2, PoolAdmits
<1> QED BY <1>3, <1>4, <1>5

LEMMA PoolNewBlock ==
  ASSUME NetInv, PoolInv, NEW c \in Conn, NEW n \in Ends(c), HandleNewBlock(c, n),
         NEW m \in Node
  PROVE  TidyAt(m)'
<1> DEFINE msg == Head(inbox[c][n])
           gone == InBlock(mem_pool[n], msg.block)
<1>1. n \in Node /\ seen \in [Node -> SUBSET ({"new_tx", "new_block"} \X Nat)]
  BY EndsAreNodes DEF NetInv, PeersOK
<1>2. \A o \in Node : seen[o] \subseteq seen'[o]
  BY <1>1, MarksGrow DEF HandleNewBlock
<1>3. \/ UNCHANGED <<mem_pool, waiting>>
      \/ mem_pool' = [mem_pool EXCEPT ![n] = Sweep(@, gone).kept] /\ UNCHANGED waiting
      \/ Park(n, "new_block", c, msg.block) /\ UNCHANGED mem_pool
  BY DEF HandleNewBlock, FinishNewBlock
<1> HIDE DEF msg, gone
<1>4. CASE UNCHANGED <<mem_pool, waiting>>
  <2>1. LeavesTidy(m)
    BY <1>2, <1>4 DEF LeavesTidy
  <2> QED BY <2>1, PoolLeft
<1>5. CASE \/ mem_pool' = [mem_pool EXCEPT ![n] = Sweep(@, gone).kept] /\ UNCHANGED waiting
           \/ Park(n, "new_block", c, msg.block) /\ UNCHANGED mem_pool
  <2>1. "new_block" \notin {"new_tx", "own_tx"}
    OBVIOUS
  <2> QED BY <1>1, <1>2, <1>5, <2>1, PoolSweeps
<1> QED BY <1>3, <1>4, <1>5

LEMMA PoolChain ==
  ASSUME NetInv, PoolInv, NEW c \in Conn, NEW n \in Ends(c), HandleChain(c, n),
         NEW m \in Node
  PROVE  TidyAt(m)'
<1> DEFINE gone == InChain(mem_pool[n], chain'[n])
<1>1. n \in Node /\ \A o \in Node : seen[o] \subseteq seen'[o]
  BY EndsAreNodes DEF HandleChain
<1>2. \/ UNCHANGED <<mem_pool, waiting>>
      \/ mem_pool' = [mem_pool EXCEPT ![n] = Sweep(@, gone).kept] /\ UNCHANGED waiting
      \/ Park(n, "chain", c, None) /\ UNCHANGED mem_pool
  BY DEF HandleChain, PurgeConfirmed
<1>3. CASE UNCHANGED <<mem_pool, waiting>>
  <2>1. LeavesTidy(m)
    BY <1>1, <1>3 DEF LeavesTidy
  <2> QED BY <2>1, PoolLeft
<1> HIDE DEF gone
<1>4. "chain" \notin {"new_tx", "own_tx"}
  OBVIOUS
<1>5. CASE mem_pool' = [mem_pool EXCEPT ![n] = Sweep(@, gone).kept] /\ UNCHANGED waiting
  BY <1>1, <1>4, <1>5, PoolSweeps
<1>6. CASE Park(n, "chain", c, None) /\ UNCHANGED mem_pool
  BY <1>1, <1>4, <1>6, PoolSweeps
<1> QED BY <1>2, <1>3, <1>5, <1>6

LEMMA PoolMinerWakes ==
  ASSUME NetInv, PoolInv, NEW n \in Node, NEW task, MinerWakes(n, task), NEW m \in Node
  PROVE  TidyAt(m)'
<1> DEFINE gone == InChain(mem_pool[n], chain[n])
<1>1. \/ mem_pool' = [mem_pool EXCEPT ![n] = Sweep(@, gone).kept] /\ UNCHANGED waiting
      \/ Park(n, "mine", None, task) /\ UNCHANGED mem_pool
  BY DEF MinerWakes, MiningRound
<1>2. "mine" \notin {"new_tx", "own_tx"} /\ \A o \in Node : seen[o] \subseteq seen'[o]
  BY DEF MinerWakes
<1> HIDE DEF gone
<1> QED BY <1>1, <1>2, PoolSweeps

LEMMA PoolMiningEnds ==
  ASSUME NetInv, PoolInv, NEW n \in Node, MiningEnds(n), NEW m \in Node
  PROVE  TidyAt(m)'
<1> DEFINE newBlock == [hash |-> Len(minted), prevHash |-> mining[n].prevHash,
                        transactions |-> mining[n].transactions, miner |-> n]
           gone == InBlock(mem_pool[n], newBlock)
<1>1. seen \in [Node -> SUBSET ({"new_tx", "new_block"} \X Nat)]
  BY DEF NetInv, PeersOK
<1>2. \A o \in Node : seen[o] \subseteq seen'[o]
  BY <1>1, MarksGrow DEF MiningEnds
<1>3. /\ UNCHANGED waiting
      /\ UNCHANGED mem_pool \/ mem_pool' = [mem_pool EXCEPT ![n] = Sweep(@, gone).kept]
  BY DEF MiningEnds
<1> HIDE DEF gone
<1>4. CASE UNCHANGED mem_pool
  <2>1. LeavesTidy(m)
    BY <1>2, <1>3, <1>4 DEF LeavesTidy
  <2> QED BY <2>1, PoolLeft
<1>5. "mine" \notin {"new_tx", "own_tx"}
  OBVIOUS
<1> QED BY <1>2, <1>3, <1>4, <1>5, PoolSweeps

LEMMA PoolResume ==
  ASSUME NetInv, PoolInv, NEW n \in Node, Resume(n), NEW m \in Node
  PROVE  TidyAt(m)'
<1> DEFINE w == Head(waiting[n])
<1>1. /\ mem_pool \in [Node -> Seq(Tx)] /\ waiting \in [Node -> Seq(KnownWaiter)]
      /\ waiting[n] # << >> /\ UNCHANGED seen
      /\ waiting' = [waiting EXCEPT ![n] = Tail(@)]
  BY DEF NetInv, PeersOK, Resume
<1>2. /\ Tidy(mem_pool[n], Tail(waiting[n]), seen[n])
      /\ w.kind \in {"new_tx", "own_tx"}
           => Tidy(Append(mem_pool[n], w.data), Tail(waiting[n]), seen[n])
  BY <1>1, TidyNext DEF PoolInv
<1>3. \/ UNCHANGED mem_pool
      \/ /\ w.kind \in {"new_tx", "own_tx"}
         /\ mem_pool' = [mem_pool EXCEPT ![n] = Append(@, w.data)]
      \/ \E gone : mem_pool' = [mem_pool EXCEPT ![n] = Sweep(@, gone).kept]
  BY DEF Resume, AddTransaction, FinishNewBlock, MiningRound
<1> HIDE DEF w
<1>4. CASE m # n
  <2>1. LeavesTidy(m)
    BY <1>1, <1>3, <1>4 DEF LeavesTidy
  <2> QED BY <2>1, PoolLeft
<1>5. waiting'[n] = Tail(waiting[n])
  BY <1>1
<1>6. CASE UNCHANGED mem_pool
  BY <1>1, <1>2, <1>4, <1>5, <1>6 DEF TidyAt
<1>7. CASE /\ w.kind \in {"new_tx", "own_tx"}
           /\ mem_pool' = [mem_pool EXCEPT ![n] = Append(@, w.data)]
  <2>1. mem_pool'[n] = Append(mem_pool[n], w.data)
    BY <1>1, <1>7
  <2> QED BY <1>1, <1>2, <1>4, <1>5, <1>7, <2>1 DEF TidyAt
<1>8. ASSUME NEW gone, mem_pool' = [mem_pool EXCEPT ![n] = Sweep(@, gone).kept]
      PROVE  TidyAt(m)'
  <2>1. Tidy(Sweep(mem_pool[n], gone).kept, Tail(waiting[n]), seen[n])
    BY <1>1, <1>2, TidySweep
  <2>2. mem_pool'[n] = Sweep(mem_pool[n], gone).kept
    BY <1>1, <1>8
  <2> QED BY <1>1, <1>4, <1>5, <2>1, <2>2 DEF TidyAt
<1> QED BY <1>3, <1>6, <1>7, <1>8

LEMMA PoolStep == NetInv /\ SeenInv /\ PoolInv /\ [Next]_vars => PoolInv'
<1> SUFFICES ASSUME NetInv, SeenInv, PoolInv, [Next]_vars, NEW m \in Node
             PROVE  TidyAt(m)'
  BY DEF PoolInv, TidyAt
<1>1. ASSUME NEW n \in Node, NEW rec, NEW amt, create_and_broadcast_tx(n, rec, amt)
      PROVE  TidyAt(m)'
  BY <1>1, PoolCreate
<1>2. ASSUME NEW n \in Node, NEW task, MinerWakes(n, task) PROVE TidyAt(m)'
  BY <1>2, PoolMinerWakes
<1>3. ASSUME NEW n \in Node, MiningEnds(n) \/ Resume(n) PROVE TidyAt(m)'
  BY <1>3, PoolMiningEnds, PoolResume
<1>4. ASSUME LeavesTidy(m) PROVE TidyAt(m)'
  BY <1>4, PoolLeft
<1>5. ASSUME NEW n \in Node, MiningCancelled(n) \/ find_longest_chain(n)
      PROVE  LeavesTidy(m)
  BY <1>5 DEF MiningCancelled, find_longest_chain, LeavesTidy
<1>6. ASSUME NEW c \in Conn, NEW n \in Ends(c), HandleMessage(c, n) PROVE TidyAt(m)'
  <2>1. CASE HandleChainRequest(c, n)
    BY <1>4, <2>1 DEF HandleChainRequest, LeavesTidy
  <2> QED BY <1>6, <2>1, PoolNewTx, PoolNewBlock, PoolChain DEF HandleMessage
<1>7. ASSUME NEW c \in Conn, Disconnect(c) \/ connect_to_peer(c) PROVE LeavesTidy(m)
  BY <1>7 DEF Disconnect, connect_to_peer, LeavesTidy
<1>8. CASE UNCHANGED vars
  BY <1>4, <1>8 DEF vars, LeavesTidy
<1> QED BY <1>1, <1>2, <1>3, <1>4, <1>5, <1>6, <1>7, <1>8 DEF Next

-----------------------------------------------------------------------------
LEMMA LedgerInit == Init => LedgerInv
<1> SUFFICES ASSUME Init PROVE LedgerInv
  OBVIOUS
<1> DEFINE first == genesis_block(Founder)
           tx == [id |-> 0, sender |-> Genesis, receiver |-> Founder, amount |-> GenesisGrant]
           K == {tx}
<1>1. NetInv
  BY NetInit
<1>2. SeenInv /\ PoolInv
  BY DEF Init, SeenInv, PoolInv, Tidy, Queued, DistinctIds
<1>3. tx \in Tx
  <2>1. Founder \in Account
    BY NetworkAssumption
  <2> QED BY <2>1 DEF Tx, GenesisGrant
<1>4. first.transactions = <<tx>> /\ first \in Block
  BY <1>3 DEF genesis_block, Block
<1>5. first \in GoodBlock(K)
  <2> HIDE DEF tx, first
  <2>1. <<tx>> \in Seq(K) /\ DistinctIds(<<tx>>)
    BY DEF DistinctIds
  <2> QED BY <1>4, <2>1 DEF GoodBlock
<1>6. <<first>> \in GoodChain(K) /\ << >> \in GoodChain(K)
  <2> HIDE DEF first, tx
  <2> QED BY <1>5 DEF GoodChain, Apart
<1>7. chain \in [Node -> GoodChain(K)]
  <2> HIDE DEF K
  <2> QED BY <1>6 DEF Init
<1>8. MadeOf(K)
  <2> HIDE DEF K
  <2> QED BY <1>7 DEF Init, MadeOf
<1>9. TxInv(K)
  <2>1. UniqueIds(K) /\ \A t \in K : t.id <= created
    BY DEF Init, UniqueIds
  <2> QED BY <1>3, <1>8, <2>1 DEF TxInv
<1> HIDE DEF tx
<1> QED BY <1>1, <1>2, <1>3, <1>9 DEF LedgerInv

LEMMA LedgerStep == LedgerInv /\ [Next]_vars => LedgerInv'
<1> SUFFICES ASSUME LedgerInv, [Next]_vars PROVE LedgerInv'
  OBVIOUS
<1>1. PICK K \in SUBSET Tx : TxInv(K)
  BY DEF LedgerInv
<1>2. NetInv /\ SeenInv /\ PoolInv
  BY DEF LedgerInv
<1>3. NetInv' /\ PoolInv'
  BY <1>2, NetStep, PoolStep
<1>4. SeenInv'
  BY <1>1, <1>2, SeenStep
<1>5. \E L \in SUBSET Tx : TxInv(L)'
  BY <1>1, <1>2, TxStep
<1> QED BY <1>3, <1>4, <1>5 DEF LedgerInv

THEOREM LedgerInvariant == Spec => []LedgerInv
BY LedgerInit, LedgerStep, PTL DEF Spec

(***************************************************************************)
(* seen_message_ids keeps copies of a transaction out of every pool and of *)
(* every line for one.                                                     *)
(***************************************************************************)
THEOREM NetworkPoolHasNoCopies == Spec => []PoolHasNoCopies
<1>1. LedgerInv => PoolHasNoCopies
  BY DEF LedgerInv, PoolInv, Tidy, Queued, DistinctIds, PoolHasNoCopies
<1> QED BY <1>1, LedgerInvariant, PTL

(***************************************************************************)
(* No chain has a transaction twice.                                       *)
(***************************************************************************)
THEOREM NetworkNoDuplicateTx == Spec => []NoDuplicateTx
<1>1. LedgerInv => NoDuplicateTx
  <2> SUFFICES ASSUME LedgerInv, NEW n \in Node,
                      NEW i \in DOMAIN chain[n], NEW j \in DOMAIN chain[n],
                      NEW k \in DOMAIN chain[n][i].transactions,
                      NEW l \in DOMAIN chain[n][j].transactions,
                      chain[n][i].transactions[k].id = chain[n][j].transactions[l].id
               PROVE  i = j /\ k = l
    BY DEF NoDuplicateTx
  <2>1. PICK K \in SUBSET Tx : TxInv(K)
    BY DEF LedgerInv
  <2>2. chain[n] \in Seq(GoodBlock(K)) /\ Apart(chain[n])
    BY <2>1 DEF TxInv, MadeOf, GoodChain
  <2>3. i = j
    BY <2>2 DEF Apart
  <2>4. DistinctIds(chain[n][i].transactions)
    BY <2>2 DEF GoodBlock
  <2> QED BY <2>3, <2>4 DEF DistinctIds
<1> QED BY <1>1, LedgerInvariant, PTL

-----------------------------------------------------------------------------
(***************************************************************************)
(* The invariant.  While no two blocks were made on the same parent, the   *)
(* blocks that were made lie on one line, every chain is its beginning,    *)
(* and whatever a peer holds speaks of contracts and files that are in the *)
(* part of the line it has.                                                *)
(***************************************************************************)
Grant == [id |-> 0, sender |-> Genesis, receiver |-> Founder, amount |-> GenesisGrant]

\* Transactions to a contract, with an id that was handed out.
Sent == [id : 1..created, sender : Account, receiver : {Deploy, Invoke}, amount : Nat]

RecordsBlock == [hash : Nat, prevHash : Nat \cup {None}, transactions : Seq(Sent \cup {Grant}),
                 miner : Account \cup {None}]

\* A block that was made, whoever is named as its miner.
MadeBlock ==
  {b \in RecordsBlock : \E i \in DOMAIN minted :
     /\ b.hash = i - 1
     /\ b.prevHash = minted[i].prevHash
     /\ b.transactions = minted[i].transactions}

Straight(c) == \A i \in DOMAIN c : c[i].hash = i - 1

MadeChain == {c \in Seq(MadeBlock) : Unforked => Straight(c)}

\* One of the first m blocks deploys the contract.
Deployed(contract, m) ==
  \E j \in DOMAIN minted : j <= m /\ \E l \in DOMAIN minted[j].transactions :
    minted[j].transactions[l].id = contract

Backed(m) ==
  {tx \in Sent : Unforked /\ tx.receiver = Invoke => Deployed(payload[tx.id].contract, m)}

RecordsMsg == [type : {"new_tx"}, transaction : Sent]
         \cup [type : {"new_block"}, block : MadeBlock]
         \cup [type : {"chain_request"}]
         \cup [type : {"chain"}, chain : MadeChain]
         \cup [type : {"file"}, cid : Cid]
         \cup [type : {"null"}]

\* What waits for the lock at a peer whose chain has m blocks.
InLine(m) == [kind : {"new_tx", "own_tx"}, conn : Conn \cup {None}, data : Backed(m)]
        \cup [kind : {"new_block"}, conn : Conn,
              data : {b \in MadeBlock : Unforked => b.hash < m}]
        \cup [kind : {"chain"}, conn : Conn, data : {None}]
        \cup [kind : {"mine"}, conn : {None}, data : Nat]

Drafts(m) == [task : Nat, prevHash : Nat, transactions : Seq(Backed(m))]

MadeInOrder ==
  /\ minted \in Seq(RecordsBlock)
  /\ minted # << >>
  /\ minted[1].prevHash = None
  /\ \A i \in DOMAIN minted :
       /\ minted[i].hash = i - 1
       /\ i # 1 => minted[i].prevHash \in Nat
       /\ Unforked => /\ i # 1 => minted[i].prevHash = i - 2
                      /\ \A k \in DOMAIN minted[i].transactions :
                           LET tx == minted[i].transactions[k] IN
                           tx.receiver = Invoke => Deployed(payload[tx.id].contract, i - 1)

\* Everything the peer has is of blocks that are in its chain.
PeerGood(n) ==
  LET m == Len(chain[n]) IN
  /\ chain[n] \in MadeChain
  /\ mem_pool[n] \in Seq(Backed(m))
  /\ waiting[n] \in Seq(InLine(m))
  /\ mining[n] \in Drafts(m) \cup {None}
  /\ Unforked => \A contract \in contractsDB[n] : Deployed(contract, m)
  /\ Unforked /\ n \in Miner => seen_files[n] \subseteq file_hashes[n] \cup InChainFiles(chain[n])

Bounded ==
  /\ IsFiniteSet({n \in Node : mining[n] # None})
  /\ Allotted <= MaxBlocks

Lists ==
  /\ created \in Nat
  /\ (\E S : payload \in Seq(S)) /\ Len(payload) = created
  /\ up \in SUBSET Conn
  /\ live \in [Node -> SUBSET Nat]
  /\ DOMAIN files = 0..MaxBlocks
  /\ DOMAIN chain = Node /\ DOMAIN mem_pool = Node /\ DOMAIN waiting = Node
  /\ DOMAIN mining = Node /\ contractsDB \in [Node -> SUBSET Nat]
  /\ seen_files \in [Node -> SUBSET Cid] /\ file_hashes \in [Node -> SUBSET Cid]
  /\ copied \in [Node -> SUBSET Cid]

RecordsInv ==
  /\ Lists
  /\ MadeInOrder
  /\ Bounded
  /\ inbox \in [Conn -> [Node -> Seq(RecordsMsg)]]
  /\ \A n \in Node : PeerGood(n)

-----------------------------------------------------------------------------
(***************************************************************************)
(* A step that makes a block or a transaction, or neither.                 *)
(***************************************************************************)
Extends ==
  /\ \/ minted' = minted
     \/ \E b : minted' = Append(minted, b)
  /\ \/ payload' = payload /\ created' = created
     \/ \E p : payload' = Append(payload, p) /\ created' = created + 1

(***************************************************************************)
(* What was made stays as it was.                                          *)
(***************************************************************************)
LEMMA MadeStays ==
  ASSUME Lists, MadeInOrder, Extends
  PROVE  /\ Len(minted) \in Nat /\ DOMAIN minted = 1..Len(minted)
         /\ DOMAIN minted \subseteq DOMAIN minted'
         /\ \A i \in DOMAIN minted : minted'[i] = minted[i]
         /\ DOMAIN payload = 1..created /\ created' >= created /\ created' \in Nat
         /\ \A id \in 1..created : payload'[id] = payload[id]
         /\ Unforked' => Unforked
<1>1. /\ Len(minted) \in Nat /\ DOMAIN minted = 1..Len(minted)
      /\ DOMAIN minted \subseteq DOMAIN minted'
      /\ \A i \in DOMAIN minted : minted'[i] = minted[i]
  <2>1. minted \in Seq(RecordsBlock)
    BY DEF MadeInOrder
  <2>2. CASE minted' = minted
    BY <2>1, <2>2
  <2>3. CASE \E b : minted' = Append(minted, b)
    BY <2>1, <2>3, AppendFacts
  <2> QED BY <2>2, <2>3 DEF Extends
<1>2. /\ DOMAIN payload = 1..created /\ created' >= created /\ created' \in Nat
      /\ \A id \in 1..created : payload'[id] = payload[id]
  <2>1. PICK S : payload \in Seq(S) /\ Len(payload) = created /\ created \in Nat
    BY DEF Lists
  <2>2. DOMAIN payload = 1..created
    BY <2>1
  <2>3. CASE payload' = payload /\ created' = created
    BY <2>1, <2>2, <2>3
  <2>4. CASE \E p : payload' = Append(payload, p) /\ created' = created + 1
    <3>1. \A id \in DOMAIN payload : payload'[id] = payload[id]
      BY <2>1, <2>4, AppendFacts
    <3> QED BY <2>1, <2>2, <2>4, <3>1
  <2> QED BY <2>2, <2>3, <2>4 DEF Extends
<1>3. Unforked' => Unforked
  BY <1>1 DEF Unforked
<1> QED BY <1>1, <1>2, <1>3

(***************************************************************************)
(* Every set of the invariant only grows with what is made, and with the   *)
(* part of the line that a peer has.                                       *)
(***************************************************************************)
LEMMA MadeGrows ==
  ASSUME Lists, MadeInOrder, Extends
  PROVE  /\ Sent \subseteq Sent'
         /\ RecordsBlock \subseteq RecordsBlock'
         /\ MadeBlock \subseteq MadeBlock'
         /\ MadeChain \subseteq MadeChain'
         /\ RecordsMsg \subseteq RecordsMsg'
<1>1. Sent \subseteq Sent'
  <2>1. 1..created \subseteq (1..created)'
    <3>1. created \in Nat /\ created' \in Nat /\ created' >= created
      BY MadeStays DEF Lists
    <3> QED BY <3>1
  <2> QED BY <2>1 DEF Sent
<1>2. RecordsBlock \subseteq RecordsBlock'
  <2>1. Seq(Sent \cup {Grant}) \subseteq Seq(Sent' \cup {Grant})
    <3>1. Sent \cup {Grant} \subseteq Sent' \cup {Grant}
      BY <1>1
    <3> HIDE DEF Sent, Grant
    <3> QED BY <3>1
  <2>2. Grant' = Grant
    BY DEF Grant
  <2> HIDE DEF Sent, Grant
  <2> QED BY <2>1, <2>2 DEF RecordsBlock
<1>3. MadeBlock \subseteq MadeBlock'
  <2>1. \A i \in DOMAIN minted : i \in DOMAIN minted' /\ minted'[i] = minted[i]
    BY MadeStays
  <2> HIDE DEF RecordsBlock
  <2> QED BY <1>2, <2>1 DEF MadeBlock
<1>4. MadeChain \subseteq MadeChain'
  <2>1. Unforked' => Unforked
    BY MadeStays
  <2>2. Seq(MadeBlock) \subseteq Seq(MadeBlock')
    <3> HIDE DEF MadeBlock
    <3> QED BY <1>3
  <2>3. \A c : Straight(c)' = Straight(c)
    BY DEF Straight
  <2> HIDE DEF MadeBlock, Straight, Unforked
  <2> QED BY <2>1, <2>2, <2>3 DEF MadeChain
<1>5. RecordsMsg \subseteq RecordsMsg'
  <2> HIDE DEF Sent, MadeBlock, MadeChain
  <2> QED BY <1>1, <1>3, <1>4 DEF RecordsMsg
<1> QED BY <1>1, <1>2, <1>3, <1>4, <1>5

LEMMA DeployedStays ==
  ASSUME Lists, MadeInOrder, Extends, NEW contract, NEW m \in Nat, NEW k \in Nat, m <= k,
         Deployed(contract, m)
  PROVE  Deployed(contract, k)'
<1>1. PICK j \in DOMAIN minted :
        j <= m /\ \E l \in DOMAIN minted[j].transactions : minted[j].transactions[l].id = contract
  BY DEF Deployed
<1>2. j \in DOMAIN minted' /\ minted'[j] = minted[j] /\ j \in Nat
  BY MadeStays
<1>3. j <= k
  BY <1>1, <1>2
<1> QED BY <1>1, <1>2, <1>3 DEF Deployed

LEMMA HeldGrows ==
  ASSUME Lists, MadeInOrder, Extends, NEW m \in Nat, NEW k \in Nat, m <= k
  PROVE  /\ Backed(m) \subseteq Backed(k)'
         /\ InLine(m) \subseteq InLine(k)'
         /\ Drafts(m) \subseteq Drafts(k)'
<1>1. Backed(m) \subseteq Backed(k)'
  <2> SUFFICES ASSUME NEW tx \in Backed(m) PROVE tx \in Backed(k)'
    OBVIOUS
  <2>1. tx \in Sent /\ tx \in Sent' /\ tx.id \in 1..created
    BY MadeGrows DEF Backed, Sent
  <2>2. payload'[tx.id] = payload[tx.id] /\ (Unforked' => Unforked)
    BY <2>1, MadeStays
  <2>3. ASSUME Unforked', tx.receiver = Invoke
        PROVE  Deployed(payload[tx.id].contract, k)'
    <3>1. PICK contract : contract = payload[tx.id].contract
      OBVIOUS
    <3>2. Deployed(contract, m)
      BY <2>2, <2>3, <3>1 DEF Backed
    <3>3. Deployed(contract, k)'
      BY <3>2, DeployedStays
    <3>4. payload'[tx.id].contract = contract
      BY <2>2, <3>1
    <3> QED BY <3>3, <3>4 DEF Deployed
  <2> HIDE DEF Sent, Deployed, Unforked
  <2> QED BY <2>1, <2>3 DEF Backed
<1>2. InLine(m) \subseteq InLine(k)'
  <2>1. {b \in MadeBlock : Unforked => b.hash < m} \subseteq {b \in MadeBlock' : Unforked' => b.hash < k}
    <3>1. MadeBlock \subseteq MadeBlock' /\ (Unforked' => Unforked)
      BY MadeGrows, MadeStays
    <3>2. \A b \in MadeBlock : b.hash \in Nat
      BY DEF MadeBlock, RecordsBlock
    <3> HIDE DEF MadeBlock, Unforked
    <3> QED BY <3>1, <3>2
  <2> HIDE DEF Backed, MadeBlock, Unforked
  <2> QED BY <1>1, <2>1 DEF InLine
<1>3. Drafts(m) \subseteq Drafts(k)'
  <2>1. Seq(Backed(m)) \subseteq Seq(Backed(k)')
    <3> HIDE DEF Backed
    <3> QED BY <1>1
  <2> HIDE DEF Backed
  <2> QED BY <2>1 DEF Drafts
<1> QED BY <1>1, <1>2, <1>3
(***************************************************************************)
(* A block that was made, and a chain of such blocks on one line.          *)
(***************************************************************************)
LEMMA MadeFields ==
  ASSUME MadeInOrder, NEW b \in MadeBlock
  PROVE  /\ b \in RecordsBlock /\ b.hash \in Nat /\ b.hash + 1 \in DOMAIN minted
         /\ b.prevHash = minted[b.hash + 1].prevHash
         /\ b.transactions = minted[b.hash + 1].transactions
<1>1. minted \in Seq(RecordsBlock)
  BY DEF MadeInOrder
<1>2. PICK i \in DOMAIN minted :
        b.hash = i - 1 /\ b.prevHash = minted[i].prevHash /\ b.transactions = minted[i].transactions
  BY DEF MadeBlock
<1>3. i \in Nat /\ b.hash + 1 = i
  <2>1. i \in Nat
    BY <1>1
  <2> QED BY <1>2, <2>1
<1>4. b \in RecordsBlock /\ b.hash \in Nat
  BY DEF MadeBlock, RecordsBlock
<1> QED BY <1>2, <1>3, <1>4

LEMMA OnTheLine ==
  ASSUME MadeInOrder, Unforked, NEW c \in MadeChain
  PROVE  /\ Len(c) \in Nat /\ DOMAIN c = 1..Len(c) /\ Len(c) <= Len(minted)
         /\ \A i \in DOMAIN c : /\ i \in DOMAIN minted /\ c[i].hash = i - 1
                                /\ c[i].transactions = minted[i].transactions
<1>1. c \in Seq(MadeBlock) /\ minted \in Seq(RecordsBlock)
  BY DEF MadeChain, MadeInOrder
<1>2. Len(c) \in Nat /\ DOMAIN c = 1..Len(c) /\ Len(minted) \in Nat /\ DOMAIN minted = 1..Len(minted)
  <2> HIDE DEF MadeBlock, RecordsBlock
  <2> QED BY <1>1
<1>3. ASSUME NEW i \in DOMAIN c
      PROVE  i \in DOMAIN minted /\ c[i].hash = i - 1 /\ c[i].transactions = minted[i].transactions
  <2>1. c[i] \in MadeBlock
    <3> HIDE DEF MadeBlock
    <3> QED BY <1>1
  <2>2. c[i].hash = i - 1 /\ i \in Nat
    BY <1>2, <1>3 DEF MadeChain, Straight
  <2>3. c[i].hash + 1 = i
    BY <2>2
  <2> QED BY <2>1, <2>2, <2>3, MadeFields
<1>4. Len(c) <= Len(minted)
  <2>1. CASE Len(c) = 0
    BY <1>2, <2>1
  <2>2. CASE Len(c) # 0
    <3>1. Len(c) \in DOMAIN c
      BY <1>2, <2>2
    <3>2. Len(c) \in 1..Len(minted)
      BY <1>2, <1>3, <3>1
    <3> QED BY <1>2, <3>2
  <2> QED BY <2>1, <2>2
<1> QED BY <1>2, <1>3, <1>4

(***************************************************************************)
(* A block on top of a chain keeps it on the line.                         *)
(***************************************************************************)
LEMMA MadeAppend ==
  ASSUME MadeInOrder, NEW c \in MadeChain, c # << >>, NEW b \in MadeBlock,
         b.prevHash = lastBlock(c).hash
  PROVE  /\ Append(c, b) \in MadeChain /\ Len(Append(c, b)) = Len(c) + 1 /\ Len(c) \in Nat
         /\ Unforked => b.hash = Len(c)
<1>1. c \in Seq(MadeBlock)
  BY DEF MadeChain
<1>2. /\ Append(c, b) \in Seq(MadeBlock) /\ Len(Append(c, b)) = Len(c) + 1 /\ Len(c) \in Nat
      /\ DOMAIN c = 1..Len(c) /\ Len(c) # 0
  <2> HIDE DEF MadeBlock
  <2> QED BY <1>1
<1>3. ASSUME Unforked PROVE b.hash = Len(c) /\ Straight(Append(c, b))
  <2>1. lastBlock(c).hash = Len(c) - 1
    <3>1. Len(c) \in DOMAIN c
      BY <1>2
    <3> QED BY <1>3, <3>1, OnTheLine DEF lastBlock
  <2>2. /\ b.hash \in Nat /\ b.hash + 1 \in DOMAIN minted
        /\ b.prevHash = minted[b.hash + 1].prevHash
    BY MadeFields
  <2>3. b.hash + 1 # 1
    <3>1. minted[1].prevHash = None
      BY DEF MadeInOrder
    <3>2. Len(c) - 1 \in Nat
      BY <1>2
    <3> QED BY <2>1, <2>2, <3>1, <3>2, LedgerAssumption
  <2>4. b.prevHash = (b.hash + 1) - 2
    <3>1. \A i \in DOMAIN minted : i # 1 => minted[i].prevHash = i - 2
      BY <1>3 DEF MadeInOrder
    <3> QED BY <2>2, <2>3, <3>1
  <2>5. b.hash = Len(c)
    BY <1>2, <2>1, <2>2, <2>4
  <2>6. \A i \in DOMAIN c : c[i].hash = i - 1
    BY <1>3, OnTheLine
  <2>7. ASSUME NEW i \in DOMAIN Append(c, b) PROVE Append(c, b)[i].hash = i - 1
    <3>1. CASE i \in DOMAIN c
      <4>1. Append(c, b)[i] = c[i]
        BY <1>1, <3>1, AppendFacts
      <4> QED BY <2>6, <3>1, <4>1
    <3>2. CASE i \notin DOMAIN c
      <4>1. i = Len(c) + 1 /\ Append(c, b)[i] = b
        BY <1>1, <2>7, <3>2, AppendFacts
      <4> QED BY <1>2, <2>5, <4>1
    <3> QED BY <3>1, <3>2
  <2> QED BY <2>5, <2>7 DEF Straight
<1> QED BY <1>2, <1>3 DEF MadeChain

-----------------------------------------------------------------------------
(***************************************************************************)
(* What a peer has it may keep while its chain grows.                      *)
(***************************************************************************)
LEMMA PeerHeld ==
  ASSUME Lists, MadeInOrder, Extends, NEW n \in Node, PeerGood(n),
         NEW k \in Nat, Len(chain[n]) <= k
  PROVE  /\ Len(chain[n]) \in Nat
         /\ chain[n] \in MadeChain'
         /\ mem_pool[n] \in Seq(Backed(k)')
         /\ waiting[n] \in Seq(InLine(k)')
         /\ mining[n] \in Drafts(k)' \cup {None}
         /\ Unforked' => \A contract \in contractsDB[n] : Deployed(contract, k)'
<1> DEFINE m == Len(chain[n])
<1>1. m \in Nat /\ chain[n] \in MadeChain /\ chain[n] \in MadeChain'
  <2>1. chain[n] \in MadeChain
    BY DEF PeerGood
  <2>2. chain[n] \in Seq(MadeBlock)
    BY <2>1 DEF MadeChain
  <2>3. Len(chain[n]) \in Nat
    <3> HIDE DEF MadeBlock
    <3> QED BY <2>2
  <2> QED BY <2>1, <2>3, MadeGrows
<1>2. Backed(m) \subseteq Backed(k)' /\ InLine(m) \subseteq InLine(k)' /\ Drafts(m) \subseteq Drafts(k)'
  BY <1>1, HeldGrows
<1>3. /\ mem_pool[n] \in Seq(Backed(m)) /\ waiting[n] \in Seq(InLine(m))
      /\ mining[n] \in Drafts(m) \cup {None}
      /\ Unforked => \A contract \in contractsDB[n] : Deployed(contract, m)
  BY DEF PeerGood
<1>4. mem_pool[n] \in Seq(Backed(k)') /\ waiting[n] \in Seq(InLine(k)')
  <2> HIDE DEF m
  <2> QED BY <1>2, <1>3
<1>5. ASSUME Unforked', NEW contract \in contractsDB[n] PROVE Deployed(contract, k)'
  <2>1. Unforked
    BY <1>5, MadeStays
  <2>2. Deployed(contract, m)
    BY <1>3, <1>5, <2>1
  <2> HIDE DEF m
  <2> QED BY <1>1, <2>2, DeployedStays DEF m
<1> QED BY <1>1, <1>2, <1>3, <1>4, <1>5

FilesOf(fs, c) == UNION {fs[c[i].hash] : i \in DOMAIN c}

\* Blocks that were made keep their files.
FilesStay == \A i \in DOMAIN minted : files'[i - 1] = files[i - 1]

LEMMA FilesHeld ==
  ASSUME Lists, MadeInOrder, Extends, FilesStay, NEW n \in Node, PeerGood(n), n \in Miner,
         Unforked', NEW d \in MadeChain', Len(chain[n]) <= Len(d),
         NEW i \in DOMAIN chain[n]
  PROVE  /\ i \in DOMAIN d /\ files[chain[n][i].hash] = files'[d[i].hash]
         /\ files[chain[n][i].hash] \subseteq FilesOf(files', d)
<1>1. Unforked
  BY MadeStays
<1>2. chain[n] \in MadeChain
  BY DEF PeerGood
<1>3. /\ i \in DOMAIN minted /\ chain[n][i].hash = i - 1
      /\ Len(chain[n]) \in Nat /\ DOMAIN chain[n] = 1..Len(chain[n])
  BY <1>1, <1>2, OnTheLine
<1>4. Len(d) \in Nat /\ DOMAIN d = 1..Len(d)
  <2>1. d \in Seq(MadeBlock')
    BY DEF MadeChain
  <2> HIDE DEF MadeBlock
  <2> QED BY <2>1
<1>5. i \in DOMAIN d
  BY <1>3, <1>4
<1>6. d[i].hash = i - 1
  BY <1>5 DEF MadeChain, Straight
<1>7. files[chain[n][i].hash] = files'[d[i].hash]
  BY <1>3, <1>6 DEF FilesStay
<1>8. files'[d[i].hash] \subseteq FilesOf(files', d)
  BY <1>5 DEF FilesOf
<1> QED BY <1>5, <1>7, <1>8

LEMMA SeenHeld ==
  ASSUME Lists, MadeInOrder, Extends, FilesStay, NEW n \in Node, PeerGood(n), n \in Miner,
         Unforked', NEW d \in MadeChain', Len(chain[n]) <= Len(d)
  PROVE  seen_files[n] \subseteq file_hashes[n] \cup FilesOf(files', d)
<1>1. Unforked
  BY MadeStays
<1>2. seen_files[n] \subseteq file_hashes[n] \cup InChainFiles(chain[n])
  BY <1>1 DEF PeerGood
<1>3. \A i \in DOMAIN chain[n] : files[chain[n][i].hash] \subseteq FilesOf(files', d)
  BY FilesHeld
<1>4. InChainFiles(chain[n]) \subseteq FilesOf(files', d)
  <2> HIDE DEF FilesOf
  <2> QED BY <1>3 DEF InChainFiles
<1> QED BY <1>2, <1>4

LEMMA PeerStays ==
  ASSUME Lists, MadeInOrder, Extends, FilesStay, NEW n \in Node, PeerGood(n),
         chain'[n] = chain[n], mem_pool'[n] = mem_pool[n], waiting'[n] = waiting[n],
         mining'[n] = mining[n], contractsDB'[n] = contractsDB[n],
         seen_files'[n] = seen_files[n], file_hashes'[n] = file_hashes[n]
  PROVE  PeerGood(n)'
<1>1. PICK k : k = Len(chain[n])
  OBVIOUS
<1>2. chain[n] \in MadeChain /\ k \in Nat /\ Len(chain[n]) <= k
  <2>1. chain[n] \in Seq(MadeBlock) /\ chain[n] \in MadeChain
    BY DEF PeerGood, MadeChain
  <2> HIDE DEF MadeBlock
  <2>2. Len(chain[n]) \in Nat
    BY <2>1
  <2> QED BY <1>1, <2>1, <2>2
<1>3. /\ chain[n] \in MadeChain'
      /\ mem_pool[n] \in Seq(Backed(k)')
      /\ waiting[n] \in Seq(InLine(k)')
      /\ mining[n] \in Drafts(k)' \cup {None}
      /\ Unforked' => \A contract \in contractsDB[n] : Deployed(contract, k)'
  BY <1>2, PeerHeld
<1>4. ASSUME Unforked', n \in Miner
      PROVE  seen_files[n] \subseteq file_hashes[n] \cup FilesOf(files', chain[n])
  BY <1>1, <1>2, <1>3, <1>4, SeenHeld
<1>5. FilesOf(files', chain[n]) = InChainFiles(chain[n])'
  BY DEF FilesOf, InChainFiles
<1> QED BY <1>1, <1>3, <1>4, <1>5 DEF PeerGood

-----------------------------------------------------------------------------
(***************************************************************************)
(* What follows for the whole from what a step does to one peer.           *)
(***************************************************************************)
LEMMA InvAfter ==
  ASSUME RecordsInv, Extends, FilesStay, NEW n \in Node, PeerGood(n)',
         \A m \in Node : m # n =>
           /\ chain'[m] = chain[m] /\ mem_pool'[m] = mem_pool[m] /\ waiting'[m] = waiting[m]
           /\ mining'[m] = mining[m] /\ contractsDB'[m] = contractsDB[m]
           /\ seen_files'[m] = seen_files[m] /\ file_hashes'[m] = file_hashes[m],
         Lists', MadeInOrder', Bounded', inbox' \in [Conn -> [Node -> Seq(RecordsMsg')]]
  PROVE  RecordsInv'
<1>1. ASSUME NEW m \in Node PROVE PeerGood(m)'
  <2>1. CASE m = n
    BY <2>1
  <2>2. CASE m # n
    <3>1. PeerGood(m) /\ Lists /\ MadeInOrder
      BY DEF RecordsInv
    <3> QED BY <2>2, <3>1, PeerStays
  <2> QED BY <2>1, <2>2
<1> QED BY <1>1 DEF RecordsInv

LEMMA NothingMade ==
  ASSUME UNCHANGED <<minted, payload, created>>
  PROVE  /\ Extends /\ (MadeInOrder => MadeInOrder') /\ RecordsMsg' = RecordsMsg
         /\ MadeChain' = MadeChain /\ MadeBlock' = MadeBlock /\ Sent' = Sent
         /\ \A m : Backed(m)' = Backed(m)
         /\ (UNCHANGED files => FilesStay)
         /\ (UNCHANGED mining /\ Bounded => Bounded')
<1>1. Sent' = Sent
  BY DEF Sent
<1>2. RecordsBlock' = RecordsBlock
  BY <1>1 DEF RecordsBlock, Grant
<1>3. MadeBlock' = MadeBlock
  BY <1>2 DEF MadeBlock
<1>4. MadeChain' = MadeChain
  BY <1>3 DEF MadeChain, Unforked, Straight
<1>5. RecordsMsg' = RecordsMsg
  BY <1>1, <1>3, <1>4 DEF RecordsMsg
<1>6. MadeInOrder => MadeInOrder'
  BY <1>2 DEF MadeInOrder, Unforked, Deployed
<1>7. \A m : Backed(m)' = Backed(m)
  BY <1>1 DEF Backed, Unforked, Deployed
<1>8. UNCHANGED mining /\ Bounded => Bounded'
  BY DEF Bounded, Allotted
<1> QED BY <1>1, <1>3, <1>4, <1>5, <1>6, <1>7, <1>8 DEF Extends, FilesStay

LEMMA InboxGrows ==
  ASSUME NEW M, NEW N, M \subseteq N, NEW boxes \in [Conn -> [Node -> Seq(M)]]
  PROVE  boxes \in [Conn -> [Node -> Seq(N)]]
<1>1. Seq(M) \subseteq Seq(N)
  OBVIOUS
<1>2. [Node -> Seq(M)] \subseteq [Node -> Seq(N)]
  BY <1>1
<1> QED BY <1>2

(***************************************************************************)
(* Blocks that were made are judged alike when transactions are added.     *)
(***************************************************************************)
LEMMA OrderStays ==
  ASSUME Lists, MadeInOrder, Extends, minted' = minted
  PROVE  MadeInOrder'
<1>1. RecordsBlock \subseteq RecordsBlock' /\ (Unforked' => Unforked)
  BY MadeGrows, MadeStays
<1>2. minted \in Seq(RecordsBlock')
  <2>1. minted \in Seq(RecordsBlock)
    BY DEF MadeInOrder
  <2> HIDE DEF RecordsBlock
  <2> QED BY <1>1, <2>1
<1>3. ASSUME NEW i \in DOMAIN minted, Unforked', NEW k \in DOMAIN minted[i].transactions,
             minted[i].transactions[k].receiver = Invoke
      PROVE  Deployed(payload[minted[i].transactions[k].id].contract, i - 1)'
  <2> DEFINE tx == minted[i].transactions[k]
  <2>1. Deployed(payload[tx.id].contract, i - 1)
    BY <1>1, <1>3 DEF MadeInOrder
  <2>2. tx \in Sent \cup {Grant}
    <3>1. minted[i] \in RecordsBlock
      <4>1. minted \in Seq(RecordsBlock)
        BY DEF MadeInOrder
      <4> HIDE DEF RecordsBlock
      <4> QED BY <4>1
    <3>2. minted[i].transactions \in Seq(Sent \cup {Grant})
      BY <3>1 DEF RecordsBlock
    <3> HIDE DEF Sent, Grant
    <3> QED BY <3>2
  <2>3. tx # Grant
    BY <1>3, NetworkAssumption, RecordsAssumption DEF Grant
  <2>4. tx.id \in 1..created
    BY <2>2, <2>3 DEF Sent
  <2>5. payload'[tx.id].contract = payload[tx.id].contract
    BY <2>4, MadeStays
  <2> HIDE DEF tx
  <2>6. Deployed(payload[tx.id].contract, i - 1)'
    BY <2>1, <2>5 DEF Deployed, tx
  <2> QED BY <2>6 DEF tx
<1> QED BY <1>1, <1>2, <1>3 DEF MadeInOrder

-----------------------------------------------------------------------------
(***************************************************************************)
(* A transaction into a pool, and a coroutine into the line for the lock.  *)
(***************************************************************************)
LEMMA PoolAdds ==
  ASSUME DOMAIN mem_pool = Node, NEW n \in Node, NEW B, mem_pool[n] \in Seq(B),
         NEW tx \in B, NEW M, [type |-> "new_tx", transaction |-> tx] \in M,
         NEW boxes \in [Conn -> [Node -> Seq(M)]], AddTransaction(n, tx, boxes)
  PROVE  /\ mem_pool'[n] \in Seq(B) /\ DOMAIN mem_pool' = Node
         /\ \A m \in Node : m # n => mem_pool'[m] = mem_pool[m]
         /\ inbox' \in [Conn -> [Node -> Seq(M)]]
<1>1. Append(mem_pool[n], tx) \in Seq(B)
  OBVIOUS
<1>2. mem_pool' = [mem_pool EXCEPT ![n] = Append(@, tx)]
  BY DEF AddTransaction
<1>3. inbox' \in [Conn -> [Node -> Seq(M)]]
  BY BroadcastType DEF AddTransaction
<1> QED BY <1>1, <1>2, <1>3

LEMMA LineAdds ==
  ASSUME DOMAIN waiting = Node, NEW n \in Node, NEW W, waiting[n] \in Seq(W),
         NEW kind, NEW c, NEW data, Park(n, kind, c, data),
         [kind |-> kind, conn |-> c, data |-> data] \in W
  PROVE  /\ waiting'[n] \in Seq(W) /\ DOMAIN waiting' = Node
         /\ \A m \in Node : m # n => waiting'[m] = waiting[m]
<1>1. Append(waiting[n], [kind |-> kind, conn |-> c, data |-> data]) \in Seq(W)
  OBVIOUS
<1> QED BY <1>1 DEF Park

(***************************************************************************)
(* A deployment, or an invocation of a contract the peer has.              *)
(***************************************************************************)
LEMMA RecordsCreate ==
  ASSUME RecordsInv, NEW n \in Node, NEW rec \in {Deploy, Invoke}, NEW amt \in Nat,
         create_and_broadcast_tx(n, rec, amt),
         NEW p, payload' = Append(payload, p),
         rec = Invoke => p.contract \in contractsDB[n],
         UNCHANGED <<peerRecords, files, missing>>
  PROVE  RecordsInv'
<1>0. PICK tx : tx = [id |-> created + 1, sender |-> n, receiver |-> rec, amount |-> amt]
  OBVIOUS
<1>1. /\ Lists /\ MadeInOrder /\ Bounded /\ PeerGood(n)
      /\ inbox \in [Conn -> [Node -> Seq(RecordsMsg)]]
  BY DEF RecordsInv
<1>2. /\ created' = created + 1 /\ UNCHANGED <<chain, mine_task, live, mining, up, minted, drops>>
      /\ UNCHANGED <<contractsDB, file_hashes, seen_files, copied, files, missing>>
  BY DEF create_and_broadcast_tx, peerRecords
<1>3. Extends /\ FilesStay
  BY <1>2 DEF Extends, FilesStay
<1>4. MadeInOrder'
  BY <1>1, <1>2, <1>3, OrderStays
<1>5. PICK k : k = Len(chain[n])
  OBVIOUS
<1>6. k \in Nat
  <2>1. chain[n] \in Seq(MadeBlock)
    BY <1>1 DEF PeerGood, MadeChain
  <2> HIDE DEF MadeBlock
  <2> QED BY <1>5, <2>1
<1>7. /\ chain[n] \in MadeChain'
      /\ mem_pool[n] \in Seq(Backed(k)')
      /\ waiting[n] \in Seq(InLine(k)')
      /\ mining[n] \in Drafts(k)' \cup {None}
      /\ Unforked' => \A contract \in contractsDB[n] : Deployed(contract, k)'
  BY <1>1, <1>3, <1>5, <1>6, PeerHeld
<1>8. tx \in Sent' /\ tx.id = created + 1
  <2>1. created \in Nat /\ created + 1 \in (1..created)' /\ n \in Account
    BY <1>1, <1>2, NetworkAssumption DEF Lists
  <2> QED BY <1>0, <2>1 DEF Sent
<1>9. tx \in Backed(k)'
  <2>1. payload'[created + 1] = p
    <3>1. PICK S : payload \in Seq(S) /\ Len(payload) = created
      BY <1>1 DEF Lists
    <3> QED BY <3>1
  <2>2. ASSUME Unforked', tx.receiver = Invoke PROVE Deployed(payload[tx.id].contract, k)'
    <3>1. PICK contract : contract = p.contract
      OBVIOUS
    <3>2. Deployed(contract, k)'
      BY <1>0, <1>7, <2>2, <3>1
    <3>3. payload'[tx.id].contract = contract
      BY <1>8, <2>1, <3>1
    <3> QED BY <3>2, <3>3 DEF Deployed
  <2> HIDE DEF Sent, Deployed, Unforked
  <2> QED BY <1>8, <2>2 DEF Backed
<1>10. RecordsMsg \subseteq RecordsMsg' /\ inbox \in [Conn -> [Node -> Seq(RecordsMsg')]]
  BY <1>1, <1>3, MadeGrows, InboxGrows
<1>11. [type |-> "new_tx", transaction |-> tx] \in RecordsMsg'
  <2> HIDE DEF Sent, MadeBlock, MadeChain
  <2> QED BY <1>8 DEF RecordsMsg
<1>12. [kind |-> "own_tx", conn |-> None, data |-> tx] \in InLine(k)'
  <2> HIDE DEF Backed, MadeBlock
  <2> QED BY <1>9 DEF InLine
<1>13. /\ mem_pool'[n] \in Seq(Backed(k)') /\ DOMAIN mem_pool' = Node
       /\ waiting'[n] \in Seq(InLine(k)') /\ DOMAIN waiting' = Node
       /\ inbox' \in [Conn -> [Node -> Seq(RecordsMsg')]]
       /\ \A m \in Node : m # n => mem_pool'[m] = mem_pool[m] /\ waiting'[m] = waiting[m]
  <2> HIDE DEF Backed, InLine, RecordsMsg
  <2>1. DOMAIN mem_pool = Node /\ DOMAIN waiting = Node
    BY <1>1 DEF Lists
  <2>2. CASE AddTransaction(n, tx, inbox) /\ UNCHANGED waiting
    BY <1>7, <1>9, <1>10, <1>11, <2>1, <2>2, PoolAdds
  <2>3. CASE Park(n, "own_tx", None, tx) /\ UNCHANGED <<mem_pool, inbox>>
    BY <1>7, <1>10, <1>12, <2>1, <2>3, LineAdds
  <2> QED BY <1>0, <2>2, <2>3 DEF create_and_broadcast_tx
<1>14. Lists'
  <2>1. (\E S : payload' \in Seq(S)) /\ Len(payload') = created' /\ created' \in Nat
    <3>1. PICK S : payload \in Seq(S) /\ Len(payload) = created /\ created \in Nat
      BY <1>1 DEF Lists
    <3>2. payload' \in Seq(S \cup {p}) /\ Len(payload') = created + 1
      BY <3>1
    <3> QED BY <1>2, <3>1, <3>2
  <2> QED BY <1>1, <1>2, <1>13, <2>1 DEF Lists
<1>15. Bounded'
  BY <1>1, <1>2 DEF Bounded, Allotted
<1>16. ASSUME Unforked', n \in Miner
       PROVE  seen_files[n] \subseteq file_hashes[n] \cup InChainFiles(chain[n])'
  <2>1. seen_files[n] \subseteq file_hashes[n] \cup FilesOf(files', chain[n])
    BY <1>1, <1>3, <1>5, <1>6, <1>7, <1>16, SeenHeld
  <2> QED BY <1>2, <2>1 DEF FilesOf, InChainFiles
<1>17. PeerGood(n)'
  <2> HIDE DEF Backed, InLine, Drafts, MadeChain, Unforked, Deployed, InChainFiles
  <2> QED BY <1>2, <1>5, <1>7, <1>13, <1>16 DEF PeerGood
<1> QED BY <1>2, <1>3, <1>4, <1>13, <1>14, <1>15, <1>17, InvAfter

-----------------------------------------------------------------------------
(***************************************************************************)
(* Steps that make nothing and leave chains, pools and lines as they are.  *)
(***************************************************************************)
LEMMA StillStep ==
  ASSUME RecordsInv,
         UNCHANGED <<chain, mem_pool, live, mining, waiting, minted, created, peerRecords,
                     payload, files>>,
         up' \in SUBSET Conn, inbox' \in [Conn -> [Node -> Seq(RecordsMsg)]]
  PROVE  RecordsInv'
<1>1. /\ Lists /\ MadeInOrder /\ Bounded /\ \A n \in Node : PeerGood(n)
      /\ UNCHANGED <<contractsDB, file_hashes, seen_files, copied, payload, files>>
  BY DEF RecordsInv, peerRecords
<1>2. /\ Extends /\ FilesStay /\ MadeInOrder' /\ Bounded' /\ RecordsMsg' = RecordsMsg
  BY <1>1, NothingMade
<1>3. Lists'
  BY <1>1 DEF Lists
<1>4. \A n \in Node : PeerGood(n)'
  BY <1>1, <1>2, PeerStays
<1> QED BY <1>2, <1>3, <1>4 DEF RecordsInv

LEMMA QuietStep ==
  ASSUME RecordsInv,
         UNCHANGED <<chain, mem_pool, live, mining, waiting, minted, created, records>>,
         up' \in SUBSET Conn, inbox' \in [Conn -> [Node -> Seq(RecordsMsg)]]
  PROVE  RecordsInv'
BY StillStep DEF records

LEMMA FileStep ==
  ASSUME RecordsInv, NEW n \in Node, NEW cid \in Cid,
         UNCHANGED <<chain, mem_pool, live, mining, waiting, up, minted, created,
                     contractsDB, copied, payload, files>>,
         seen_files' = [seen_files EXCEPT ![n] = @ \cup {cid}],
         file_hashes' = [file_hashes EXCEPT ![n] = @ \cup {cid}],
         inbox' \in [Conn -> [Node -> Seq(RecordsMsg)]]
  PROVE  RecordsInv'
<1>1. Lists /\ MadeInOrder /\ Bounded /\ PeerGood(n)
  BY DEF RecordsInv
<1>2. /\ Extends /\ FilesStay /\ MadeInOrder' /\ Bounded' /\ RecordsMsg' = RecordsMsg
  BY <1>1, NothingMade
<1>3. /\ seen_files'[n] = seen_files[n] \cup {cid} /\ file_hashes'[n] = file_hashes[n] \cup {cid}
      /\ \A m \in Node : m # n => seen_files'[m] = seen_files[m] /\ file_hashes'[m] = file_hashes[m]
  BY <1>1 DEF Lists
<1>4. Lists'
  <2>1. seen_files' \in [Node -> SUBSET Cid] /\ file_hashes' \in [Node -> SUBSET Cid]
    <3>1. /\ seen_files \in [Node -> SUBSET Cid] /\ file_hashes \in [Node -> SUBSET Cid]
      BY <1>1 DEF Lists
    <3>2. seen_files[n] \cup {cid} \in SUBSET Cid /\ file_hashes[n] \cup {cid} \in SUBSET Cid
      BY <3>1
    <3> QED BY <3>1, <3>2
  <2> QED BY <1>1, <2>1 DEF Lists
<1>5. PICK k : k = Len(chain[n])
  OBVIOUS
<1>6. k \in Nat
  <2>1. chain[n] \in Seq(MadeBlock)
    BY <1>1 DEF PeerGood, MadeChain
  <2> HIDE DEF MadeBlock
  <2> QED BY <1>5, <2>1
<1>7. /\ chain[n] \in MadeChain'
      /\ mem_pool[n] \in Seq(Backed(k)')
      /\ waiting[n] \in Seq(InLine(k)')
      /\ mining[n] \in Drafts(k)' \cup {None}
      /\ Unforked' => \A contract \in contractsDB[n] : Deployed(contract, k)'
  BY <1>1, <1>2, <1>5, <1>6, PeerHeld
<1>8. ASSUME Unforked', n \in Miner
      PROVE  seen_files'[n] \subseteq file_hashes'[n] \cup InChainFiles(chain[n])'
  <2>1. seen_files[n] \subseteq file_hashes[n] \cup FilesOf(files', chain[n])
    BY <1>1, <1>2, <1>5, <1>6, <1>7, <1>8, SeenHeld
  <2>2. FilesOf(files', chain[n]) = InChainFiles(chain[n])'
    BY DEF FilesOf, InChainFiles
  <2> HIDE DEF FilesOf, InChainFiles
  <2> QED BY <1>3, <2>1, <2>2
<1>9. PeerGood(n)'
  <2> HIDE DEF Backed, InLine, Drafts, MadeChain, Unforked, Deployed, InChainFiles
  <2> QED BY <1>5, <1>7, <1>8 DEF PeerGood
<1> QED BY <1>2, <1>3, <1>4, <1>9, InvAfter

LEMMA FileSent ==
  ASSUME NEW n \in Node, NEW cid \in Cid, NEW boxes \in [Conn -> [Node -> Seq(RecordsMsg)]]
  PROVE  broadcast_file(n, cid, boxes) \in [Conn -> [Node -> Seq(RecordsMsg)]]
<1>1. [type |-> "file", cid |-> cid] \in RecordsMsg
  BY DEF RecordsMsg
<1>2. ASSUME NEW c \in Conn, n \in Ends(c)
      PROVE  [boxes[c] EXCEPT ![Other(c, n)] = Append(@, [type |-> "file", cid |-> cid])]
               \in [Node -> Seq(RecordsMsg)]
  <2>1. Other(c, n) \in Node
    BY <1>2, EndsAreNodes
  <2> HIDE DEF RecordsMsg
  <2> QED BY <1>1, <2>1, SendType
<1> HIDE DEF RecordsMsg
<1> QED BY <1>2 DEF broadcast_file

LEMMA RecordsUpload ==
  ASSUME RecordsInv, NEW n \in Node, NEW cid \in Cid, uploadFile(n, cid)
  PROVE  RecordsInv'
<1>1. inbox' \in [Conn -> [Node -> Seq(RecordsMsg)]]
  BY FileSent DEF RecordsInv, uploadFile
<1> QED BY <1>1, FileStep DEF uploadFile, TakeUp

LEMMA RecordsMissing ==
  ASSUME RecordsInv, NEW n \in Node, upload_missing(n)
  PROVE  RecordsInv'
<1>1. [type |-> "null"] \in RecordsMsg /\ inbox \in [Conn -> [Node -> Seq(RecordsMsg)]]
  BY DEF RecordsMsg, RecordsInv
<1>2. inbox' \in [Conn -> [Node -> Seq(RecordsMsg)]]
  <2>1. ASSUME NEW c \in Conn, n \in Ends(c)
        PROVE  [inbox[c] EXCEPT ![Other(c, n)] = Append(@, [type |-> "null"])]
                 \in [Node -> Seq(RecordsMsg)]
    <3>1. Other(c, n) \in Node
      BY <2>1, EndsAreNodes
    <3> HIDE DEF RecordsMsg
    <3> QED BY <1>1, <3>1, SendType
  <2>2. inbox' = [c \in Conn |->
                    IF c \in up /\ n \in Ends(c)
                    THEN [inbox[c] EXCEPT ![Other(c, n)] = Append(@, [type |-> "null"])]
                    ELSE inbox[c]]
    BY DEF upload_missing
  <2> HIDE DEF RecordsMsg
  <2> QED BY <1>1, <2>1, <2>2
<1>3. /\ Lists /\ MadeInOrder /\ Bounded /\ \A m \in Node : PeerGood(m)
      /\ UNCHANGED <<chain, mem_pool, live, mining, waiting, up, minted, created,
                     contractsDB, file_hashes, seen_files, copied, payload, files>>
  BY DEF RecordsInv, upload_missing, peerRecords
<1>4. /\ Extends /\ FilesStay /\ MadeInOrder' /\ Bounded' /\ RecordsMsg' = RecordsMsg
  BY <1>3, NothingMade
<1>5. Lists'
  BY <1>3 DEF Lists
<1>6. \A m \in Node : PeerGood(m)'
  BY <1>3, <1>4, PeerStays
<1> QED BY <1>2, <1>4, <1>5, <1>6 DEF RecordsInv

-----------------------------------------------------------------------------
LEMMA RecordsRead ==
  ASSUME RecordsInv, NEW c \in Conn, NEW n \in Ends(c), NEW type, Reads(c, n, type)
  PROVE  /\ n \in Node /\ Other(c, n) \in Node
         /\ Head(inbox[c][n]) \in RecordsMsg /\ Head(inbox[c][n]).type = type
         /\ Read(c, n) \in [Conn -> [Node -> Seq(RecordsMsg)]]
<1>1. n \in Node /\ Other(c, n) \in Node
  BY EndsAreNodes
<1>2. inbox \in [Conn -> [Node -> Seq(RecordsMsg)]] /\ inbox[c][n] # << >>
  BY DEF RecordsInv, Reads
<1>3. Head(inbox[c][n]) \in RecordsMsg /\ Read(c, n) \in [Conn -> [Node -> Seq(RecordsMsg)]]
  <2> HIDE DEF RecordsMsg
  <2> QED BY <1>1, <1>2, ReadType
<1> QED BY <1>1, <1>3 DEF Reads

LEMMA RecordsMsgFields ==
  ASSUME NEW msg \in RecordsMsg
  PROVE  /\ msg.type = "new_tx" => msg.transaction \in Sent
         /\ msg.type = "new_block" => msg.block \in MadeBlock
         /\ msg.type = "chain" => msg.chain \in MadeChain
         /\ msg.type = "file" => msg.cid \in Cid
BY DEF RecordsMsg

LEMMA RecordsFails ==
  ASSUME RecordsInv, NEW c \in Conn, NEW n \in Node, HandlerFails(c, n)
  PROVE  inbox' \in [Conn -> [Node -> Seq(RecordsMsg)]] /\ up' \in SUBSET Conn
<1> HIDE DEF RecordsMsg
<1> QED BY HandlerFailsType DEF RecordsInv, Lists

LEMMA RecordsHandleFile ==
  ASSUME RecordsInv, NEW c \in Conn, NEW n \in Ends(c), HandleFile(c, n)
  PROVE  RecordsInv'
<1>1. PICK cid : cid = Head(inbox[c][n]).cid
  OBVIOUS
<1>2. /\ n \in Node /\ cid \in Cid /\ Read(c, n) \in [Conn -> [Node -> Seq(RecordsMsg)]]
      /\ UNCHANGED <<chain, mem_pool, live, mining, waiting, up, minted, created, contractsDB,
                     copied, payload, files, missing>>
      /\ up \in SUBSET Conn
  BY <1>1, RecordsRead, RecordsMsgFields DEF HandleFile, RecordsInv, Lists
<1>3. CASE inbox' = Read(c, n) /\ UNCHANGED <<seen_files, file_hashes>>
  BY <1>2, <1>3, StillStep DEF peerRecords
<1>4. CASE /\ seen_files' = [seen_files EXCEPT ![n] = @ \cup {cid}]
           /\ file_hashes' = [file_hashes EXCEPT ![n] = @ \cup {cid}]
           /\ inbox' = broadcast_file(n, cid, Read(c, n))
  BY <1>2, <1>4, FileSent, FileStep
<1> QED BY <1>1, <1>3, <1>4 DEF HandleFile, TakeUp

LEMMA RecordsHandleNull ==
  ASSUME RecordsInv, NEW c \in Conn, NEW n \in Ends(c), HandleNull(c, n)
  PROVE  RecordsInv'
BY EndsAreNodes, RecordsFails, QuietStep DEF HandleNull

LEMMA RecordsAsk ==
  ASSUME RecordsInv, NEW n \in Node, find_longest_chain(n), UNCHANGED records
  PROVE  RecordsInv'
<1> DEFINE asks == {c \in up : n \in Ends(c) /\ ~ Asked(c, n)}
           msg == [type |-> "chain_request"]
<1>1. inbox \in [Conn -> [Node -> Seq(RecordsMsg)]] /\ msg \in RecordsMsg /\ up \in SUBSET Conn
  BY DEF RecordsInv, RecordsMsg, Lists
<1>2. inbox' = [c \in Conn |-> IF c \in asks
                               THEN [inbox[c] EXCEPT ![Other(c, n)] = Append(@, msg)]
                               ELSE inbox[c]]
  BY DEF find_longest_chain
<1>3. ASSUME NEW c \in Conn, c \in asks
      PROVE  [inbox[c] EXCEPT ![Other(c, n)] = Append(@, msg)] \in [Node -> Seq(RecordsMsg)]
  <2>1. Other(c, n) \in Node
    BY <1>3, EndsAreNodes
  <2> HIDE DEF msg, RecordsMsg
  <2> QED BY <1>1, <2>1, SendType
<1>4. inbox' \in [Conn -> [Node -> Seq(RecordsMsg)]]
  <2> HIDE DEF asks, msg, RecordsMsg
  <2> QED BY <1>1, <1>2, <1>3
<1> QED BY <1>1, <1>4, QuietStep DEF find_longest_chain

LEMMA RecordsDisconnect ==
  ASSUME RecordsInv, NEW c \in Conn, Disconnect(c), UNCHANGED records
  PROVE  RecordsInv'
<1>1. inbox \in [Conn -> [Node -> Seq(RecordsMsg)]] /\ up \in SUBSET Conn
  BY DEF RecordsInv, Lists
<1>2. PICK lost : inbox' = [inbox EXCEPT ![c] = [n \in Node |-> IF n \in lost THEN << >> ELSE @[n]]]
  BY DEF Disconnect
<1>3. inbox' \in [Conn -> [Node -> Seq(RecordsMsg)]]
  <2>1. inbox[c] \in [Node -> Seq(RecordsMsg)] /\ << >> \in Seq(RecordsMsg)
    BY <1>1
  <2>2. [n \in Node |-> IF n \in lost THEN << >> ELSE inbox[c][n]] \in [Node -> Seq(RecordsMsg)]
    <3> HIDE DEF RecordsMsg
    <3> QED BY <2>1
  <2> HIDE DEF RecordsMsg
  <2> QED BY <1>1, <1>2, <2>2
<1>4. up' \in SUBSET Conn
  BY <1>1 DEF Disconnect
<1> QED BY <1>3, <1>4, QuietStep DEF Disconnect

LEMMA RecordsConnect ==
  ASSUME RecordsInv, NEW c \in Conn, connect_to_peer(c), UNCHANGED records
  PROVE  RecordsInv'
<1>1. inbox' \in [Conn -> [Node -> Seq(RecordsMsg)]] /\ up' \in SUBSET Conn
  BY DEF RecordsInv, Lists, connect_to_peer
<1> QED BY <1>1, QuietStep DEF connect_to_peer

-----------------------------------------------------------------------------
(***************************************************************************)
(* Steps of one peer that leave its chain as it is and make nothing.       *)
(***************************************************************************)
LEMMA LocalStep ==
  ASSUME RecordsInv, NEW n \in Node,
         UNCHANGED <<chain, minted, created, contractsDB, seen_files, payload, files>>,
         Lists', Bounded', inbox' \in [Conn -> [Node -> Seq(RecordsMsg)]],
         mem_pool'[n] \in Seq(Backed(Len(chain[n]))),
         waiting'[n] \in Seq(InLine(Len(chain[n]))),
         mining'[n] \in Drafts(Len(chain[n])) \cup {None},
         Unforked /\ n \in Miner => seen_files[n] \subseteq file_hashes'[n] \cup InChainFiles(chain[n]),
         \A m \in Node : m # n =>
           /\ mem_pool'[m] = mem_pool[m] /\ waiting'[m] = waiting[m]
           /\ mining'[m] = mining[m] /\ file_hashes'[m] = file_hashes[m]
  PROVE  RecordsInv'
<1>1. Lists /\ MadeInOrder /\ PeerGood(n)
  BY DEF RecordsInv
<1>2. /\ Extends /\ FilesStay /\ MadeInOrder' /\ RecordsMsg' = RecordsMsg
      /\ MadeChain' = MadeChain
  BY <1>1, NothingMade
<1>3. PICK k : k = Len(chain[n])
  OBVIOUS
<1>4. chain[n] \in MadeChain /\ k \in Nat
  <2>1. chain[n] \in MadeChain /\ chain[n] \in Seq(MadeBlock)
    BY <1>1 DEF PeerGood, MadeChain
  <2>2. Len(chain[n]) \in Nat
    <3> HIDE DEF MadeBlock
    <3> QED BY <2>1
  <2> QED BY <1>3, <2>1, <2>2
<1>5. Backed(k) \subseteq Backed(k)' /\ InLine(k) \subseteq InLine(k)' /\ Drafts(k) \subseteq Drafts(k)'
  BY <1>1, <1>2, <1>4, HeldGrows
<1>6. /\ mem_pool'[n] \in Seq(Backed(k)') /\ waiting'[n] \in Seq(InLine(k)')
      /\ mining'[n] \in Drafts(k)' \cup {None}
  <2>1. /\ mem_pool'[n] \in Seq(Backed(k)) /\ waiting'[n] \in Seq(InLine(k))
        /\ mining'[n] \in Drafts(k) \cup {None}
    BY <1>3, Zenon
  <2>2. Seq(Backed(k)) \subseteq Seq(Backed(k)') /\ Seq(InLine(k)) \subseteq Seq(InLine(k)')
    <3> HIDE DEF Backed, InLine
    <3> QED BY <1>5
  <2> HIDE DEF Backed, InLine, Drafts
  <2> QED BY <1>5, <2>1, <2>2
<1>7. Unforked' => \A contract \in contractsDB[n] : Deployed(contract, k)'
  <2>1. Len(chain[n]) <= k
    BY <1>3, <1>4
  <2> QED BY <1>1, <1>2, <1>4, <2>1, PeerHeld
<1>8. Unforked' = Unforked /\ InChainFiles(chain[n])' = InChainFiles(chain[n])
  BY DEF Unforked, InChainFiles
<1>9. PeerGood(n)'
  <2> HIDE DEF Backed, InLine, Drafts, MadeChain, Unforked, Deployed, InChainFiles
  <2> QED BY <1>2, <1>3, <1>4, <1>6, <1>7, <1>8 DEF PeerGood
<1> QED BY <1>2, <1>9, InvAfter

LEMMA WireMade ==
  ASSUME NEW c \in MadeChain
  PROVE  to_block_dict_list(c) \in MadeChain
<1>1. c \in Seq(MadeBlock)
  BY DEF MadeChain
<1>2. ASSUME NEW b \in MadeBlock
      PROVE  over_the_wire(b) \in MadeBlock /\ over_the_wire(b).hash = b.hash
  <2>1. b \in RecordsBlock
    BY DEF MadeBlock
  <2>2. /\ over_the_wire(b) \in RecordsBlock /\ over_the_wire(b).hash = b.hash
        /\ over_the_wire(b).prevHash = b.prevHash
        /\ over_the_wire(b).transactions = b.transactions
    BY <2>1 DEF RecordsBlock, over_the_wire
  <2> HIDE DEF RecordsBlock
  <2> QED BY <2>2 DEF MadeBlock
<1>3. /\ to_block_dict_list(c) \in Seq(MadeBlock) /\ DOMAIN to_block_dict_list(c) = DOMAIN c
      /\ \A i \in DOMAIN c : to_block_dict_list(c)[i] = over_the_wire(c[i]) /\ c[i] \in MadeBlock
  <2> HIDE DEF MadeBlock
  <2> QED BY <1>1, <1>2 DEF to_block_dict_list
<1>4. Straight(c) => Straight(to_block_dict_list(c))
  <2> HIDE DEF MadeBlock
  <2> QED BY <1>2, <1>3 DEF Straight
<1> QED BY <1>3, <1>4 DEF MadeChain

LEMMA RecordsChainRequest ==
  ASSUME RecordsInv, NEW c \in Conn, NEW n \in Ends(c), HandleChainRequest(c, n),
         UNCHANGED records
  PROVE  RecordsInv'
<1> DEFINE msg == [type |-> "chain", chain |-> to_block_dict_list(chain[n])]
<1>1. /\ n \in Node /\ Other(c, n) \in Node
      /\ Read(c, n) \in [Conn -> [Node -> Seq(RecordsMsg)]] /\ up \in SUBSET Conn
  BY RecordsRead DEF HandleChainRequest, RecordsInv, Lists
<1>2. msg \in RecordsMsg
  <2>1. to_block_dict_list(chain[n]) \in MadeChain
    BY <1>1, WireMade DEF RecordsInv, PeerGood
  <2> QED BY <2>1 DEF RecordsMsg
<1>3. \/ inbox' = Read(c, n)
      \/ inbox' = [Read(c, n) EXCEPT
                     ![c] = [Read(c, n)[c] EXCEPT
                               ![Other(c, n)] = Append(Read(c, n)[c][Other(c, n)], msg)]]
  BY DEF HandleChainRequest
<1>4. inbox' \in [Conn -> [Node -> Seq(RecordsMsg)]]
  <2>1. [Read(c, n)[c] EXCEPT ![Other(c, n)] = Append(@, msg)] \in [Node -> Seq(RecordsMsg)]
    <3> HIDE DEF msg, RecordsMsg
    <3> QED BY <1>1, <1>2, SendType
  <2> HIDE DEF msg, RecordsMsg
  <2> QED BY <1>1, <1>3, <2>1
<1> QED BY <1>1, <1>4, QuietStep DEF HandleChainRequest

-----------------------------------------------------------------------------
LEMMA RecordsRefuse ==
  ASSUME RecordsInv, NEW c \in Conn, NEW n \in Ends(c), NEW type, Reads(c, n, type),
         NEW msg, NEW tx, Refuse(c, n, msg, tx)
  PROVE  RecordsInv'
<1>1. /\ n \in Node /\ Read(c, n) \in [Conn -> [Node -> Seq(RecordsMsg)]] /\ up \in SUBSET Conn
      /\ UNCHANGED <<chain, mem_pool, live, mining, waiting, minted, created, records>>
  BY RecordsRead DEF RecordsInv, Lists, Refuse
<1>2. CASE HandlerFails(c, n)
  BY <1>1, <1>2, RecordsFails, QuietStep
<1>3. CASE inbox' = Read(c, n) /\ UNCHANGED up
  BY <1>1, <1>3, QuietStep
<1> QED BY <1>2, <1>3 DEF Refuse

LEMMA RecordsNewTx ==
  ASSUME RecordsInv, NEW c \in Conn, NEW n \in Ends(c), HandleNewTx(c, n), UNCHANGED records,
         LET msg == Head(inbox[c][n])
             tx == msg.transaction
         IN  (/\ tx.receiver = Invoke
              /\ MsgId(msg) \notin seen[n]
              /\ chain[n] # << >>
              /\ ~ transaction_exists_in_chain(chain[n], tx)) => Passes(n, tx)
  PROVE  RecordsInv'
<1> DEFINE msg == Head(inbox[c][n])
<1>1. PICK tx : tx = msg.transaction
  OBVIOUS
<1>2. /\ n \in Node /\ Read(c, n) \in [Conn -> [Node -> Seq(RecordsMsg)]] /\ tx \in Sent
      /\ msg.type = "new_tx"
  BY <1>1, RecordsRead, RecordsMsgFields DEF HandleNewTx
<1>3. /\ Lists /\ Bounded /\ PeerGood(n) /\ up \in SUBSET Conn
      /\ UNCHANGED <<chain, live, mining, minted, created, contractsDB, seen_files, file_hashes,
                     copied, payload, files>>
      /\ UNCHANGED records
  BY <1>2 DEF RecordsInv, Lists, HandleNewTx, records, peerRecords
<1> DEFINE k == Len(chain[n])
<1>4. /\ mem_pool[n] \in Seq(Backed(k)) /\ waiting[n] \in Seq(InLine(k))
      /\ mining[n] \in Drafts(k) \cup {None} /\ DOMAIN mem_pool = Node /\ DOMAIN waiting = Node
      /\ Unforked => \A contract \in contractsDB[n] : Deployed(contract, k)
      /\ Unforked /\ n \in Miner => seen_files[n] \subseteq file_hashes[n] \cup InChainFiles(chain[n])
  BY <1>3 DEF PeerGood, Lists
<1>5. CASE inbox' = Read(c, n) /\ UNCHANGED <<mem_pool, waiting, up>>
  BY <1>2, <1>3, <1>5, QuietStep
<1>6. CASE HandlerFails(c, n) /\ UNCHANGED <<mem_pool, waiting>>
  BY <1>2, <1>3, <1>6, RecordsFails, QuietStep
<1>7. ASSUME MsgId(msg) \notin seen[n], chain[n] # << >>, AcceptsTx(n, tx)
      PROVE  tx \in Backed(k)
  <2>1. tx.receiver = Invoke => payload[tx.id].contract \in contractsDB[n]
    BY <1>1, <1>7 DEF AcceptsTx, Passes, KnownContract
  <2> HIDE DEF k, Deployed, Sent, Unforked
  <2> QED BY <1>2, <1>4, <2>1 DEF Backed
<1>8. Bounded'
  BY <1>3 DEF Bounded, Allotted
<1>9. CASE /\ tx \in Backed(k) /\ AddTransaction(n, tx, Read(c, n)) /\ UNCHANGED <<waiting, up>>
  <2>1. [type |-> "new_tx", transaction |-> tx] \in RecordsMsg
    <3> HIDE DEF Sent, MadeBlock, MadeChain
    <3> QED BY <1>2 DEF RecordsMsg
  <2>2. /\ mem_pool'[n] \in Seq(Backed(k)) /\ DOMAIN mem_pool' = Node
        /\ \A m \in Node : m # n => mem_pool'[m] = mem_pool[m]
        /\ inbox' \in [Conn -> [Node -> Seq(RecordsMsg)]]
    <3> HIDE DEF k, Backed, RecordsMsg
    <3> QED BY <1>2, <1>4, <1>9, <2>1, PoolAdds
  <2>3. Lists'
    BY <1>3, <1>9, <2>2 DEF Lists
  <2> HIDE DEF Backed, RecordsMsg, InLine, Drafts, Lists, Bounded, InChainFiles
  <2> QED BY <1>2, <1>3, <1>4, <1>8, <1>9, <2>2, <2>3, LocalStep
<1>10. CASE /\ tx \in Backed(k) /\ Park(n, "new_tx", c, tx) /\ inbox' = Read(c, n)
            /\ UNCHANGED <<mem_pool, up>>
  <2>1. [kind |-> "new_tx", conn |-> c, data |-> tx] \in InLine(k)
    <3> HIDE DEF Backed, MadeBlock
    <3> QED BY <1>10 DEF InLine
  <2>2. /\ waiting'[n] \in Seq(InLine(k)) /\ DOMAIN waiting' = Node
        /\ \A m \in Node : m # n => waiting'[m] = waiting[m]
    <3> HIDE DEF k, InLine
    <3> QED BY <1>2, <1>4, <1>10, <2>1, LineAdds
  <2>3. Lists'
    BY <1>3, <1>10, <2>2 DEF Lists
  <2> HIDE DEF Backed, RecordsMsg, InLine, Drafts, Lists, Bounded, InChainFiles
  <2> QED BY <1>2, <1>3, <1>4, <1>8, <1>10, <2>2, <2>3, LocalStep
<1> QED BY <1>1, <1>5, <1>6, <1>7, <1>9, <1>10 DEF HandleNewTx

LEMMA RecordsHandleTransaction ==
  ASSUME RecordsInv, NEW c \in Conn, NEW n \in Ends(c), HandleTransaction(c, n)
  PROVE  RecordsInv'
<1>1. Reads(c, n, "new_tx")
  BY DEF HandleTransaction
<1>2. PICK msg, tx : msg = Head(inbox[c][n]) /\ tx = Head(inbox[c][n]).transaction
  OBVIOUS
<1>3. CASE Refuse(c, n, msg, tx)
  BY <1>1, <1>3, RecordsRefuse
<1>4. CASE ~ Refuse(c, n, msg, tx)
  <2> HIDE DEF Passes
  <2> QED BY <1>2, <1>4, RecordsNewTx DEF HandleTransaction
<1> QED BY <1>3, <1>4

-----------------------------------------------------------------------------
(***************************************************************************)
(* A block on top of a peer's chain: its contracts can be run, its files   *)
(* may leave the dictionary.                                               *)
(***************************************************************************)
\* What a step leaves n with whose chain grew by b, its k-th block.
GrownBy(n, b, k) ==
  /\ k \in Nat /\ k = Len(chain[n]) + 1
  /\ chain'[n] = Append(chain[n], b) /\ chain'[n] \in MadeChain'
  /\ Unforked' => /\ b.hash = Len(chain[n]) /\ k \in DOMAIN minted'
                  /\ b.transactions = minted'[k].transactions
  /\ mem_pool'[n] \in Seq(Backed(k)') /\ waiting'[n] \in Seq(InLine(k)')
  /\ mining'[n] \in Drafts(k)' \cup {None}
  /\ \A contract \in contractsDB'[n] :
       \/ contract \in contractsDB[n]
       \/ \E l \in DOMAIN b.transactions : b.transactions[l].id = contract
  /\ seen_files'[n] = seen_files[n]
  /\ file_hashes[n] \ files'[b.hash] \subseteq file_hashes'[n]

LEMMA PeerExtends ==
  ASSUME Lists, MadeInOrder, Extends, FilesStay, NEW n \in Node, PeerGood(n),
         NEW b, NEW k, GrownBy(n, b, k)
  PROVE  PeerGood(n)'
<1>0. /\ k \in Nat /\ k = Len(chain[n]) + 1
      /\ chain'[n] = Append(chain[n], b) /\ chain'[n] \in MadeChain'
      /\ Unforked' => /\ b.hash = Len(chain[n]) /\ k \in DOMAIN minted'
                      /\ b.transactions = minted'[k].transactions
      /\ mem_pool'[n] \in Seq(Backed(k)') /\ waiting'[n] \in Seq(InLine(k)')
      /\ mining'[n] \in Drafts(k)' \cup {None}
      /\ \A contract \in contractsDB'[n] :
           \/ contract \in contractsDB[n]
           \/ \E l \in DOMAIN b.transactions : b.transactions[l].id = contract
      /\ seen_files'[n] = seen_files[n]
      /\ file_hashes[n] \ files'[b.hash] \subseteq file_hashes'[n]
  BY DEF GrownBy
<1>1. /\ chain[n] \in Seq(MadeBlock) /\ Len(chain[n]) \in Nat /\ Len(chain[n]) <= k
      /\ Len(chain'[n]) = k /\ k \in DOMAIN chain'[n] /\ chain'[n][k] = b
  <2>1. chain[n] \in Seq(MadeBlock)
    BY DEF PeerGood, MadeChain
  <2> HIDE DEF MadeBlock
  <2> QED BY <1>0, <2>1
<1>2. Unforked' => \A contract \in contractsDB[n] : Deployed(contract, k)'
  BY <1>0, <1>1, PeerHeld
<1>3. ASSUME Unforked', NEW contract \in contractsDB'[n] PROVE Deployed(contract, k)'
  <2>1. CASE contract \in contractsDB[n]
    BY <1>2, <1>3, <2>1
  <2>2. CASE \E l \in DOMAIN b.transactions : b.transactions[l].id = contract
    <3>1. k \in DOMAIN minted' /\ b.transactions = minted'[k].transactions /\ k <= k
      BY <1>0, <1>3
    <3> QED BY <2>2, <3>1 DEF Deployed
  <2> QED BY <1>0, <1>3, <2>1, <2>2
<1>4. ASSUME Unforked', n \in Miner
      PROVE  seen_files'[n] \subseteq file_hashes'[n] \cup FilesOf(files', chain'[n])
  <2>1. PICK d : d = chain'[n]
    OBVIOUS
  <2>2. seen_files[n] \subseteq file_hashes[n] \cup FilesOf(files', d)
    BY <1>0, <1>1, <1>4, <2>1, SeenHeld
  <2>3. files'[b.hash] \subseteq FilesOf(files', d)
    <3>1. k \in DOMAIN d /\ d[k].hash = b.hash
      BY <1>1, <2>1
    <3> QED BY <3>1 DEF FilesOf
  <2> HIDE DEF FilesOf
  <2> QED BY <1>0, <1>4, <2>1, <2>2, <2>3
<1>5. FilesOf(files', chain'[n]) = InChainFiles(chain[n])'
  BY DEF FilesOf, InChainFiles
<1> HIDE DEF Backed, InLine, Drafts, MadeChain, Unforked, Deployed, InChainFiles
<1> QED BY <1>0, <1>1, <1>3, <1>4, <1>5 DEF PeerGood

LEMMA KeptInPool ==
  ASSUME DOMAIN mem_pool = Node, NEW n \in Node, NEW B, mem_pool[n] \in Seq(B), NEW gone,
         mem_pool' = [mem_pool EXCEPT ![n] = Sweep(@, gone).kept]
  PROVE  /\ mem_pool'[n] \in Seq(B) /\ DOMAIN mem_pool' = Node
         /\ \A m \in Node : m # n => mem_pool'[m] = mem_pool[m]
<1>1. Sweep(mem_pool[n], gone).kept \in Seq(B)
  BY SweepType
<1> QED BY <1>1

LEMMA BlockSent ==
  ASSUME Lists, NEW n \in Node, NEW b, b.hash \in Nat, NEW alive \in SUBSET Nat,
         NEW M, [type |-> "new_block", block |-> b] \in M,
         NEW boxes \in [Conn -> [Node -> Seq(M)]], NEW B, mem_pool[n] \in Seq(B),
         FinishNewBlock(n, b, alive, boxes)
  PROVE  /\ mem_pool'[n] \in Seq(B) /\ DOMAIN mem_pool' = Node
         /\ \A m \in Node : m # n => mem_pool'[m] = mem_pool[m]
         /\ live' \in [Node -> SUBSET Nat]
         /\ inbox' \in [Conn -> [Node -> Seq(M)]]
<1>1. DOMAIN mem_pool = Node /\ live \in [Node -> SUBSET Nat]
  BY DEF Lists
<1>2. mem_pool' = [mem_pool EXCEPT ![n] = Sweep(@, InBlock(@, b)).kept]
  BY DEF FinishNewBlock
<1>3. /\ mem_pool'[n] \in Seq(B) /\ DOMAIN mem_pool' = Node
      /\ \A m \in Node : m # n => mem_pool'[m] = mem_pool[m]
  BY <1>1, <1>2, KeptInPool
<1>4. live' \in [Node -> SUBSET Nat]
  <2>1. alive \cup {b.hash} \in SUBSET Nat
    OBVIOUS
  <2>2. live' = live \/ live' = [live EXCEPT ![n] = alive \cup {b.hash}]
    BY DEF FinishNewBlock
  <2> QED BY <1>1, <2>1, <2>2
<1>5. inbox' \in [Conn -> [Node -> Seq(M)]]
  BY BroadcastType DEF FinishNewBlock
<1> QED BY <1>3, <1>4, <1>5

LEMMA PopsFiles ==
  ASSUME Lists, NEW n \in Node, NEW cids, file_hashes' = pop_files(n, cids)
  PROVE  /\ file_hashes'[n] = file_hashes[n] \ cids
         /\ \A m \in Node : m # n => file_hashes'[m] = file_hashes[m]
         /\ file_hashes' \in [Node -> SUBSET Cid]
<1>1. file_hashes \in [Node -> SUBSET Cid]
  BY DEF Lists
<1>2. file_hashes[n] \ cids \in SUBSET Cid
  BY <1>1
<1> QED BY <1>1, <1>2 DEF pop_files

LEMMA Deploys ==
  ASSUME Lists, NEW n \in Node, NEW txs, \A l \in DOMAIN txs : txs[l].id \in Nat,
         contractsDB' = deploy_contract(n, txs)
  PROVE  /\ contractsDB' \in [Node -> SUBSET Nat]
         /\ \A m \in Node : m # n => contractsDB'[m] = contractsDB[m]
         /\ \A contract \in contractsDB'[n] :
              \/ contract \in contractsDB[n]
              \/ \E l \in DOMAIN txs : txs[l].id = contract
<1> DEFINE new == {txs[k].id : k \in {j \in DOMAIN txs : txs[j].receiver = Deploy}}
<1>1. contractsDB \in [Node -> SUBSET Nat] /\ new \in SUBSET Nat
  BY DEF Lists
<1>2. contractsDB' = [contractsDB EXCEPT ![n] = @ \cup new]
  BY DEF deploy_contract
<1>3. contractsDB[n] \cup new \in SUBSET Nat
  BY <1>1
<1>4. contractsDB'[n] = contractsDB[n] \cup new
  <2> HIDE DEF new
  <2> QED BY <1>1, <1>2
<1>5. /\ contractsDB' \in [Node -> SUBSET Nat]
      /\ \A m \in Node : m # n => contractsDB'[m] = contractsDB[m]
  <2> HIDE DEF new
  <2> QED BY <1>1, <1>2, <1>3
<1>6. \A contract \in new : \E l \in DOMAIN txs : txs[l].id = contract
  OBVIOUS
<1> HIDE DEF new
<1> QED BY <1>4, <1>5, <1>6

LEMMA TxIds ==
  ASSUME NEW b \in RecordsBlock
  PROVE  \A l \in DOMAIN b.transactions : b.transactions[l].id \in Nat
<1>1. b.transactions \in Seq(Sent \cup {Grant})
  BY DEF RecordsBlock
<1>2. \A tx \in Sent \cup {Grant} : tx.id \in Nat
  BY DEF Sent, Grant
<1> HIDE DEF Sent, Grant
<1> QED BY <1>1, <1>2

\* What follows in HandleBlock when the block was appended.
ClearsPool(c, n, b) ==
  \/ /\ FinishNewBlock(n, b, live[n] \ {mine_task[n]}, Read(c, n))
     /\ file_hashes' = pop_files(n, files[b.hash])
     /\ UNCHANGED waiting
  \/ /\ live' = [live EXCEPT ![n] = @ \ {mine_task[n]}]
     /\ Park(n, "new_block", c, b)
     /\ inbox' = Read(c, n)
     /\ UNCHANGED <<mem_pool, file_hashes>>

LEMMA RecordsNewBlock ==
  ASSUME RecordsInv, NEW c \in Conn, NEW n \in Node, NEW b \in MadeBlock,
         Read(c, n) \in [Conn -> [Node -> Seq(RecordsMsg)]],
         chain[n] # << >>, isValidBlock(chain[n], b),
         chain' = [chain EXCEPT ![n] = Append(@, b)],
         contractsDB' = deploy_contract(n, b.transactions),
         UNCHANGED <<mining, up, minted, created, seen_files, copied, payload, files>>,
         ClearsPool(c, n, b)
  PROVE  RecordsInv'
<1>1. /\ Lists /\ MadeInOrder /\ Bounded /\ PeerGood(n) /\ chain[n] \in MadeChain
      /\ DOMAIN mem_pool = Node /\ DOMAIN waiting = Node /\ DOMAIN chain = Node
      /\ live \in [Node -> SUBSET Nat]
  BY DEF RecordsInv, PeerGood, Lists
<1>2. /\ Extends /\ FilesStay /\ MadeInOrder' /\ Bounded' /\ RecordsMsg' = RecordsMsg
      /\ MadeChain' = MadeChain
  BY <1>1, NothingMade
<1>3. PICK k : k = Len(chain[n]) + 1
  OBVIOUS
<1>4. /\ Append(chain[n], b) \in MadeChain /\ Len(chain[n]) \in Nat
      /\ Unforked => b.hash = Len(chain[n])
  BY <1>1, MadeAppend DEF isValidBlock
<1>5. k \in Nat /\ Len(chain[n]) <= k
  BY <1>3, <1>4
<1>6. /\ b \in RecordsBlock /\ b.hash \in Nat /\ b.hash + 1 \in DOMAIN minted
      /\ b.transactions = minted[b.hash + 1].transactions
  BY <1>1, MadeFields
<1>7. Unforked' => /\ b.hash = Len(chain[n]) /\ k \in DOMAIN minted' /\ b.hash < k
                   /\ b.transactions = minted'[k].transactions
  <2>1. Unforked' = Unforked
    BY DEF Unforked
  <2>2. Unforked => b.hash + 1 = k /\ b.hash < k
    BY <1>3, <1>4
  <2> HIDE DEF Unforked
  <2> QED BY <1>4, <1>6, <2>1, <2>2
<1>8. /\ mem_pool[n] \in Seq(Backed(k)') /\ waiting[n] \in Seq(InLine(k)')
      /\ mining[n] \in Drafts(k)' \cup {None}
  BY <1>1, <1>2, <1>5, PeerHeld
<1>9. chain'[n] = Append(chain[n], b) /\ \A m \in Node : m # n => chain'[m] = chain[m]
  BY <1>1
<1>10. /\ contractsDB' \in [Node -> SUBSET Nat]
       /\ \A m \in Node : m # n => contractsDB'[m] = contractsDB[m]
       /\ \A contract \in contractsDB'[n] :
            \/ contract \in contractsDB[n]
            \/ \E l \in DOMAIN b.transactions : b.transactions[l].id = contract
  <2>1. PICK txs : txs = b.transactions
    OBVIOUS
  <2>2. (\A l \in DOMAIN txs : txs[l].id \in Nat) /\ contractsDB' = deploy_contract(n, txs)
    BY <1>6, <2>1, TxIds
  <2>3. /\ contractsDB' \in [Node -> SUBSET Nat]
        /\ \A m \in Node : m # n => contractsDB'[m] = contractsDB[m]
        /\ \A contract \in contractsDB'[n] :
             \/ contract \in contractsDB[n]
             \/ \E l \in DOMAIN txs : txs[l].id = contract
    BY <1>1, <2>2, Deploys
  <2> QED BY <2>1, <2>3
<1>11. live[n] \ {mine_task[n]} \in SUBSET Nat
  BY <1>1
<1>12. /\ mem_pool'[n] \in Seq(Backed(k)') /\ DOMAIN mem_pool' = Node
       /\ waiting'[n] \in Seq(InLine(k)') /\ DOMAIN waiting' = Node
       /\ live' \in [Node -> SUBSET Nat]
       /\ inbox' \in [Conn -> [Node -> Seq(RecordsMsg)]]
       /\ file_hashes' \in [Node -> SUBSET Cid]
       /\ file_hashes[n] \ files[b.hash] \subseteq file_hashes'[n]
       /\ \A m \in Node : m # n => /\ mem_pool'[m] = mem_pool[m] /\ waiting'[m] = waiting[m]
                                   /\ file_hashes'[m] = file_hashes[m]
  <2>1. CASE /\ FinishNewBlock(n, b, live[n] \ {mine_task[n]}, Read(c, n))
             /\ file_hashes' = pop_files(n, files[b.hash])
             /\ UNCHANGED waiting
    <3>1. [type |-> "new_block", block |-> b] \in RecordsMsg
      <4> HIDE DEF Sent, MadeBlock, MadeChain
      <4> QED BY DEF RecordsMsg
    <3>2. /\ mem_pool'[n] \in Seq(Backed(k)') /\ DOMAIN mem_pool' = Node
          /\ \A m \in Node : m # n => mem_pool'[m] = mem_pool[m]
          /\ live' \in [Node -> SUBSET Nat]
          /\ inbox' \in [Conn -> [Node -> Seq(RecordsMsg)]]
      BY <1>1, <1>6, <1>8, <1>11, <2>1, <3>1, BlockSent
    <3>3. /\ file_hashes'[n] = file_hashes[n] \ files[b.hash]
          /\ \A m \in Node : m # n => file_hashes'[m] = file_hashes[m]
          /\ file_hashes' \in [Node -> SUBSET Cid]
      BY <1>1, <2>1, PopsFiles
    <3> QED BY <1>1, <1>8, <2>1, <3>2, <3>3
  <2>2. CASE /\ live' = [live EXCEPT ![n] = @ \ {mine_task[n]}]
             /\ Park(n, "new_block", c, b)
             /\ inbox' = Read(c, n)
             /\ UNCHANGED <<mem_pool, file_hashes>>
    <3>1. [kind |-> "new_block", conn |-> c, data |-> b] \in InLine(k)'
      <4>1. b \in MadeBlock'
        BY <1>2, NothingMade
      <4> HIDE DEF MadeBlock, Unforked, Backed
      <4> QED BY <1>7, <4>1 DEF InLine
    <3>2. /\ waiting'[n] \in Seq(InLine(k)') /\ DOMAIN waiting' = Node
          /\ \A m \in Node : m # n => waiting'[m] = waiting[m]
      BY <1>1, <1>8, <2>2, <3>1, LineAdds
    <3>3. live' \in [Node -> SUBSET Nat]
      BY <1>1, <1>11, <2>2
    <3>4. file_hashes \in [Node -> SUBSET Cid]
      BY <1>1 DEF Lists
    <3> QED BY <1>1, <1>8, <2>2, <3>2, <3>3, <3>4
  <2> QED BY <2>1, <2>2 DEF ClearsPool
<1>13. DOMAIN chain' = Node
  BY <1>1
<1>14. Lists'
  BY <1>1, <1>10, <1>12, <1>13 DEF Lists
<1>15. GrownBy(n, b, k)
  <2>1. chain'[n] \in MadeChain'
    BY <1>2, <1>4, <1>9
  <2>2. file_hashes[n] \ files'[b.hash] \subseteq file_hashes'[n]
    BY <1>12
  <2>3. mining'[n] \in Drafts(k)' \cup {None} /\ seen_files'[n] = seen_files[n]
    BY <1>8
  <2> QED BY <1>3, <1>5, <1>7, <1>9, <1>10, <1>12, <2>1, <2>2, <2>3 DEF GrownBy
<1>16. PeerGood(n)'
  BY <1>1, <1>2, <1>15, PeerExtends
<1> QED BY <1>2, <1>9, <1>10, <1>12, <1>14, <1>16, InvAfter

LEMMA RecordsHandleBlock ==
  ASSUME RecordsInv, NEW c \in Conn, NEW n \in Ends(c), HandleBlock(c, n)
  PROVE  RecordsInv'
<1>1. PICK msg, b : msg = Head(inbox[c][n]) /\ b = Head(inbox[c][n]).block
  OBVIOUS
<1>2. /\ n \in Node /\ b \in MadeBlock /\ Reads(c, n, "new_block")
      /\ Read(c, n) \in [Conn -> [Node -> Seq(RecordsMsg)]] /\ up \in SUBSET Conn
  BY <1>1, RecordsRead, RecordsMsgFields DEF HandleBlock, RecordsInv, Lists
<1>3. \/ \E tx : Refuse(c, n, msg, tx)
      \/ /\ UNCHANGED <<chain, mem_pool, live, mining, waiting, minted, created, records>>
         /\ (inbox' = Read(c, n) /\ UNCHANGED up) \/ HandlerFails(c, n)
      \/ /\ chain[n] # << >> /\ isValidBlock(chain[n], b)
         /\ chain' = [chain EXCEPT ![n] = Append(@, b)]
         /\ contractsDB' = deploy_contract(n, b.transactions)
         /\ UNCHANGED <<mining, up, minted, created, seen_files, copied, payload, files>>
         /\ ClearsPool(c, n, b)
  BY <1>1 DEF HandleBlock, HandleNewBlock, ClearsPool, records, peerRecords
<1>4. CASE /\ UNCHANGED <<chain, mem_pool, live, mining, waiting, minted, created, records>>
           /\ (inbox' = Read(c, n) /\ UNCHANGED up) \/ HandlerFails(c, n)
  <2>1. up' \in SUBSET Conn /\ inbox' \in [Conn -> [Node -> Seq(RecordsMsg)]]
    BY <1>2, <1>4, RecordsFails
  <2> QED BY <1>4, <2>1, QuietStep
<1> QED BY <1>2, <1>3, <1>4, RecordsRefuse, RecordsNewBlock

(***************************************************************************)
(* A chain that is taken over is longer than what the peer had.            *)
(***************************************************************************)
LEMMA PeerAdopts ==
  ASSUME Lists, MadeInOrder, Extends, FilesStay, NEW n \in Node, PeerGood(n),
         NEW d \in MadeChain', NEW k \in Nat, k = Len(d), Len(chain[n]) <= k, chain'[n] = d,
         mem_pool'[n] \in Seq(Backed(k)'), waiting'[n] \in Seq(InLine(k)'),
         mining'[n] = mining[n], contractsDB'[n] = contractsDB[n],
         seen_files'[n] = seen_files[n],
         file_hashes[n] \ FilesOf(files', d) \subseteq file_hashes'[n]
  PROVE  PeerGood(n)'
<1>1. /\ mining[n] \in Drafts(k)' \cup {None}
      /\ Unforked' => \A contract \in contractsDB[n] : Deployed(contract, k)'
  BY PeerHeld
<1>2. ASSUME Unforked', n \in Miner
      PROVE  seen_files'[n] \subseteq file_hashes'[n] \cup FilesOf(files', d)
  <2>1. seen_files[n] \subseteq file_hashes[n] \cup FilesOf(files', d)
    BY <1>2, SeenHeld
  <2> QED BY <2>1
<1>3. FilesOf(files', d) = InChainFiles(chain[n])'
  BY DEF FilesOf, InChainFiles
<1> HIDE DEF Backed, InLine, Drafts, MadeChain, Unforked, Deployed, InChainFiles
<1> QED BY <1>1, <1>2, <1>3 DEF PeerGood

\* What follows in HandleChain when n had a chain.
TidiesPool(c, n) ==
  \/ PurgeConfirmed(n) /\ UNCHANGED waiting /\ file_hashes' = pop_files(n, InChainFiles(chain'[n]))
  \/ Park(n, "chain", c, None) /\ UNCHANGED <<mem_pool, file_hashes>>
  \/ UNCHANGED <<mem_pool, waiting, file_hashes>>

LEMMA RecordsNewChain ==
  ASSUME RecordsInv, NEW c \in Conn, NEW n \in Node, NEW d \in MadeChain,
         Len(chain[n]) <= Len(d), chain' = [chain EXCEPT ![n] = d], TidiesPool(c, n),
         inbox' \in [Conn -> [Node -> Seq(RecordsMsg)]],
         UNCHANGED <<live, mining, up, minted, created, contractsDB, seen_files, copied, payload,
                     files>>
  PROVE  RecordsInv'
<1>1. /\ Lists /\ MadeInOrder /\ Bounded /\ PeerGood(n)
      /\ DOMAIN mem_pool = Node /\ DOMAIN waiting = Node /\ DOMAIN chain = Node
      /\ file_hashes \in [Node -> SUBSET Cid]
  BY DEF RecordsInv, Lists
<1>2. /\ Extends /\ FilesStay /\ MadeInOrder' /\ Bounded' /\ RecordsMsg' = RecordsMsg
      /\ MadeChain' = MadeChain
  BY <1>1, NothingMade
<1>3. PICK k : k = Len(d)
  OBVIOUS
<1>4. k \in Nat /\ Len(chain[n]) <= k
  <2>1. d \in Seq(MadeBlock)
    BY DEF MadeChain
  <2> HIDE DEF MadeBlock
  <2> QED BY <1>3, <2>1
<1>5. mem_pool[n] \in Seq(Backed(k)') /\ waiting[n] \in Seq(InLine(k)')
  BY <1>1, <1>2, <1>4, PeerHeld
<1>6. chain'[n] = d /\ DOMAIN chain' = Node /\ \A m \in Node : m # n => chain'[m] = chain[m]
  BY <1>1
<1>7. FilesOf(files', d) = InChainFiles(chain'[n])
  BY <1>6 DEF FilesOf, InChainFiles
<1>8. /\ mem_pool'[n] \in Seq(Backed(k)') /\ DOMAIN mem_pool' = Node
      /\ waiting'[n] \in Seq(InLine(k)') /\ DOMAIN waiting' = Node
      /\ file_hashes' \in [Node -> SUBSET Cid]
      /\ file_hashes[n] \ FilesOf(files', d) \subseteq file_hashes'[n]
      /\ \A m \in Node : m # n => /\ mem_pool'[m] = mem_pool[m] /\ waiting'[m] = waiting[m]
                                  /\ file_hashes'[m] = file_hashes[m]
  <2>1. CASE PurgeConfirmed(n) /\ UNCHANGED waiting
             /\ file_hashes' = pop_files(n, InChainFiles(chain'[n]))
    <3>1. /\ mem_pool'[n] \in Seq(Backed(k)') /\ DOMAIN mem_pool' = Node
          /\ \A m \in Node : m # n => mem_pool'[m] = mem_pool[m]
      BY <1>1, <1>5, <2>1, KeptInPool DEF PurgeConfirmed
    <3>2. /\ file_hashes'[n] = file_hashes[n] \ InChainFiles(chain'[n])
          /\ \A m \in Node : m # n => file_hashes'[m] = file_hashes[m]
          /\ file_hashes' \in [Node -> SUBSET Cid]
      BY <1>1, <2>1, PopsFiles
    <3> QED BY <1>1, <1>5, <1>7, <2>1, <3>1, <3>2
  <2>2. CASE Park(n, "chain", c, None) /\ UNCHANGED <<mem_pool, file_hashes>>
    <3>1. [kind |-> "chain", conn |-> c, data |-> None] \in InLine(k)'
      <4> HIDE DEF MadeBlock, Unforked, Backed
      <4> QED BY DEF InLine
    <3>2. /\ waiting'[n] \in Seq(InLine(k)') /\ DOMAIN waiting' = Node
          /\ \A m \in Node : m # n => waiting'[m] = waiting[m]
      BY <1>1, <1>5, <2>2, <3>1, LineAdds
    <3> QED BY <1>1, <1>5, <2>2, <3>2
  <2>3. CASE UNCHANGED <<mem_pool, waiting, file_hashes>>
    BY <1>1, <1>5, <2>3
  <2> QED BY <2>1, <2>2, <2>3 DEF TidiesPool
<1>9. Lists'
  BY <1>1, <1>6, <1>8 DEF Lists
<1>10. PeerGood(n)'
  <2>1. d \in MadeChain'
    BY <1>2
  <2>2. mining'[n] = mining[n] /\ contractsDB'[n] = contractsDB[n] /\ seen_files'[n] = seen_files[n]
    OBVIOUS
  <2> QED BY <1>1, <1>2, <1>3, <1>4, <1>6, <1>8, <2>1, <2>2, PeerAdopts
<1> QED BY <1>2, <1>6, <1>8, <1>9, <1>10, InvAfter

LEMMA RecordsHandleChain ==
  ASSUME RecordsInv, NEW c \in Conn, NEW n \in Ends(c), HandleChainMessage(c, n)
  PROVE  RecordsInv'
<1>1. PICK bl : bl = Head(inbox[c][n]).chain
  OBVIOUS
<1>2. /\ n \in Node /\ bl \in MadeChain /\ inbox' = Read(c, n)
      /\ Read(c, n) \in [Conn -> [Node -> Seq(RecordsMsg)]] /\ up \in SUBSET Conn
      /\ UNCHANGED <<live, mining, up, minted, created, contractsDB, seen_files, copied, payload,
                     files, missing>>
  BY <1>1, RecordsRead, RecordsMsgFields DEF HandleChainMessage, HandleChain, RecordsInv, Lists
<1>3. /\ chain[n] \in Seq(MadeBlock) /\ bl \in Seq(MadeBlock) /\ chain[n] \in MadeChain
  BY <1>2 DEF RecordsInv, PeerGood, MadeChain
<1>4. CASE ~ isvalidChain(bl)
  <2>1. UNCHANGED <<chain, mem_pool, waiting, file_hashes>>
    BY <1>1, <1>4 DEF HandleChainMessage, HandleChain
  <2> QED BY <1>2, <2>1, StillStep DEF peerRecords
<1>5. CASE isvalidChain(bl) /\ chain[n] = << >>
  <2>1. /\ chain' = [chain EXCEPT ![n] = bl]
        /\ UNCHANGED <<mem_pool, waiting, file_hashes>>
    BY <1>1, <1>5 DEF HandleChainMessage, HandleChain
  <2>2. Len(chain[n]) <= Len(bl)
    <3> HIDE DEF MadeBlock
    <3> QED BY <1>3, <1>5
  <2> QED BY <1>2, <2>1, <2>2, RecordsNewChain DEF TidiesPool
<1>6. CASE isvalidChain(bl) /\ chain[n] # << >>
  <2>1. PICK d : d = rewrite(chain[n], bl)
    OBVIOUS
  <2>2. d \in MadeChain /\ Len(chain[n]) <= Len(d)
    <3> HIDE DEF MadeBlock, MadeChain
    <3> QED BY <1>2, <1>3, <2>1 DEF rewrite
  <2>3. chain' = [chain EXCEPT ![n] = d] /\ TidiesPool(c, n)
    BY <1>1, <1>6, <2>1 DEF HandleChainMessage, HandleChain, TidiesPool
  <2> QED BY <1>2, <2>2, <2>3, RecordsNewChain
<1> QED BY <1>4, <1>5, <1>6

-----------------------------------------------------------------------------
(***************************************************************************)
(* Mining.  A peer without a chain has nothing in its pool, in the line    *)
(* for its lock or in the making.                                          *)
(***************************************************************************)
Started == \A n \in Node : chain[n] = << >> => NotStarted(n)

\* The peers that look for a proof of work.
Looking == {n \in Node : mining[n] # None}

LEMMA BoundedLess ==
  ASSUME Bounded, Len(minted) \in Nat, minted' = minted, Looking' \subseteq Looking
  PROVE  Bounded'
<1>1. IsFiniteSet(Looking) /\ Len(minted) - 1 + Cardinality(Looking) <= MaxBlocks
  BY DEF Bounded, Allotted, Looking
<1>2. IsFiniteSet(Looking') /\ Cardinality(Looking') <= Cardinality(Looking)
  BY <1>1, FS_Subset
<1>3. Cardinality(Looking) \in Nat /\ Cardinality(Looking') \in Nat
  BY <1>1, <1>2, FS_CardinalityType
<1>4. Len(minted) - 1 + Cardinality(Looking') <= MaxBlocks
  BY <1>1, <1>2, <1>3, NetworkAssumption
<1> QED BY <1>2, <1>4 DEF Bounded, Allotted, Looking

LEMMA BoundedMore ==
  ASSUME Bounded, Len(minted) \in Nat, minted' = minted, NEW n, Looking' \subseteq Looking \cup {n},
         Allotted < MaxBlocks
  PROVE  Bounded'
<1>1. IsFiniteSet(Looking) /\ Len(minted) - 1 + Cardinality(Looking) < MaxBlocks
  BY DEF Bounded, Allotted, Looking
<1>2. /\ IsFiniteSet(Looking \cup {n})
      /\ Cardinality(Looking \cup {n}) <= Cardinality(Looking) + 1
  <2>1. Cardinality(Looking) \in Nat
    BY <1>1, FS_CardinalityType
  <2>2. /\ IsFiniteSet(Looking \cup {n})
        /\ \/ Cardinality(Looking \cup {n}) = Cardinality(Looking)
           \/ Cardinality(Looking \cup {n}) = Cardinality(Looking) + 1
    BY <1>1, FS_AddElement, Zenon
  <2> QED BY <2>1, <2>2
<1>3. IsFiniteSet(Looking') /\ Cardinality(Looking') <= Cardinality(Looking \cup {n})
  BY <1>2, FS_Subset
<1>4. /\ Cardinality(Looking) \in Nat /\ Cardinality(Looking') \in Nat
      /\ Cardinality(Looking \cup {n}) \in Nat
  BY <1>1, <1>2, <1>3, FS_CardinalityType
<1>5. Len(minted) - 1 + Cardinality(Looking') <= MaxBlocks
  BY <1>1, <1>2, <1>3, <1>4, NetworkAssumption
<1> QED BY <1>3, <1>5 DEF Bounded, Allotted, Looking

LEMMA CopiesType ==
  ASSUME Lists, NEW n \in Node, CopyFiles(n)
  PROVE  copied' \in [Node -> SUBSET Cid]
<1>1. copied \in [Node -> SUBSET Cid] /\ file_hashes[n] \in SUBSET Cid
  BY DEF Lists
<1>2. \/ copied' = [copied EXCEPT ![n] = {}]
      \/ copied' = [copied EXCEPT ![n] = file_hashes[n]]
      \/ copied' = [copied EXCEPT ![n] = copied[n]]
  BY DEF CopyFiles
<1> QED BY <1>1, <1>2

LEMMA RoundMade ==
  ASSUME RecordsInv, Started, NEW n \in Node, NEW task \in Nat, MiningRound(n, task),
         mining[n] = None, minted' = minted
  PROVE  /\ mem_pool'[n] \in Seq(Backed(Len(chain[n]))) /\ DOMAIN mem_pool' = Node
         /\ mining'[n] \in Drafts(Len(chain[n])) \cup {None} /\ DOMAIN mining' = Node
         /\ \A m \in Node : m # n => mem_pool'[m] = mem_pool[m] /\ mining'[m] = mining[m]
         /\ Bounded'
         /\ chain[n] = << >> => mem_pool'[n] = << >> /\ mining'[n] = None
<1> DEFINE B == Backed(Len(chain[n]))
           swept == Sweep(mem_pool[n], InChain(mem_pool[n], chain[n]))
           draft == [task |-> task, prevHash |-> lastBlock(chain[n]).hash,
                     transactions |-> swept.taken]
<1>1. /\ Lists /\ Bounded /\ mem_pool[n] \in Seq(B) /\ chain[n] \in Seq(MadeBlock)
      /\ DOMAIN mem_pool = Node /\ DOMAIN mining = Node
      /\ minted \in Seq(RecordsBlock)
  BY DEF RecordsInv, PeerGood, Lists, MadeChain, MadeInOrder
<1>2. /\ mem_pool' = [mem_pool EXCEPT ![n] = swept.kept]
      /\ \/ mining' = [mining EXCEPT ![n] = None]
         \/ /\ mining' = [mining EXCEPT ![n] = draft]
            /\ swept.taken # << >> /\ Allotted < MaxBlocks
  BY DEF MiningRound
<1>3. swept.kept \in Seq(B) /\ swept.taken \in Seq(B)
  <2> HIDE DEF B
  <2> QED BY <1>1, SweepType
<1>4. ASSUME chain[n] = << >> PROVE swept.kept = << >> /\ swept.taken = << >>
  <2>1. mem_pool[n] \in Seq({})
    <3>1. mem_pool[n] = << >>
      BY <1>4 DEF Started, NotStarted
    <3> QED BY <3>1
  <2>2. swept.kept \in Seq({}) /\ swept.taken \in Seq({})
    BY <2>1, SweepType
  <2> HIDE DEF swept
  <2> QED BY <2>2
<1>5. ASSUME chain[n] # << >> PROVE draft \in Drafts(Len(chain[n]))
  <2>1. lastBlock(chain[n]) \in MadeBlock
    <3> HIDE DEF MadeBlock
    <3> QED BY <1>1, <1>5 DEF lastBlock
  <2>2. lastBlock(chain[n]).hash \in Nat
    BY <2>1 DEF MadeBlock, RecordsBlock
  <2> HIDE DEF swept, Backed
  <2> QED BY <1>3, <2>2 DEF Drafts
<1>6. Len(minted) \in Nat
  <2> HIDE DEF RecordsBlock
  <2> QED BY <1>1
<1>7. Bounded'
  <2> HIDE DEF swept, draft
  <2>1. CASE mining' = [mining EXCEPT ![n] = None]
    <3>1. Looking' \subseteq Looking
      BY <1>1, <2>1 DEF Looking
    <3> QED BY <1>1, <1>6, <3>1, BoundedLess
  <2>2. CASE mining' = [mining EXCEPT ![n] = draft] /\ Allotted < MaxBlocks
    <3>1. Looking' \subseteq Looking \cup {n}
      BY <1>1, <2>2 DEF Looking
    <3> QED BY <1>1, <1>6, <2>2, <3>1, BoundedMore
  <2> QED BY <1>2, <2>1, <2>2
<1>8. mining'[n] \in Drafts(Len(chain[n])) \cup {None}
  <2> HIDE DEF swept, draft, Drafts
  <2> QED BY <1>1, <1>2, <1>4, <1>5
<1> HIDE DEF swept, draft, B, Drafts
<1> QED BY <1>1, <1>2, <1>3, <1>4, <1>7, <1>8 DEF B

LEMMA RecordsWakeMiner ==
  ASSUME RecordsInv, Started, NEW n \in Node, NEW task \in live[n], WakeMiner(n, task)
  PROVE  RecordsInv'
<1> DEFINE k == Len(chain[n])
<1>1. /\ Lists /\ Bounded /\ PeerGood(n) /\ DOMAIN mem_pool = Node /\ DOMAIN waiting = Node
      /\ DOMAIN mining = Node /\ task \in Nat
      /\ inbox \in [Conn -> [Node -> Seq(RecordsMsg)]]
      /\ UNCHANGED <<chain, live, inbox, up, minted, created, contractsDB, file_hashes, seen_files,
                     payload, files>>
  BY DEF RecordsInv, Lists, WakeMiner, MinerWakes
<1>2. /\ mem_pool[n] \in Seq(Backed(k)) /\ waiting[n] \in Seq(InLine(k))
      /\ mining[n] \in Drafts(k) \cup {None}
      /\ Unforked /\ n \in Miner => seen_files[n] \subseteq file_hashes[n] \cup InChainFiles(chain[n])
  BY <1>1 DEF PeerGood
<1>3. copied' \in [Node -> SUBSET Cid]
  BY <1>1, CopiesType DEF WakeMiner
<1>4. RecordsMsg' = RecordsMsg
  BY <1>1, NothingMade
<1>5. CASE MiningRound(n, task) /\ LockIsFree(n) /\ UNCHANGED waiting
  <2>1. /\ mem_pool'[n] \in Seq(Backed(k)) /\ DOMAIN mem_pool' = Node
        /\ mining'[n] \in Drafts(k) \cup {None} /\ DOMAIN mining' = Node
        /\ \A m \in Node : m # n => mem_pool'[m] = mem_pool[m] /\ mining'[m] = mining[m]
        /\ Bounded'
    BY <1>1, <1>5, RoundMade DEF LockIsFree
  <2>2. Lists'
    BY <1>1, <1>3, <1>5, <2>1 DEF Lists
  <2> HIDE DEF Backed, InLine, Drafts
  <2> QED BY <1>1, <1>2, <1>4, <1>5, <2>1, <2>2, LocalStep
<1>6. CASE Park(n, "mine", None, task) /\ UNCHANGED <<mem_pool, mining>>
  <2>1. [kind |-> "mine", conn |-> None, data |-> task] \in InLine(k)
    <3> HIDE DEF Backed, MadeBlock
    <3> QED BY <1>1 DEF InLine
  <2>2. /\ waiting'[n] \in Seq(InLine(k)) /\ DOMAIN waiting' = Node
        /\ \A m \in Node : m # n => waiting'[m] = waiting[m]
    <3> HIDE DEF k, InLine
    <3> QED BY <1>1, <1>2, <1>6, <2>1, LineAdds
  <2>3. Lists'
    BY <1>1, <1>3, <1>6, <2>2 DEF Lists
  <2>4. Bounded'
    BY <1>1, <1>6 DEF Bounded, Allotted
  <2> HIDE DEF Backed, InLine, Drafts
  <2> QED BY <1>1, <1>2, <1>4, <1>6, <2>2, <2>3, <2>4, LocalStep
<1> QED BY <1>5, <1>6 DEF WakeMiner, MinerWakes

LEMMA RecordsCancelMining ==
  ASSUME RecordsInv, NEW n \in Node, CancelMining(n)
  PROVE  RecordsInv'
<1> DEFINE k == Len(chain[n])
<1>1. /\ Lists /\ Bounded /\ PeerGood(n) /\ DOMAIN mining = Node
      /\ inbox \in [Conn -> [Node -> Seq(RecordsMsg)]] /\ minted \in Seq(RecordsBlock)
      /\ UNCHANGED <<chain, mem_pool, live, waiting, inbox, up, minted, created, contractsDB,
                     file_hashes, seen_files, payload, files>>
      /\ mining' = [mining EXCEPT ![n] = None]
  BY DEF RecordsInv, Lists, CancelMining, MiningCancelled, MadeInOrder
<1>2. /\ mem_pool[n] \in Seq(Backed(k)) /\ waiting[n] \in Seq(InLine(k))
      /\ Unforked /\ n \in Miner => seen_files[n] \subseteq file_hashes[n] \cup InChainFiles(chain[n])
  BY <1>1 DEF PeerGood
<1>3. copied' \in [Node -> SUBSET Cid]
  BY <1>1, CopiesType DEF CancelMining
<1>4. RecordsMsg' = RecordsMsg
  BY <1>1, NothingMade
<1>5. Bounded'
  <2>1. Looking' \subseteq Looking
    BY <1>1 DEF Looking
  <2>2. Len(minted) \in Nat
    <3> HIDE DEF RecordsBlock
    <3> QED BY <1>1
  <2> QED BY <1>1, <2>1, <2>2, BoundedLess
<1>6. /\ mining'[n] = None /\ DOMAIN mining' = Node
      /\ \A m \in Node : m # n => mining'[m] = mining[m]
  BY <1>1
<1>7. Lists'
  BY <1>1, <1>3, <1>6 DEF Lists
<1> HIDE DEF Backed, InLine, Drafts
<1> QED BY <1>1, <1>2, <1>4, <1>5, <1>6, <1>7, LocalStep

LEMMA LineFields ==
  ASSUME NEW m, NEW w \in InLine(m)
  PROVE  /\ w.kind \in {"new_tx", "own_tx"} => w.data \in Backed(m)
         /\ w.kind = "new_block" => w.data \in MadeBlock /\ (Unforked => w.data.hash < m)
         /\ w.kind = "mine" => w.data \in Nat
<1> HIDE DEF Backed, MadeBlock, Unforked
<1> QED BY DEF InLine

LEMMA RecordsResume ==
  ASSUME RecordsInv, Started, NEW n \in Node, ResumeWaiter(n)
  PROVE  RecordsInv'
<1> DEFINE k == Len(chain[n])
<1>1. PICK w : w = Head(waiting[n])
  OBVIOUS
<1>2. /\ Lists /\ Bounded /\ PeerGood(n) /\ DOMAIN mem_pool = Node /\ DOMAIN waiting = Node
      /\ DOMAIN mining = Node /\ live \in [Node -> SUBSET Nat] /\ file_hashes \in [Node -> SUBSET Cid]
      /\ inbox \in [Conn -> [Node -> Seq(RecordsMsg)]] /\ mining[n] = None /\ waiting[n] # << >>
      /\ waiting' = [waiting EXCEPT ![n] = Tail(@)]
      /\ UNCHANGED <<chain, up, minted, created, contractsDB, seen_files, payload, files>>
      /\ chain[n] \in MadeChain
  BY DEF RecordsInv, Lists, PeerGood, ResumeWaiter, Resume
<1>3. /\ mem_pool[n] \in Seq(Backed(k)) /\ waiting[n] \in Seq(InLine(k))
      /\ mining[n] \in Drafts(k) \cup {None}
      /\ Unforked /\ n \in Miner => seen_files[n] \subseteq file_hashes[n] \cup InChainFiles(chain[n])
  BY <1>2 DEF PeerGood
<1>4. copied' \in [Node -> SUBSET Cid]
  BY <1>2, CopiesType DEF ResumeWaiter
<1>5. RecordsMsg' = RecordsMsg
  BY <1>2, NothingMade
<1>6. /\ waiting'[n] \in Seq(InLine(k)) /\ DOMAIN waiting' = Node /\ w \in InLine(k)
      /\ \A m \in Node : m # n => waiting'[m] = waiting[m]
  <2>1. Tail(waiting[n]) \in Seq(InLine(k)) /\ Head(waiting[n]) \in InLine(k)
    <3> HIDE DEF k, InLine
    <3> QED BY <1>2, <1>3
  <2> HIDE DEF k, InLine
  <2> QED BY <1>1, <1>2, <2>1
<1>7. /\ w.kind \in {"new_tx", "own_tx"} => w.data \in Backed(k)
      /\ w.kind = "new_block" => w.data \in MadeBlock /\ (Unforked => w.data.hash < k)
      /\ w.kind = "mine" => w.data \in Nat
  <2> HIDE DEF k
  <2> QED BY <1>6, LineFields
<1>8. UNCHANGED mining => Bounded'
  BY <1>2 DEF Bounded, Allotted
<1>9. CASE w.kind \in {"new_tx", "own_tx"}
  <2>1. AddTransaction(n, w.data, inbox) /\ UNCHANGED <<live, mining, file_hashes>>
    BY <1>1, <1>9 DEF ResumeWaiter, Resume
  <2>2. [type |-> "new_tx", transaction |-> w.data] \in RecordsMsg
    <3>1. w.data \in Sent
      BY <1>7, <1>9 DEF Backed
    <3> HIDE DEF Sent, MadeBlock, MadeChain
    <3> QED BY <3>1 DEF RecordsMsg
  <2>3. /\ mem_pool'[n] \in Seq(Backed(k)) /\ DOMAIN mem_pool' = Node
        /\ \A m \in Node : m # n => mem_pool'[m] = mem_pool[m]
        /\ inbox' \in [Conn -> [Node -> Seq(RecordsMsg)]]
    <3> HIDE DEF k, Backed, RecordsMsg
    <3> QED BY <1>2, <1>3, <1>7, <1>9, <2>1, <2>2, PoolAdds
  <2>4. Lists'
    BY <1>2, <1>4, <1>6, <2>1, <2>3 DEF Lists
  <2> HIDE DEF Backed, InLine, Drafts
  <2> QED BY <1>2, <1>3, <1>5, <1>6, <1>8, <2>1, <2>3, <2>4, LocalStep
<1>10. CASE w.kind = "new_block"
  <2>1. /\ FinishNewBlock(n, w.data, live[n], inbox) /\ UNCHANGED mining
        /\ file_hashes' = pop_files(n, files[w.data.hash])
    BY <1>1, <1>10 DEF ResumeWaiter, Resume
  <2>2. /\ [type |-> "new_block", block |-> w.data] \in RecordsMsg /\ w.data.hash \in Nat
        /\ live[n] \in SUBSET Nat
    <3>1. w.data.hash \in Nat
      BY <1>7, <1>10 DEF MadeBlock, RecordsBlock
    <3> HIDE DEF Sent, MadeBlock, MadeChain
    <3> QED BY <1>2, <1>7, <1>10, <3>1 DEF RecordsMsg
  <2>3. /\ mem_pool'[n] \in Seq(Backed(k)) /\ DOMAIN mem_pool' = Node
        /\ \A m \in Node : m # n => mem_pool'[m] = mem_pool[m]
        /\ live' \in [Node -> SUBSET Nat]
        /\ inbox' \in [Conn -> [Node -> Seq(RecordsMsg)]]
    <3> HIDE DEF k, Backed, RecordsMsg
    <3> QED BY <1>2, <1>3, <2>1, <2>2, BlockSent
  <2>4. /\ file_hashes'[n] = file_hashes[n] \ files[w.data.hash]
        /\ \A m \in Node : m # n => file_hashes'[m] = file_hashes[m]
        /\ file_hashes' \in [Node -> SUBSET Cid]
    BY <1>2, <2>1, PopsFiles
  <2>5. ASSUME Unforked PROVE files[w.data.hash] \subseteq InChainFiles(chain[n])
    <3>1. PICK i : i = w.data.hash + 1
      OBVIOUS
    <3>2. DOMAIN chain[n] = 1..k /\ k \in Nat
      BY <1>2, <2>5, OnTheLine DEF RecordsInv
    <3>3. i \in DOMAIN chain[n] /\ i - 1 = w.data.hash
      BY <1>7, <1>10, <2>2, <2>5, <3>1, <3>2
    <3>4. chain[n][i].hash = w.data.hash
      BY <1>2, <2>5, <3>3 DEF MadeChain, Straight
    <3> QED BY <3>3, <3>4 DEF InChainFiles
  <2>6. Lists'
    BY <1>2, <1>4, <1>6, <2>1, <2>3, <2>4 DEF Lists
  <2>7. Unforked /\ n \in Miner => seen_files[n] \subseteq file_hashes'[n] \cup InChainFiles(chain[n])
    <3> HIDE DEF Unforked, InChainFiles
    <3> QED BY <1>3, <2>4, <2>5
  <2>8. mining'[n] \in Drafts(k) \cup {None} /\ \A m \in Node : m # n => mining'[m] = mining[m]
    BY <1>3, <2>1
  <2> HIDE DEF Backed, InLine, Drafts
  <2> QED BY <1>2, <1>5, <1>6, <1>8, <2>1, <2>3, <2>4, <2>6, <2>7, <2>8, LocalStep
<1>11. CASE w.kind = "chain"
  <2>1. /\ mem_pool' = [mem_pool EXCEPT ![n] = Sweep(@, InChain(@, chain[n])).kept]
        /\ UNCHANGED <<live, mining, inbox>>
        /\ file_hashes' = pop_files(n, InChainFiles(chain[n]))
    BY <1>1, <1>11 DEF ResumeWaiter, Resume
  <2>2. /\ mem_pool'[n] \in Seq(Backed(k)) /\ DOMAIN mem_pool' = Node
        /\ \A m \in Node : m # n => mem_pool'[m] = mem_pool[m]
    BY <1>2, <1>3, <2>1, KeptInPool
  <2>3. /\ file_hashes'[n] = file_hashes[n] \ InChainFiles(chain[n])
        /\ \A m \in Node : m # n => file_hashes'[m] = file_hashes[m]
        /\ file_hashes' \in [Node -> SUBSET Cid]
    BY <1>2, <2>1, PopsFiles
  <2>4. Lists'
    BY <1>2, <1>4, <1>6, <2>1, <2>2, <2>3 DEF Lists
  <2>5. Unforked /\ n \in Miner => seen_files[n] \subseteq file_hashes'[n] \cup InChainFiles(chain[n])
    <3> HIDE DEF Unforked, InChainFiles
    <3> QED BY <1>3, <2>3
  <2> HIDE DEF Backed, InLine, Drafts, InChainFiles
  <2> QED BY <1>2, <1>3, <1>5, <1>6, <1>8, <2>1, <2>2, <2>3, <2>4, <2>5, LocalStep
<1>12. CASE w.kind = "mine" /\ w.data \in live[n]
  <2>1. MiningRound(n, w.data) /\ UNCHANGED <<live, inbox, file_hashes>>
    BY <1>1, <1>12 DEF ResumeWaiter, Resume
  <2>2. /\ mem_pool'[n] \in Seq(Backed(k)) /\ DOMAIN mem_pool' = Node
        /\ mining'[n] \in Drafts(k) \cup {None} /\ DOMAIN mining' = Node
        /\ \A m \in Node : m # n => mem_pool'[m] = mem_pool[m] /\ mining'[m] = mining[m]
        /\ Bounded'
    BY <1>2, <1>7, <1>12, <2>1, RoundMade
  <2>3. Lists'
    BY <1>2, <1>4, <1>6, <2>1, <2>2 DEF Lists
  <2> HIDE DEF Backed, InLine, Drafts
  <2> QED BY <1>2, <1>3, <1>5, <1>6, <2>1, <2>2, <2>3, LocalStep
<1>13. CASE w.kind = "mine" /\ w.data \notin live[n]
  <2>1. UNCHANGED <<mem_pool, live, mining, inbox, file_hashes>>
    BY <1>1, <1>13 DEF ResumeWaiter, Resume
  <2>2. Lists'
    BY <1>2, <1>4, <1>6, <2>1 DEF Lists
  <2> HIDE DEF Backed, InLine, Drafts
  <2> QED BY <1>2, <1>3, <1>5, <1>6, <1>8, <2>1, <2>2, LocalStep
<1> QED BY <1>1, <1>9, <1>10, <1>11, <1>12, <1>13 DEF ResumeWaiter, Resume

(***************************************************************************)
(* A block that is made extends the line, or the line has forked.          *)
(***************************************************************************)
LEMMA MintedFields ==
  ASSUME RecordsInv, Started, NEW n \in Node, mining[n] # None, NEW b,
         b = [hash |-> Len(minted), prevHash |-> mining[n].prevHash,
              transactions |-> mining[n].transactions, miner |-> n]
  PROVE  /\ chain[n] # << >> /\ chain[n] \in MadeChain /\ Len(chain[n]) \in Nat
         /\ minted \in Seq(RecordsBlock) /\ Len(minted) \in Nat /\ Len(minted) # 0
         /\ DOMAIN minted = 1..Len(minted)
         /\ b \in RecordsBlock /\ b.hash = Len(minted) /\ b.prevHash \in Nat
         /\ b.transactions \in Seq(Backed(Len(chain[n])))
<1>1. /\ MadeInOrder /\ PeerGood(n) /\ chain[n] # << >>
  BY DEF RecordsInv, Started, NotStarted
<1>2. /\ chain[n] \in MadeChain /\ chain[n] \in Seq(MadeBlock) /\ mining[n] \in Drafts(Len(chain[n]))
      /\ minted \in Seq(RecordsBlock) /\ minted # << >>
  BY <1>1 DEF PeerGood, MadeChain, MadeInOrder
<1>3. /\ Len(chain[n]) \in Nat /\ Len(minted) \in Nat /\ Len(minted) # 0
      /\ DOMAIN minted = 1..Len(minted)
  <2> HIDE DEF RecordsBlock, MadeBlock
  <2> QED BY <1>2
<1>4. b.prevHash \in Nat /\ b.transactions \in Seq(Backed(Len(chain[n])))
  <2>1. mining[n].prevHash \in Nat /\ mining[n].transactions \in Seq(Backed(Len(chain[n])))
    BY <1>2 DEF Drafts
  <2> QED BY <2>1
<1>5. b \in RecordsBlock
  <2>1. b.transactions \in Seq(Sent \cup {Grant})
    <3>1. Backed(Len(chain[n])) \subseteq Sent \cup {Grant}
      BY DEF Backed
    <3> HIDE DEF Backed, Sent, Grant
    <3> QED BY <1>4, <3>1
  <2>2. n \in Account
    BY NetworkAssumption
  <2> HIDE DEF Sent, Grant
  <2> QED BY <1>3, <1>4, <2>1, <2>2 DEF RecordsBlock
<1> QED BY <1>1, <1>2, <1>3, <1>4, <1>5

LEMMA MintedLine ==
  ASSUME RecordsInv, Started, NEW n \in Node, mining[n] # None, NEW b,
         b = [hash |-> Len(minted), prevHash |-> mining[n].prevHash,
              transactions |-> mining[n].transactions, miner |-> n],
         isValidBlock(chain[n], b), minted' = Append(minted, b), Unforked'
  PROVE  Len(chain[n]) = Len(minted) /\ b.prevHash = Len(minted) - 1
<1> DEFINE q == Len(chain[n])
           L == Len(minted)
<1>1. /\ chain[n] # << >> /\ chain[n] \in MadeChain /\ q \in Nat
      /\ minted \in Seq(RecordsBlock) /\ L \in Nat /\ DOMAIN minted = 1..L
      /\ b.hash = L /\ b.prevHash \in Nat /\ MadeInOrder
  BY MintedFields DEF RecordsInv
<1>2. /\ DOMAIN minted' = DOMAIN minted \cup {L + 1} /\ minted'[L + 1] = b
      /\ \A i \in DOMAIN minted : minted'[i] = minted[i]
  <2> HIDE DEF RecordsBlock
  <2> QED BY <1>1, AppendFacts
<1>3. Unforked
  <2>1. ASSUME NEW i \in DOMAIN minted, NEW j \in DOMAIN minted,
               minted[i].prevHash = minted[j].prevHash
        PROVE  i = j
    <3>1. i \in DOMAIN minted' /\ j \in DOMAIN minted' /\ minted'[i].prevHash = minted'[j].prevHash
      BY <1>2, <2>1
    <3> QED BY <3>1 DEF Unforked
  <2> QED BY <2>1 DEF Unforked
<1>4. /\ DOMAIN chain[n] = 1..q /\ q <= L
      /\ \A i \in DOMAIN chain[n] : chain[n][i].hash = i - 1
  BY <1>1, <1>3, OnTheLine
<1>5. q # 0
  <2>1. chain[n] \in Seq(MadeBlock)
    BY <1>1 DEF MadeChain
  <2> HIDE DEF MadeBlock
  <2> QED BY <1>1, <2>1
<1>6. b.prevHash = q - 1
  <2>1. q \in DOMAIN chain[n]
    BY <1>1, <1>4, <1>5
  <2>2. chain[n][q].hash = q - 1
    BY <1>4, <2>1
  <2> QED BY <2>2 DEF isValidBlock, lastBlock
<1>7. ASSUME q < L PROVE FALSE
  <2>1. q + 1 \in DOMAIN minted /\ q + 1 # 1 /\ q + 1 # L + 1
    BY <1>1, <1>5, <1>7
  <2>2. minted[q + 1].prevHash = (q + 1) - 2
    BY <1>1, <1>3, <2>1 DEF MadeInOrder
  <2>3. (q + 1) - 2 = q - 1
    BY <1>1
  <2>4. /\ q + 1 \in DOMAIN minted' /\ L + 1 \in DOMAIN minted'
        /\ minted'[q + 1].prevHash = minted'[L + 1].prevHash
    <3>1. minted'[q + 1] = minted[q + 1]
      BY <1>2, <2>1
    <3>2. minted'[L + 1].prevHash = q - 1
      BY <1>2, <1>6
    <3> QED BY <1>2, <2>1, <2>2, <2>3, <3>1, <3>2
  <2>5. \A i, j \in DOMAIN minted' : minted'[i].prevHash = minted'[j].prevHash => i = j
    BY DEF Unforked
  <2> HIDE DEF q, L
  <2> QED BY <2>1, <2>4, <2>5
<1>8. q = L
  BY <1>1, <1>4, <1>7
<1> QED BY <1>6, <1>8

LEMMA MintedInLine ==
  ASSUME RecordsInv, Started, NEW n \in Node, mining[n] # None, NEW b,
         b = [hash |-> Len(minted), prevHash |-> mining[n].prevHash,
              transactions |-> mining[n].transactions, miner |-> n],
         isValidBlock(chain[n], b), minted' = Append(minted, b), payload' = payload,
         created' = created
  PROVE  MadeInOrder' /\ b \in MadeBlock' /\ Append(chain[n], b) \in MadeChain'
<1> DEFINE L == Len(minted)
<1>0. PICK k : k = L
  OBVIOUS
<1>1. /\ chain[n] # << >> /\ chain[n] \in MadeChain /\ Len(chain[n]) \in Nat
      /\ minted \in Seq(RecordsBlock) /\ L \in Nat /\ L # 0 /\ DOMAIN minted = 1..L
      /\ b \in RecordsBlock /\ b.hash = L /\ b.prevHash \in Nat
      /\ b.transactions \in Seq(Backed(Len(chain[n])))
      /\ Lists /\ MadeInOrder
  BY MintedFields DEF RecordsInv
<1>2. /\ DOMAIN minted' = DOMAIN minted \cup {L + 1} /\ minted'[L + 1] = b
      /\ \A i \in DOMAIN minted : minted'[i] = minted[i]
      /\ L + 1 \notin DOMAIN minted
  <2> HIDE DEF RecordsBlock
  <2> QED BY <1>1, AppendFacts
<1>3. Extends
  BY DEF Extends
<1>4. RecordsBlock' = RecordsBlock
  BY DEF RecordsBlock, Sent, Grant
<1>5. Unforked' => Unforked /\ Len(chain[n]) = L /\ b.prevHash = L - 1
  BY <1>1, <1>3, MadeStays, MintedLine
<1>6. b \in MadeBlock'
  <2>1. L + 1 \in DOMAIN minted' /\ b.hash = (L + 1) - 1 /\ b.prevHash = minted'[L + 1].prevHash
        /\ b.transactions = minted'[L + 1].transactions
    BY <1>1, <1>2
  <2> HIDE DEF L, RecordsBlock
  <2> QED BY <1>1, <1>4, <2>1 DEF MadeBlock
<1>7. Append(chain[n], b) \in MadeChain'
  <2>1. chain[n] \in MadeChain'
    BY <1>1, <1>3, MadeGrows
  <2>2. chain[n] \in Seq(MadeBlock') /\ (Unforked' => Straight(chain[n]))
    BY <2>1 DEF MadeChain, Straight
  <2>3. /\ Append(chain[n], b) \in Seq(MadeBlock')
        /\ DOMAIN Append(chain[n], b) = DOMAIN chain[n] \cup {Len(chain[n]) + 1}
        /\ Append(chain[n], b)[Len(chain[n]) + 1] = b
        /\ \A i \in DOMAIN chain[n] : Append(chain[n], b)[i] = chain[n][i]
    <3>1. Append(chain[n], b) \in Seq(MadeBlock')
      <4> HIDE DEF MadeBlock
      <4> QED BY <1>6, <2>2
    <3>2. PICK S : S = MadeBlock'
      OBVIOUS
    <3> HIDE DEF MadeBlock
    <3> QED BY <2>2, <3>1, <3>2, AppendFacts
  <2>4. ASSUME Unforked', NEW i \in DOMAIN Append(chain[n], b)
        PROVE  Append(chain[n], b)[i].hash = i - 1
    <3>1. CASE i \in DOMAIN chain[n]
      BY <2>2, <2>3, <2>4, <3>1 DEF Straight
    <3>2. CASE i = Len(chain[n]) + 1
      BY <1>1, <1>5, <2>3, <2>4, <3>2
    <3> QED BY <2>3, <2>4, <3>1, <3>2
  <2>5. Unforked' => Straight(Append(chain[n], b))
    BY <2>4 DEF Straight
  <2> HIDE DEF MadeBlock, Unforked
  <2> QED BY <2>3, <2>5 DEF MadeChain, Straight
<1>8. MadeInOrder'
  <2>1. minted' \in Seq(RecordsBlock')
    <3> HIDE DEF RecordsBlock
    <3> QED BY <1>1, <1>4
  <2>2. 1 \in DOMAIN minted /\ minted' # << >> /\ minted'[1].prevHash = None
    <3>1. 1 \in DOMAIN minted
      BY <1>1
    <3>2. minted[1].prevHash = None
      BY <1>1 DEF MadeInOrder
    <3>3. minted' # << >>
      <4> HIDE DEF RecordsBlock
      <4> QED BY <1>1
    <3> QED BY <1>2, <3>1, <3>2, <3>3
  <2>3. ASSUME NEW i \in DOMAIN minted
        PROVE  /\ minted'[i].hash = i - 1
               /\ i # 1 => minted'[i].prevHash \in Nat
               /\ Unforked' /\ i # 1 => minted'[i].prevHash = i - 2
    <3>1. minted'[i] = minted[i] /\ (Unforked' => Unforked)
      BY <1>2, <1>5
    <3> QED BY <1>1, <2>3, <3>1 DEF MadeInOrder
  <2>4. /\ minted'[L + 1].hash = (L + 1) - 1 /\ minted'[L + 1].prevHash \in Nat
        /\ Unforked' => minted'[L + 1].prevHash = (L + 1) - 2
    BY <1>1, <1>2, <1>5
  <2>5. ASSUME NEW i \in DOMAIN minted, Unforked', NEW l \in DOMAIN minted[i].transactions,
               minted[i].transactions[l].receiver = Invoke
        PROVE  Deployed(payload[minted[i].transactions[l].id].contract, i - 1)'
    <3>1. PICK contract : contract = payload[minted[i].transactions[l].id].contract
      OBVIOUS
    <3>2. Deployed(contract, i - 1)
      BY <1>1, <1>5, <2>5, <3>1 DEF MadeInOrder
    <3>3. i - 1 \in Nat /\ i - 1 <= i - 1
      BY <1>1
    <3>4. Deployed(contract, i - 1)'
      BY <1>1, <1>3, <3>2, <3>3, DeployedStays
    <3>5. payload'[minted'[i].transactions[l].id].contract = contract
      BY <1>2, <3>1
    <3>6. Deployed(payload[minted[i].transactions[l].id].contract, i - 1)' =
            Deployed(contract, i - 1)'
      BY <3>5 DEF Deployed
    <3> QED BY <3>4, <3>6
  <2>6. ASSUME Unforked', NEW l \in DOMAIN b.transactions, b.transactions[l].receiver = Invoke
        PROVE  Deployed(payload[b.transactions[l].id].contract, k)'
    <3>1. PICK contract : contract = payload[b.transactions[l].id].contract
      OBVIOUS
    <3>2. b.transactions[l] \in Backed(Len(chain[n]))
      <4> HIDE DEF Backed
      <4> QED BY <1>1
    <3>3. Deployed(contract, Len(chain[n]))
      BY <1>5, <2>6, <3>1, <3>2 DEF Backed
    <3>5. Deployed(contract, k) /\ k \in Nat /\ k <= k
      BY <1>0, <1>1, <1>5, <2>6, <3>3
    <3>6. Deployed(contract, k)'
      BY <1>1, <1>3, <3>5, DeployedStays
    <3> QED BY <3>1, <3>6 DEF Deployed
  <2>7. ASSUME NEW i \in DOMAIN minted'
        PROVE  /\ minted'[i].hash = i - 1
               /\ i # 1 => minted'[i].prevHash \in Nat
               /\ Unforked' /\ i # 1 => minted'[i].prevHash = i - 2
               /\ Unforked' => \A l \in DOMAIN minted'[i].transactions :
                    minted'[i].transactions[l].receiver = Invoke
                      => Deployed(payload[minted[i].transactions[l].id].contract, i - 1)'
    <3>1. CASE i \in DOMAIN minted
      <4>1. minted'[i] = minted[i]
        BY <1>2, <3>1
      <4> QED BY <2>3, <2>5, <3>1, <4>1
    <3>2. CASE i = L + 1
      <4>1. minted'[i] = b /\ i - 1 = k
        BY <1>0, <1>1, <1>2, <3>2
      <4>2. ASSUME Unforked', NEW l \in DOMAIN b.transactions, b.transactions[l].receiver = Invoke
            PROVE  Deployed(payload[minted[i].transactions[l].id].contract, i - 1)'
        BY <2>6, <4>1, <4>2 DEF Deployed
      <4> HIDE DEF Unforked
      <4> QED BY <2>4, <3>2, <4>1, <4>2
    <3> QED BY <1>2, <3>1, <3>2
  <2> QED BY <2>1, <2>2, <2>7 DEF MadeInOrder
<1> QED BY <1>6, <1>7, <1>8

LEMMA MintedBound ==
  ASSUME Bounded, Len(minted) \in Nat, NEW n \in Node, mining[n] # None, DOMAIN mining = Node,
         mining' = [mining EXCEPT ![n] = None]
  PROVE  /\ Len(minted) <= MaxBlocks
         /\ Len(minted') = Len(minted) + 1 => Bounded'
<1>1. IsFiniteSet(Looking) /\ Len(minted) - 1 + Cardinality(Looking) <= MaxBlocks
  BY DEF Bounded, Allotted, Looking
<1>2. n \in Looking /\ Looking' = Looking \ {n}
  BY DEF Looking
<1>3. IsFiniteSet(Looking') /\ Cardinality(Looking') = Cardinality(Looking) - 1
  BY <1>1, <1>2, FS_RemoveElement, Zenon
<1>4. Cardinality(Looking) \in Nat /\ Cardinality(Looking') \in Nat
  BY <1>1, <1>3, FS_CardinalityType
<1>5. Len(minted) <= MaxBlocks
  BY <1>1, <1>3, <1>4, NetworkAssumption
<1>6. ASSUME Len(minted') = Len(minted) + 1
      PROVE  Len(minted') - 1 + Cardinality(Looking') <= MaxBlocks
  BY <1>1, <1>3, <1>4, <1>6, NetworkAssumption
<1> QED BY <1>3, <1>5, <1>6 DEF Bounded, Allotted, Looking

LEMMA RecordsMint ==
  ASSUME RecordsInv, Started, NEW n \in Node, mining[n] # None, NEW b,
         b = [hash |-> Len(minted), prevHash |-> mining[n].prevHash,
              transactions |-> mining[n].transactions, miner |-> n],
         isValidBlock(chain[n], b), chain' = [chain EXCEPT ![n] = Append(@, b)],
         minted' = Append(minted, b),
         mem_pool' = [mem_pool EXCEPT ![n] = Sweep(@, InBlock(@, b)).kept],
         inbox' = broadcast_message(n, [type |-> "new_block", block |-> b], inbox),
         mining' = [mining EXCEPT ![n] = None],
         files' = [files EXCEPT ![Len(minted)] = copied[n]],
         contractsDB' = deploy_contract(n, b.transactions),
         file_hashes' = pop_files(n, copied[n]), CopyFiles(n),
         UNCHANGED <<live, waiting, up, created, seen_files, payload>>
  PROVE  RecordsInv'
<1>1. /\ chain[n] \in MadeChain /\ Len(chain[n]) \in Nat
      /\ minted \in Seq(RecordsBlock) /\ Len(minted) \in Nat /\ Len(minted) # 0
      /\ DOMAIN minted = 1..Len(minted)
      /\ b \in RecordsBlock /\ b.hash = Len(minted)
  BY MintedFields
<1>2. /\ Lists /\ MadeInOrder /\ Bounded /\ PeerGood(n) /\ DOMAIN mem_pool = Node
      /\ DOMAIN mining = Node /\ DOMAIN chain = Node /\ DOMAIN files = 0..MaxBlocks
      /\ inbox \in [Conn -> [Node -> Seq(RecordsMsg)]]
  BY DEF RecordsInv, Lists
<1>3. MadeInOrder' /\ b \in MadeBlock' /\ Append(chain[n], b) \in MadeChain'
  BY MintedInLine
<1>4. PICK L : L = Len(minted)
  OBVIOUS
<1>5. /\ DOMAIN minted' = DOMAIN minted \cup {L + 1} /\ minted'[L + 1] = b
      /\ Len(minted') = L + 1
  <2> HIDE DEF RecordsBlock
  <2> QED BY <1>1, <1>4, AppendFacts
<1>6. Extends
  BY DEF Extends
<1>7. L <= MaxBlocks /\ L \in Nat /\ Bounded'
  BY <1>1, <1>2, <1>4, <1>5, MintedBound
<1>8. /\ files'[L] = copied[n] /\ DOMAIN files' = DOMAIN files
      /\ \A h : h # L => files'[h] = files[h]
  <2>1. L \in DOMAIN files
    BY <1>2, <1>7, NetworkAssumption
  <2> QED BY <1>4, <2>1
<1>9. FilesStay
  <2>1. \A i \in DOMAIN minted : i - 1 # L
    BY <1>1, <1>4
  <2> QED BY <1>8, <2>1 DEF FilesStay
<1>10. PICK k : k = Len(chain[n]) + 1
  OBVIOUS
<1>11. k \in Nat /\ Len(chain[n]) <= k
  BY <1>1, <1>10
<1>12. mem_pool[n] \in Seq(Backed(k)') /\ waiting[n] \in Seq(InLine(k)')
  BY <1>2, <1>6, <1>11, PeerHeld
<1>13. /\ mem_pool'[n] \in Seq(Backed(k)') /\ DOMAIN mem_pool' = Node
       /\ \A m \in Node : m # n => mem_pool'[m] = mem_pool[m]
  BY <1>2, <1>12, KeptInPool
<1>14. /\ file_hashes'[n] = file_hashes[n] \ copied[n]
       /\ \A m \in Node : m # n => file_hashes'[m] = file_hashes[m]
       /\ file_hashes' \in [Node -> SUBSET Cid]
  BY <1>2, PopsFiles
<1>15. /\ contractsDB' \in [Node -> SUBSET Nat]
       /\ \A m \in Node : m # n => contractsDB'[m] = contractsDB[m]
       /\ \A contract \in contractsDB'[n] :
            \/ contract \in contractsDB[n]
            \/ \E l \in DOMAIN b.transactions : b.transactions[l].id = contract
  <2>1. PICK txs : txs = b.transactions
    OBVIOUS
  <2>2. (\A l \in DOMAIN txs : txs[l].id \in Nat) /\ contractsDB' = deploy_contract(n, txs)
    BY <1>1, <2>1, TxIds
  <2>3. /\ contractsDB' \in [Node -> SUBSET Nat]
        /\ \A m \in Node : m # n => contractsDB'[m] = contractsDB[m]
        /\ \A contract \in contractsDB'[n] :
             \/ contract \in contractsDB[n]
             \/ \E l \in DOMAIN txs : txs[l].id = contract
    BY <1>2, <2>2, Deploys
  <2> QED BY <2>1, <2>3
<1>16. /\ mining'[n] = None /\ DOMAIN mining' = Node /\ chain'[n] = Append(chain[n], b)
       /\ DOMAIN chain' = Node
       /\ \A m \in Node : m # n => mining'[m] = mining[m] /\ chain'[m] = chain[m]
  BY <1>2
<1>17. copied' \in [Node -> SUBSET Cid]
  BY <1>2, CopiesType
<1>18. Lists'
  BY <1>2, <1>8, <1>13, <1>14, <1>15, <1>16, <1>17 DEF Lists
<1>19. inbox' \in [Conn -> [Node -> Seq(RecordsMsg')]]
  <2>1. RecordsMsg \subseteq RecordsMsg' /\ inbox \in [Conn -> [Node -> Seq(RecordsMsg')]]
    BY <1>2, <1>6, MadeGrows, InboxGrows
  <2>2. [type |-> "new_block", block |-> b] \in RecordsMsg'
    <3> HIDE DEF Sent, MadeBlock, MadeChain
    <3> QED BY <1>3 DEF RecordsMsg
  <2> HIDE DEF RecordsMsg
  <2> QED BY <2>1, <2>2, BroadcastType
<1>20. GrownBy(n, b, k)
  <2>1. Unforked' => /\ b.hash = Len(chain[n]) /\ k \in DOMAIN minted'
                     /\ b.transactions = minted'[k].transactions
    <3>1. Unforked' => Len(chain[n]) = L
      BY <1>4, MintedLine
    <3> QED BY <1>1, <1>4, <1>5, <1>10, <3>1
  <2>2. file_hashes[n] \ files'[b.hash] \subseteq file_hashes'[n]
    BY <1>1, <1>4, <1>8, <1>14
  <2>3. chain'[n] \in MadeChain' /\ chain'[n] = Append(chain[n], b)
    BY <1>3, <1>16
  <2>4. /\ mem_pool'[n] \in Seq(Backed(k)') /\ waiting'[n] \in Seq(InLine(k)')
        /\ mining'[n] \in Drafts(k)' \cup {None} /\ seen_files'[n] = seen_files[n]
    BY <1>12, <1>13, <1>16
  <2> QED BY <1>10, <1>11, <1>15, <2>1, <2>2, <2>3, <2>4 DEF GrownBy
<1>21. PeerGood(n)'
  BY <1>2, <1>6, <1>9, <1>20, PeerExtends
<1> QED BY <1>3, <1>6, <1>7, <1>9, <1>13, <1>14, <1>15, <1>16, <1>18, <1>19, <1>21, InvAfter

LEMMA RecordsEndMining ==
  ASSUME RecordsInv, Started, NEW n \in Node, EndMining(n)
  PROVE  RecordsInv'
<1>1. PICK b : b = [hash |-> Len(minted), prevHash |-> mining[n].prevHash,
                    transactions |-> mining[n].transactions, miner |-> n]
  OBVIOUS
<1>2. /\ mining[n] # None /\ mining' = [mining EXCEPT ![n] = None] /\ CopyFiles(n)
      /\ UNCHANGED <<live, waiting, up, created, seen_files, payload>>
  BY DEF EndMining, MiningEnds
<1>3. minted \in Seq(RecordsBlock) /\ Len(minted) \in Nat
  BY <1>1, <1>2, MintedFields
<1>4. CASE /\ isValidBlock(chain[n], b)
           /\ chain' = [chain EXCEPT ![n] = Append(@, b)]
           /\ minted' = Append(minted, b)
           /\ mem_pool' = [mem_pool EXCEPT ![n] = Sweep(@, InBlock(@, b)).kept]
           /\ inbox' = broadcast_message(n, [type |-> "new_block", block |-> b], inbox)
  <2>1. minted' # minted
    <3>1. Len(Append(minted, b)) = Len(minted) + 1
      <4> HIDE DEF RecordsBlock
      <4> QED BY <1>3
    <3> QED BY <1>3, <1>4, <3>1
  <2>2. b.transactions = mining[n].transactions
    BY <1>1
  <2>3. /\ files' = [files EXCEPT ![Len(minted)] = copied[n]]
        /\ contractsDB' = deploy_contract(n, b.transactions)
        /\ file_hashes' = pop_files(n, copied[n])
    BY <2>1, <2>2 DEF EndMining
  <2> QED BY <1>1, <1>2, <1>4, <2>3, RecordsMint
<1>5. CASE UNCHANGED <<chain, minted, mem_pool, inbox>>
  <2>1. UNCHANGED <<files, contractsDB, file_hashes>>
    BY <1>5 DEF EndMining
  <2> DEFINE k == Len(chain[n])
  <2>2. /\ Lists /\ Bounded /\ PeerGood(n) /\ DOMAIN mining = Node
        /\ inbox \in [Conn -> [Node -> Seq(RecordsMsg)]]
    BY DEF RecordsInv, Lists
  <2>3. /\ mem_pool[n] \in Seq(Backed(k)) /\ waiting[n] \in Seq(InLine(k))
        /\ Unforked /\ n \in Miner
             => seen_files[n] \subseteq file_hashes[n] \cup InChainFiles(chain[n])
    BY <2>2 DEF PeerGood
  <2>4. copied' \in [Node -> SUBSET Cid]
    BY <1>2, <2>2, CopiesType
  <2>5. RecordsMsg' = RecordsMsg
    BY <1>2, <1>5, NothingMade
  <2>6. Bounded'
    <3>1. Looking' \subseteq Looking
      BY <1>2, <2>2 DEF Looking
    <3> QED BY <1>3, <1>5, <2>2, <3>1, BoundedLess
  <2>7. /\ mining'[n] = None /\ DOMAIN mining' = Node
        /\ \A m \in Node : m # n => mining'[m] = mining[m]
    BY <1>2, <2>2
  <2>8. Lists'
    BY <1>2, <1>5, <2>1, <2>2, <2>4, <2>7 DEF Lists
  <2> HIDE DEF Backed, InLine, Drafts
  <2> QED BY <1>2, <1>5, <2>1, <2>2, <2>3, <2>5, <2>6, <2>7, <2>8, LocalStep
<1> QED BY <1>1, <1>4, <1>5 DEF EndMining, MiningEnds

-----------------------------------------------------------------------------
LEMMA StartedSame ==
  ASSUME Started, UNCHANGED <<chain, mem_pool, mining, waiting>>
  PROVE  Started'
BY DEF Started, NotStarted

LEMMA StartedAfter ==
  ASSUME Started, NEW n \in Node,
         chain[n] # << >> => chain'[n] # << >>,
         chain[n] = << >> => NotStarted(n)',
         \A m \in Node : m # n =>
           /\ chain'[m] = chain[m] /\ mem_pool'[m] = mem_pool[m]
           /\ mining'[m] = mining[m] /\ waiting'[m] = waiting[m]
  PROVE  Started'
BY DEF Started, NotStarted

LEMMA StartedCreate ==
  ASSUME RecordsInv, Started, NEW n \in Node, NEW rec, NEW amt, create_and_broadcast_tx(n, rec, amt)
  PROVE  Started'
<1>1. DOMAIN mem_pool = Node /\ DOMAIN waiting = Node
  BY DEF RecordsInv, Lists
<1>2. chain[n] # << >> /\ UNCHANGED <<chain, mining>>
  BY DEF create_and_broadcast_tx, user_input_handler
<1>3. \A m \in Node : m # n => mem_pool'[m] = mem_pool[m] /\ waiting'[m] = waiting[m]
  BY <1>1 DEF create_and_broadcast_tx, AddTransaction, Park
<1> QED BY <1>2, <1>3, StartedAfter

LEMMA StartedNewTx ==
  ASSUME RecordsInv, Started, NEW c \in Conn, NEW n \in Node, HandleNewTx(c, n)
  PROVE  Started'
<1>1. DOMAIN mem_pool = Node /\ DOMAIN waiting = Node
  BY DEF RecordsInv, Lists
<1>2. UNCHANGED <<chain, mining>>
  BY DEF HandleNewTx
<1>3. \A m \in Node : m # n => mem_pool'[m] = mem_pool[m] /\ waiting'[m] = waiting[m]
  BY <1>1 DEF HandleNewTx, AddTransaction, Park
<1>4. chain[n] = << >> => UNCHANGED <<mem_pool, waiting>>
  BY DEF HandleNewTx
<1>5. chain[n] = << >> => NotStarted(n)'
  BY <1>2, <1>4 DEF Started, NotStarted
<1> QED BY <1>2, <1>3, <1>5, StartedAfter

LEMMA StartedNewBlock ==
  ASSUME RecordsInv, Started, NEW c \in Conn, NEW n \in Node, HandleNewBlock(c, n)
  PROVE  Started'
<1>1. /\ DOMAIN mem_pool = Node /\ DOMAIN waiting = Node /\ DOMAIN chain = Node
      /\ chain[n] \in Seq(MadeBlock)
  BY DEF RecordsInv, Lists, PeerGood, MadeChain
<1>2. UNCHANGED mining
  BY DEF HandleNewBlock
<1>3. \A m \in Node : m # n =>
        /\ chain'[m] = chain[m] /\ mem_pool'[m] = mem_pool[m] /\ waiting'[m] = waiting[m]
  BY <1>1 DEF HandleNewBlock, FinishNewBlock, Park
<1>4. chain[n] = << >> => UNCHANGED <<chain, mem_pool, waiting>>
  BY DEF HandleNewBlock
<1>5. chain[n] = << >> => NotStarted(n)'
  BY <1>2, <1>4 DEF Started, NotStarted
<1>6. chain[n] # << >> => chain'[n] # << >>
  <2>1. \A b : Append(chain[n], b) # << >>
    <3> HIDE DEF MadeBlock
    <3> QED BY <1>1
  <2>2. UNCHANGED chain \/ \E b : chain' = [chain EXCEPT ![n] = Append(@, b)]
    BY DEF HandleNewBlock
  <2> QED BY <1>1, <2>1, <2>2
<1> QED BY <1>2, <1>3, <1>5, <1>6, StartedAfter

LEMMA StartedChain ==
  ASSUME RecordsInv, Started, NEW c \in Conn, NEW n \in Ends(c), HandleChain(c, n)
  PROVE  Started'
<1>1. PICK bl : bl = Head(inbox[c][n]).chain
  OBVIOUS
<1>2. /\ n \in Node /\ DOMAIN mem_pool = Node /\ DOMAIN waiting = Node /\ DOMAIN chain = Node
  BY EndsAreNodes DEF RecordsInv, Lists
<1>3. chain[n] \in Seq(MadeBlock) /\ bl \in Seq(MadeBlock)
  <2>1. bl \in MadeChain
    BY <1>1, RecordsRead, RecordsMsgFields DEF HandleChain
  <2> QED BY <1>2, <2>1 DEF RecordsInv, PeerGood, MadeChain
<1>4. UNCHANGED mining
  BY DEF HandleChain
<1>5. \A m \in Node : m # n =>
        /\ chain'[m] = chain[m] /\ mem_pool'[m] = mem_pool[m] /\ waiting'[m] = waiting[m]
  BY <1>2 DEF HandleChain, PurgeConfirmed, Park
<1>6. chain[n] = << >> => UNCHANGED <<mem_pool, waiting>>
  BY DEF HandleChain
<1>7. chain[n] = << >> => NotStarted(n)'
  BY <1>2, <1>4, <1>6 DEF Started, NotStarted
<1>8. chain[n] # << >> => chain'[n] # << >>
  <2>1. chain[n] # << >> => rewrite(chain[n], bl) # << >>
    <3> HIDE DEF MadeBlock
    <3> QED BY <1>3 DEF rewrite
  <2>2. chain[n] # << >> => UNCHANGED chain \/ chain' = [chain EXCEPT ![n] = rewrite(@, bl)]
    BY <1>1 DEF HandleChain
  <2> QED BY <1>2, <2>1, <2>2
<1> QED BY <1>2, <1>4, <1>5, <1>7, <1>8, StartedAfter

LEMMA StartedWakes ==
  ASSUME RecordsInv, Started, NEW n \in Node, NEW task \in live[n], MinerWakes(n, task)
  PROVE  Started'
<1>1. /\ DOMAIN mem_pool = Node /\ DOMAIN waiting = Node /\ DOMAIN mining = Node
      /\ UNCHANGED <<chain, minted>> /\ task \in Nat
  BY DEF RecordsInv, Lists, MinerWakes
<1>2. CASE MiningRound(n, task) /\ LockIsFree(n) /\ UNCHANGED waiting
  <2>1. /\ \A m \in Node : m # n => mem_pool'[m] = mem_pool[m] /\ mining'[m] = mining[m]
        /\ chain[n] = << >> => mem_pool'[n] = << >> /\ mining'[n] = None
    BY <1>1, <1>2, RoundMade DEF LockIsFree
  <2>2. chain[n] = << >> => NotStarted(n)'
    BY <1>2, <2>1 DEF Started, NotStarted
  <2> QED BY <1>1, <1>2, <2>1, <2>2, StartedAfter
<1>3. CASE ~ LockIsFree(n) /\ Park(n, "mine", None, task) /\ UNCHANGED <<mem_pool, mining>>
  <2>1. chain[n] # << >>
    BY <1>3 DEF Started, NotStarted, LockIsFree
  <2>2. \A m \in Node : m # n => waiting'[m] = waiting[m]
    BY <1>1, <1>3 DEF Park
  <2> QED BY <1>1, <1>3, <2>1, <2>2, StartedAfter
<1> QED BY <1>2, <1>3 DEF MinerWakes

LEMMA StartedMiner ==
  ASSUME RecordsInv, Started, NEW n \in Node, MiningEnds(n) \/ MiningCancelled(n)
  PROVE  Started'
<1>1. /\ DOMAIN mem_pool = Node /\ DOMAIN mining = Node /\ DOMAIN chain = Node
      /\ chain[n] \in Seq(MadeBlock)
  BY DEF RecordsInv, Lists, PeerGood, MadeChain
<1>2. UNCHANGED waiting /\ chain[n] # << >>
  BY DEF MiningEnds, MiningCancelled, Started, NotStarted
<1>3. \A m \in Node : m # n =>
        /\ chain'[m] = chain[m] /\ mem_pool'[m] = mem_pool[m] /\ mining'[m] = mining[m]
  BY <1>1 DEF MiningEnds, MiningCancelled
<1>4. chain'[n] # << >>
  <2>1. \A b : Append(chain[n], b) # << >>
    <3> HIDE DEF MadeBlock
    <3> QED BY <1>1
  <2>2. UNCHANGED chain \/ \E b : chain' = [chain EXCEPT ![n] = Append(@, b)]
    BY DEF MiningEnds, MiningCancelled
  <2> QED BY <1>1, <1>2, <2>1, <2>2
<1> QED BY <1>2, <1>3, <1>4, StartedAfter

LEMMA StartedResume ==
  ASSUME RecordsInv, Started, NEW n \in Node, Resume(n)
  PROVE  Started'
<1>1. /\ DOMAIN mem_pool = Node /\ DOMAIN mining = Node /\ DOMAIN waiting = Node
      /\ UNCHANGED chain
  BY DEF RecordsInv, Lists, Resume
<1>2. chain[n] # << >>
  BY DEF Resume, Started, NotStarted
<1>3. \A m \in Node : m # n =>
        /\ mem_pool'[m] = mem_pool[m] /\ mining'[m] = mining[m] /\ waiting'[m] = waiting[m]
  <2>1. \A m \in Node : m # n => waiting'[m] = waiting[m]
    BY <1>1 DEF Resume
  <2>2. /\ \/ UNCHANGED mem_pool
           \/ \E pool : mem_pool' = [mem_pool EXCEPT ![n] = pool]
        /\ \/ UNCHANGED mining
           \/ \E draft : mining' = [mining EXCEPT ![n] = draft]
    BY DEF Resume, AddTransaction, FinishNewBlock, MiningRound
  <2> QED BY <1>1, <2>1, <2>2
<1> QED BY <1>1, <1>2, <1>3, StartedAfter

-----------------------------------------------------------------------------
LEMMA RecordsBegins == RecordsInit => RecordsInv /\ Started
<1> SUFFICES ASSUME RecordsInit PROVE RecordsInv /\ Started
  OBVIOUS
<1> DEFINE g == genesis_block(Founder)
<1>1. /\ chain = [n \in Node |-> IF n = Founder THEN <<g>> ELSE << >>]
      /\ mem_pool = [n \in Node |-> << >>] /\ mining = [n \in Node |-> None]
      /\ waiting = [n \in Node |-> << >>] /\ inbox = [c \in Conn |-> [n \in Node |-> << >>]]
      /\ live \in [Node -> SUBSET Nat] /\ up = Conn /\ minted = <<g>> /\ created = 0
    BY DEF RecordsInit, Init
<1>2. /\ contractsDB = [n \in Node |-> {}] /\ file_hashes = [n \in Node |-> {}]
      /\ seen_files = [n \in Node |-> {}] /\ copied = [n \in Node |-> {}]
      /\ payload = << >> /\ files = [hash \in 0..MaxBlocks |-> {}]
  BY DEF RecordsInit
<1>3. /\ g.hash = 0 /\ g.prevHash = None /\ g.transactions = <<Grant>> /\ g \in RecordsBlock
      /\ Grant.receiver = Founder
  <2>1. /\ g.hash = 0 /\ g.prevHash = None /\ g.transactions = <<Grant>> /\ g.miner = None
        /\ g = [hash |-> 0, prevHash |-> None, miner |-> None, transactions |-> <<Grant>>]
    BY DEF genesis_block, Grant
  <2>2. <<Grant>> \in Seq(Sent \cup {Grant})
    <3> HIDE DEF Sent, Grant
    <3> QED OBVIOUS
  <2>3. g \in RecordsBlock
    <3> HIDE DEF Sent, Grant, g
    <3> QED BY <2>1, <2>2 DEF RecordsBlock
  <2> QED BY <2>1, <2>3 DEF Grant
<1> HIDE DEF g
<1>4. Lists
  <2>1. payload \in Seq({}) /\ Len(payload) = created
    BY <1>1, <1>2
  <2>2. /\ DOMAIN files = 0..MaxBlocks /\ DOMAIN chain = Node /\ DOMAIN mem_pool = Node
        /\ DOMAIN waiting = Node /\ DOMAIN mining = Node
    BY <1>1, <1>2
  <2>3. /\ contractsDB \in [Node -> SUBSET Nat] /\ seen_files \in [Node -> SUBSET Cid]
        /\ file_hashes \in [Node -> SUBSET Cid] /\ copied \in [Node -> SUBSET Cid]
    BY <1>2
  <2> QED BY <1>1, <2>1, <2>2, <2>3 DEF Lists
<1>5. DOMAIN minted = {1} /\ minted[1] = g /\ Len(minted) = 1 /\ minted # << >>
  BY <1>1
<1>6. MadeInOrder
  <2>1. minted \in Seq(RecordsBlock)
    <3> HIDE DEF RecordsBlock
    <3> QED BY <1>1, <1>3
  <2>2. \A l \in DOMAIN g.transactions : g.transactions[l].receiver # Invoke
    <3>1. \A l \in DOMAIN g.transactions : g.transactions[l] = Grant
      <4> HIDE DEF Grant
      <4> QED BY <1>3
    <3>2. Founder # Invoke
      BY NetworkAssumption, RecordsAssumption
    <3> QED BY <1>3, <3>1, <3>2
  <2> QED BY <1>3, <1>5, <2>1, <2>2 DEF MadeInOrder
<1>7. Bounded
  <2>1. {n \in Node : mining[n] # None} = {}
    BY <1>1
  <2>2. IsFiniteSet({}) /\ Cardinality({}) = 0
    BY FS_EmptySet
  <2> QED BY <1>5, <2>1, <2>2, NetworkAssumption DEF Bounded, Allotted
<1>8. inbox \in [Conn -> [Node -> Seq(RecordsMsg)]]
  <2> HIDE DEF RecordsMsg
  <2> QED BY <1>1
<1>9. ASSUME NEW n \in Node PROVE PeerGood(n)
  <2>1. chain[n] \in MadeChain
    <3>1. g \in MadeBlock
      BY <1>3, <1>5 DEF MadeBlock
    <3>2. <<g>> \in Seq(MadeBlock) /\ << >> \in Seq(MadeBlock)
      <4> HIDE DEF MadeBlock
      <4> QED BY <3>1
    <3>3. Straight(<<g>>) /\ Straight(<< >>)
      BY <1>3 DEF Straight
    <3> HIDE DEF MadeBlock, Straight
    <3> QED BY <1>1, <3>2, <3>3 DEF MadeChain
  <2>2. /\ mem_pool[n] = << >> /\ waiting[n] = << >> /\ mining[n] = None
        /\ contractsDB[n] = {} /\ seen_files[n] = {}
    BY <1>1, <1>2
  <2>3. /\ \A S : << >> \in Seq(S)
    OBVIOUS
  <2> HIDE DEF Backed, InLine, Drafts, MadeChain, Unforked, Deployed, InChainFiles
  <2> QED BY <2>1, <2>2, <2>3 DEF PeerGood
<1>10. Started
  BY <1>1 DEF Started, NotStarted
<1> QED BY <1>4, <1>6, <1>7, <1>8, <1>9, <1>10 DEF RecordsInv

LEMMA RecordsSame ==
  ASSUME RecordsInv, Started, UNCHANGED allVars
  PROVE  RecordsInv' /\ Started'
<1>1. /\ UNCHANGED <<chain, mem_pool, live, mining, waiting, minted, created, records>>
      /\ inbox' = inbox /\ up' = up
  BY DEF allVars, vars
<1>2. up' \in SUBSET Conn /\ inbox' \in [Conn -> [Node -> Seq(RecordsMsg)]]
  BY <1>1 DEF RecordsInv, Lists
<1> QED BY <1>1, <1>2, QuietStep, StartedSame

\* A step that is one of a peer, or of a peer that reads a message.
LEMMA RecordsPeer ==
  ASSUME RecordsInv, Started, NEW n \in Node,
         \/ deploy(n)
         \/ \E contract \in contractsDB[n] \cup 1..created : invoke(n, contract)
         \/ \E cid \in Cid : uploadFile(n, cid)
         \/ upload_missing(n)
         \/ \E task \in live[n] : WakeMiner(n, task)
         \/ EndMining(n)
         \/ CancelMining(n)
         \/ ResumeWaiter(n)
         \/ find_longest_chain(n) /\ UNCHANGED records
  PROVE  RecordsInv' /\ Started'
<1>1. CASE deploy(n)
  <2>1. PICK p : payload' = Append(payload, p)
    BY <1>1 DEF deploy
  <2>2. DeployCost \in Nat /\ Deploy # Invoke
    BY RecordsAssumption
  <2> QED BY <1>1, <2>1, <2>2, RecordsCreate, StartedCreate DEF deploy
<1>2. CASE \E contract \in contractsDB[n] \cup 1..created : invoke(n, contract)
  <2>1. PICK contract : invoke(n, contract)
    BY <1>2
  <2>2. PICK p : payload' = Append(payload, p) /\ p.contract = contract
    BY <2>1 DEF invoke
  <2>3. InvokeCost \in Nat /\ p.contract \in contractsDB[n]
    BY <2>1, <2>2, RecordsAssumption DEF invoke, KnownContract
  <2> QED BY <2>1, <2>2, <2>3, RecordsCreate, StartedCreate DEF invoke
<1>3. CASE \E cid \in Cid : uploadFile(n, cid)
  BY <1>3, RecordsUpload, StartedSame DEF uploadFile
<1>4. CASE upload_missing(n)
  BY <1>4, RecordsMissing, StartedSame DEF upload_missing
<1>5. CASE \E task \in live[n] : WakeMiner(n, task)
  BY <1>5, RecordsWakeMiner, StartedWakes DEF WakeMiner
<1>6. CASE EndMining(n)
  BY <1>6, RecordsEndMining, StartedMiner DEF EndMining
<1>7. CASE CancelMining(n)
  BY <1>7, RecordsCancelMining, StartedMiner DEF CancelMining
<1>8. CASE ResumeWaiter(n)
  BY <1>8, RecordsResume, StartedResume DEF ResumeWaiter
<1>9. CASE find_longest_chain(n) /\ UNCHANGED records
  BY <1>9, RecordsAsk, StartedSame DEF find_longest_chain
<1> QED BY <1>1, <1>2, <1>3, <1>4, <1>5, <1>6, <1>7, <1>8, <1>9

LEMMA RecordsHandle ==
  ASSUME RecordsInv, Started, NEW c \in Conn, NEW n \in Ends(c), HandleAny(c, n)
  PROVE  RecordsInv' /\ Started'
<1>1. n \in Node
  BY EndsAreNodes
<1>2. CASE HandleTransaction(c, n)
  <2>1. Started'
    <3>1. HandleNewTx(c, n) \/ UNCHANGED <<chain, mem_pool, mining, waiting>>
      BY <1>2 DEF HandleTransaction, Refuse
    <3> QED BY <1>1, <3>1, StartedNewTx, StartedSame
  <2> QED BY <1>2, <2>1, RecordsHandleTransaction
<1>3. CASE HandleBlock(c, n)
  <2>1. Started'
    <3>1. HandleNewBlock(c, n) \/ UNCHANGED <<chain, mem_pool, mining, waiting>>
      BY <1>3 DEF HandleBlock, Refuse
    <3> QED BY <1>1, <3>1, StartedNewBlock, StartedSame
  <2> QED BY <1>3, <2>1, RecordsHandleBlock
<1>4. CASE HandleChainMessage(c, n)
  BY <1>4, RecordsHandleChain, StartedChain DEF HandleChainMessage
<1>5. CASE HandleChainRequest(c, n) /\ UNCHANGED records
  BY <1>5, RecordsChainRequest, StartedSame DEF HandleChainRequest
<1>6. CASE HandleFile(c, n)
  BY <1>6, RecordsHandleFile, StartedSame DEF HandleFile
<1>7. CASE HandleNull(c, n)
  BY <1>7, RecordsHandleNull, StartedSame DEF HandleNull
<1> QED BY <1>2, <1>3, <1>4, <1>5, <1>6, <1>7 DEF HandleAny

LEMMA RecordsStep == RecordsInv /\ Started /\ [RecordsNext]_allVars => RecordsInv' /\ Started'
<1> SUFFICES ASSUME RecordsInv, Started, [RecordsNext]_allVars PROVE RecordsInv' /\ Started'
  OBVIOUS
<1>1. CASE UNCHANGED allVars
  BY <1>1, RecordsSame
<1>2. ASSUME NEW c \in Conn, Disconnect(c) \/ connect_to_peer(c), UNCHANGED records
      PROVE  RecordsInv' /\ Started'
  <2>1. UNCHANGED <<chain, mem_pool, mining, waiting>>
    BY <1>2 DEF Disconnect, connect_to_peer
  <2> QED BY <1>2, <2>1, RecordsDisconnect, RecordsConnect, StartedSame
<1>3. CASE RecordsNext
  BY <1>2, <1>3, RecordsPeer, RecordsHandle DEF RecordsNext
<1> QED BY <1>1, <1>3

LEMMA RecordsKeep == RecordsSpec => [](RecordsInv /\ Started)
BY RecordsBegins, RecordsStep, PTL DEF RecordsSpec

(***************************************************************************)
(* A file that has reached a miner is recorded in its chain or will be in  *)
(* its next block (FilesKept), for any peers and connections, any files    *)
(* and bounds, while no chain has given way: handle_messages, mine_blocks  *)
(* and the coroutines that waited for mem_pool_condition take no file from *)
(* file_hashes that the peer's chain does not record.                      *)
(***************************************************************************)
THEOREM RecordsFilesKept == RecordsSpec => []FilesKept
<1>1. RecordsInv => FilesKept
  <2> SUFFICES ASSUME RecordsInv, Unforked, NEW n \in Miner
               PROVE  seen_files[n] \subseteq file_hashes[n] \cup InChainFiles(chain[n])
    BY DEF FilesKept
  <2>1. n \in Node
    BY NetworkAssumption
  <2>2. PeerGood(n)
    BY <2>1 DEF RecordsInv
  <2> QED BY <2>2 DEF PeerGood
<1> QED BY <1>1, RecordsKeep, PTL

(***************************************************************************)
(* In every chain a contract is invoked only after the block that deploys  *)
(* it (DeployedFirst), though a chain brings its invocations unjudged and  *)
(* a candidate is never judged by who built it: whatever a peer has in its *)
(* pool, its line and its candidate is of contracts in its own chain.      *)
(***************************************************************************)
THEOREM RecordsDeployedFirst == RecordsSpec => []DeployedFirst
<1>1. ASSUME RecordsInv PROVE DeployedFirst
  <2> SUFFICES ASSUME Unforked, NEW n \in Node, NEW i \in DOMAIN chain[n],
                      NEW k \in DOMAIN chain[n][i].transactions,
                      chain[n][i].transactions[k].receiver = Invoke
               PROVE  \E j \in 1..(i - 1) : \E l \in DOMAIN chain[n][j].transactions :
                        chain[n][j].transactions[l].id
                          = payload[chain[n][i].transactions[k].id].contract
    BY DEF DeployedFirst
  <2>1. PICK contract : contract = payload[chain[n][i].transactions[k].id].contract
    OBVIOUS
  <2>2. MadeInOrder /\ chain[n] \in MadeChain
    BY <1>1 DEF RecordsInv, PeerGood
  <2>3. /\ Len(chain[n]) \in Nat /\ DOMAIN chain[n] = 1..Len(chain[n])
        /\ \A j \in DOMAIN chain[n] : /\ j \in DOMAIN minted
                                      /\ chain[n][j].transactions = minted[j].transactions
    BY <2>2, OnTheLine
  <2>4. Deployed(contract, i - 1)
    BY <2>1, <2>2, <2>3 DEF MadeInOrder
  <2>5. PICK j \in DOMAIN minted :
          j <= i - 1 /\ \E l \in DOMAIN minted[j].transactions : minted[j].transactions[l].id = contract
    BY <2>4 DEF Deployed
  <2>6. j \in 1..(i - 1) /\ j \in DOMAIN chain[n]
    <3>1. DOMAIN minted = 1..Len(minted) /\ Len(minted) \in Nat
      <4>1. minted \in Seq(RecordsBlock)
        BY <2>2 DEF MadeInOrder
      <4> HIDE DEF RecordsBlock
      <4> QED BY <4>1
    <3> QED BY <2>3, <2>5, <3>1
  <2> QED BY <2>1, <2>3, <2>5, <2>6
<1> QED BY <1>1, RecordsKeep, PTL

-----------------------------------------------------------------------------
(***************************************************************************)
(* Files and blocks, whatever forks.  What a miner has recorded it has     *)
(* heard of, and is neither in its dictionary nor in its candidate; what   *)
(* is in a dictionary and in the chain was taken up too late, or the       *)
(* handler that will let it go waits for the lock.                         *)
(***************************************************************************)
\* The i-th block that was made records nothing that n might record again.
Spent(n, i) ==
  minted[i].miner = n => files[i - 1] \subseteq seen_files[n] \ (file_hashes[n] \cup copied[n])

OwnFiles ==
  /\ \A i, j \in DOMAIN minted :
       minted[i].miner = minted[j].miner /\ i # j => files[i - 1] \cap files[j - 1] = {}
  /\ \A n \in Node :
       /\ file_hashes[n] \cup copied[n] \subseteq seen_files[n]
       /\ \A i \in DOMAIN minted : Spent(n, i)

\* In the dictionary and in the chain.
Doubled(n) == {x \in file_hashes[n] : \E i \in DOMAIN chain[n] : x \in files[chain[n][i].hash]}

Awaited(n, x) ==
  \E k \in DOMAIN waiting[n] :
    \/ waiting[n][k].kind = "chain"
    \/ waiting[n][k].kind = "new_block" /\ x \in files[waiting[n][k].data.hash]

LetsGo(n) == \A x \in Doubled(n) : x \in overtaken[n] \/ Awaited(n, x)

FilesInv ==
  /\ DOMAIN overtaken = Node
  /\ OwnFiles
  /\ \A n \in Node : LetsGo(n)

\* No block that was made gets other files.
SameFiles == \A h \in 0..(Len(minted) - 1) : files'[h] = files[h]

\* The handlers in n's line that will pop files stay in it.
KeepWaiting(n) ==
  \A k \in DOMAIN waiting[n] :
    waiting[n][k].kind \in {"new_block", "chain"}
      => \E j \in DOMAIN waiting'[n] : waiting'[n][j] = waiting[n][k]

LEMMA HashesMade ==
  ASSUME RecordsInv, NEW n \in Node
  PROVE  /\ Len(minted) \in Nat /\ DOMAIN minted = 1..Len(minted)
         /\ \A i \in DOMAIN chain[n] : chain[n][i].hash \in 0..(Len(minted) - 1)
         /\ \A k \in DOMAIN waiting[n] : waiting[n][k].kind = "new_block"
              => waiting[n][k].data.hash \in 0..(Len(minted) - 1)
<1>1. MadeInOrder /\ PeerGood(n)
  BY DEF RecordsInv
<1>2. /\ minted \in Seq(RecordsBlock) /\ chain[n] \in Seq(MadeBlock)
      /\ waiting[n] \in Seq(InLine(Len(chain[n])))
  BY <1>1 DEF MadeInOrder, PeerGood, MadeChain
<1>3. Len(minted) \in Nat /\ DOMAIN minted = 1..Len(minted)
  <2> HIDE DEF RecordsBlock
  <2> QED BY <1>2
<1>4. \A b \in MadeBlock : b.hash \in 0..(Len(minted) - 1)
  <2>1. \A b \in MadeBlock : \E i \in DOMAIN minted : b.hash = i - 1
    BY DEF MadeBlock
  <2> QED BY <1>3, <2>1
<1>5. \A i \in DOMAIN chain[n] : chain[n][i] \in MadeBlock
  <2> HIDE DEF MadeBlock
  <2> QED BY <1>2
<1>6. \A k \in DOMAIN waiting[n] : waiting[n][k].kind = "new_block" => waiting[n][k].data \in MadeBlock
  <2>1. \A k \in DOMAIN waiting[n] : waiting[n][k] \in InLine(Len(chain[n]))
    <3> HIDE DEF InLine
    <3> QED BY <1>2
  <2> HIDE DEF InLine, MadeBlock
  <2> QED BY <2>1, LineFields
<1> QED BY <1>3, <1>4, <1>5, <1>6

(***************************************************************************)
(* A dictionary that gains nothing, over the same chain.                   *)
(***************************************************************************)
LEMMA LetsGoStays ==
  ASSUME RecordsInv, NEW n \in Node, LetsGo(n), SameFiles, KeepWaiting(n), chain'[n] = chain[n],
         file_hashes'[n] \subseteq file_hashes[n], overtaken[n] \subseteq overtaken'[n]
  PROVE  LetsGo(n)'
<1> SUFFICES ASSUME NEW x \in Doubled(n)' PROVE x \in overtaken'[n] \/ Awaited(n, x)'
  BY DEF LetsGo
<1>1. /\ \A i \in DOMAIN chain[n] : files'[chain[n][i].hash] = files[chain[n][i].hash]
      /\ \A k \in DOMAIN waiting[n] : waiting[n][k].kind = "new_block"
           => files'[waiting[n][k].data.hash] = files[waiting[n][k].data.hash]
  BY HashesMade DEF SameFiles
<1>2. x \in Doubled(n)
  BY <1>1 DEF Doubled
<1>3. CASE x \in overtaken[n]
  BY <1>3
<1>4. CASE Awaited(n, x)
  <2>1. PICK k \in DOMAIN waiting[n] :
          \/ waiting[n][k].kind = "chain"
          \/ waiting[n][k].kind = "new_block" /\ x \in files[waiting[n][k].data.hash]
    BY <1>4 DEF Awaited
  <2>2. PICK j \in DOMAIN waiting'[n] : waiting'[n][j] = waiting[n][k]
    BY <2>1 DEF KeepWaiting
  <2> QED BY <1>1, <2>1, <2>2 DEF Awaited
<1> QED BY <1>2, <1>3, <1>4 DEF LetsGo

LEMMA OwnShrinks ==
  ASSUME OwnFiles, minted' = minted, files' = files, seen_files' = seen_files,
         \A n \in Node : /\ file_hashes'[n] \subseteq file_hashes[n]
                         /\ copied'[n] \subseteq copied[n] \cup file_hashes[n]
  PROVE  OwnFiles'
<1>1. ASSUME NEW n \in Node, NEW i \in DOMAIN minted PROVE Spent(n, i)'
  <2>1. Spent(n, i)
    BY DEF OwnFiles
  <2> QED BY <2>1 DEF Spent
<1> QED BY <1>1 DEF OwnFiles

(***************************************************************************)
(* A step of n that makes no block and hears of no file.                   *)
(***************************************************************************)
LEMMA FilesLocal ==
  ASSUME RecordsInv, FilesInv, NEW n \in Node,
         minted' = minted, files' = files, seen_files' = seen_files, DOMAIN overtaken' = Node,
         \A m \in Node : m # n => /\ chain'[m] = chain[m] /\ waiting'[m] = waiting[m]
                                  /\ file_hashes'[m] = file_hashes[m] /\ copied'[m] = copied[m]
                                  /\ overtaken'[m] = overtaken[m],
         file_hashes'[n] \subseteq file_hashes[n],
         copied'[n] \subseteq copied[n] \cup file_hashes[n],
         LetsGo(n)'
  PROVE  FilesInv'
<1>1. OwnFiles'
  BY OwnShrinks DEF FilesInv
<1>2. ASSUME NEW m \in Node, m # n PROVE LetsGo(m)'
  BY <1>2 DEF FilesInv, LetsGo, Doubled, Awaited
<1> QED BY <1>1, <1>2 DEF FilesInv

LEMMA FilesIdle ==
  ASSUME FilesInv,
         UNCHANGED <<chain, waiting, minted, file_hashes, seen_files, copied, files, overtaken>>
  PROVE  FilesInv'
<1>1. OwnFiles'
  BY OwnShrinks DEF FilesInv
<1>2. \A n \in Node : LetsGo(n)'
  BY DEF FilesInv, LetsGo, Doubled, Awaited
<1> QED BY <1>1, <1>2 DEF FilesInv

LEMMA CopiesLess ==
  ASSUME RecordsInv, NEW n \in Node, CopyFiles(n) \/ copied' = copied
  PROVE  /\ copied'[n] \subseteq copied[n] \cup file_hashes[n]
         /\ \A m \in Node : m # n => copied'[m] = copied[m]
<1>1. copied \in [Node -> SUBSET Cid]
  BY DEF RecordsInv, Lists
<1>2. \/ copied' = [copied EXCEPT ![n] = {}]
      \/ copied' = [copied EXCEPT ![n] = file_hashes[n]]
      \/ copied' = [copied EXCEPT ![n] = copied[n]]
      \/ copied' = copied
  BY DEF CopyFiles
<1> QED BY <1>1, <1>2

LEMMA ParkKeeps ==
  ASSUME RecordsInv, NEW n \in Node, NEW kind, NEW c, NEW data, Park(n, kind, c, data)
  PROVE  /\ KeepWaiting(n)
         /\ \A m \in Node : m # n => waiting'[m] = waiting[m]
         /\ \E j \in DOMAIN waiting'[n] :
              waiting'[n][j] = [kind |-> kind, conn |-> c, data |-> data]
<1>1. PICK w : w = [kind |-> kind, conn |-> c, data |-> data]
  OBVIOUS
<1>2. waiting' = [waiting EXCEPT ![n] = Append(@, w)] /\ DOMAIN waiting = Node
  BY <1>1 DEF Park, RecordsInv, Lists
<1>3. PICK W : waiting[n] \in Seq(W)
  BY DEF RecordsInv, PeerGood
<1>4. /\ Len(waiting[n]) + 1 \in DOMAIN waiting'[n]
      /\ waiting'[n][Len(waiting[n]) + 1] = w
      /\ \A k \in DOMAIN waiting[n] : k \in DOMAIN waiting'[n] /\ waiting'[n][k] = waiting[n][k]
  BY <1>2, <1>3, AppendFacts
<1> QED BY <1>1, <1>2, <1>4 DEF KeepWaiting

(***************************************************************************)
(* n gets in line, or copies its dictionary, or neither.                   *)
(***************************************************************************)
LEMMA FilesLine ==
  ASSUME RecordsInv, FilesInv, NEW n \in Node,
         UNCHANGED <<chain, minted, file_hashes, seen_files, files, overtaken>>,
         waiting' = waiting \/ \E kind, c, data : Park(n, kind, c, data),
         CopyFiles(n) \/ copied' = copied
  PROVE  FilesInv'
<1>1. /\ KeepWaiting(n)
      /\ \A m \in Node : m # n => waiting'[m] = waiting[m]
  <2>1. CASE waiting' = waiting
    BY <2>1 DEF KeepWaiting
  <2> QED BY <2>1, ParkKeeps
<1>2. /\ copied'[n] \subseteq copied[n] \cup file_hashes[n]
      /\ \A m \in Node : m # n => copied'[m] = copied[m]
  BY CopiesLess
<1>3. LetsGo(n)'
  BY <1>1, LetsGoStays DEF FilesInv, SameFiles
<1> QED BY <1>1, <1>2, <1>3, FilesLocal DEF FilesInv

(***************************************************************************)
(* A file that n had not heard of is none it has recorded.                 *)
(***************************************************************************)
LEMMA FilesTaken ==
  ASSUME RecordsInv, FilesInv, NEW n \in Node, NEW cid, cid \notin seen_files[n], TakeUp(n, cid),
         UNCHANGED <<chain, waiting, minted, copied, files>>
  PROVE  FilesInv'
<1>1. /\ DOMAIN seen_files = Node /\ DOMAIN file_hashes = Node /\ DOMAIN overtaken = Node
  BY DEF RecordsInv, Lists, FilesInv
<1>2. /\ seen_files'[n] = seen_files[n] \cup {cid} /\ file_hashes'[n] = file_hashes[n] \cup {cid}
      /\ overtaken'[n] = overtaken[n] \cup ({cid} \cap InChainFiles(chain[n]))
      /\ \A m \in Node : m # n => /\ seen_files'[m] = seen_files[m]
                                  /\ file_hashes'[m] = file_hashes[m]
                                  /\ overtaken'[m] = overtaken[m]
      /\ DOMAIN overtaken' = Node
  <2> HIDE DEF InChainFiles
  <2> QED BY <1>1 DEF TakeUp
<1>3. OwnFiles'
  <2>1. ASSUME NEW m \in Node, NEW i \in DOMAIN minted PROVE Spent(m, i)'
    <3>1. Spent(m, i)
      BY DEF FilesInv, OwnFiles
    <3>2. CASE m = n
      BY <1>2, <3>1, <3>2 DEF Spent
    <3>3. CASE m # n
      BY <1>2, <3>1, <3>3 DEF Spent
    <3> QED BY <3>2, <3>3
  <2>2. ASSUME NEW m \in Node PROVE file_hashes'[m] \cup copied'[m] \subseteq seen_files'[m]
    <3>1. file_hashes[m] \cup copied[m] \subseteq seen_files[m]
      BY DEF FilesInv, OwnFiles
    <3>2. CASE m = n
      BY <1>2, <3>1, <3>2
    <3>3. CASE m # n
      BY <1>2, <3>1, <3>3
    <3> QED BY <3>2, <3>3
  <2> QED BY <2>1, <2>2 DEF FilesInv, OwnFiles
<1>4. LetsGo(n)'
  <2> SUFFICES ASSUME NEW x \in Doubled(n)' PROVE x \in overtaken'[n] \/ Awaited(n, x)'
    BY DEF LetsGo
  <2>1. CASE x = cid
    <3>1. \E i \in DOMAIN chain[n] : cid \in files[chain[n][i].hash]
      BY <2>1 DEF Doubled
    <3>2. cid \in InChainFiles(chain[n])
      BY <3>1 DEF InChainFiles
    <3> HIDE DEF InChainFiles
    <3> QED BY <1>2, <2>1, <3>2
  <2>2. CASE x # cid
    <3>1. x \in Doubled(n)
      BY <1>2, <2>2 DEF Doubled
    <3>2. Awaited(n, x) => Awaited(n, x)'
      BY DEF Awaited
    <3> QED BY <1>2, <3>1, <3>2 DEF FilesInv, LetsGo
  <2> QED BY <2>1, <2>2
<1>5. ASSUME NEW m \in Node, m # n PROVE LetsGo(m)'
  BY <1>2, <1>5 DEF FilesInv, LetsGo, Doubled, Awaited
<1> QED BY <1>2, <1>3, <1>4, <1>5 DEF FilesInv

(***************************************************************************)
(* A block at the end of the chain: its files leave the dictionary, or a   *)
(* handler that will see to it is in line.                                 *)
(***************************************************************************)
LEMMA FilesBlock ==
  ASSUME RecordsInv, FilesInv, NEW c \in Conn, NEW n \in Node, NEW b,
         chain' = [chain EXCEPT ![n] = Append(@, b)],
         UNCHANGED <<minted, seen_files, copied, files, overtaken>>,
         \/ file_hashes' = pop_files(n, files[b.hash]) /\ UNCHANGED waiting
         \/ Park(n, "new_block", c, b) /\ UNCHANGED file_hashes
  PROVE  FilesInv'
<1>1. DOMAIN chain = Node /\ DOMAIN file_hashes = Node /\ chain[n] \in Seq(MadeBlock)
  BY DEF RecordsInv, Lists, PeerGood, MadeChain
<1>2. /\ chain'[n] = Append(chain[n], b)
      /\ \A m \in Node : m # n => chain'[m] = chain[m]
  BY <1>1
<1>3. \A i \in DOMAIN chain'[n] : chain'[n][i] = b \/ (i \in DOMAIN chain[n] /\ chain'[n][i] = chain[n][i])
  <2> HIDE DEF MadeBlock
  <2> QED BY <1>1, <1>2, AppendFacts
<1>4. CASE file_hashes' = pop_files(n, files[b.hash]) /\ UNCHANGED waiting
  <2>1. /\ file_hashes'[n] = file_hashes[n] \ files[b.hash]
        /\ \A m \in Node : m # n => file_hashes'[m] = file_hashes[m]
    BY <1>1, <1>4 DEF pop_files
  <2>2. LetsGo(n)'
    <3> SUFFICES ASSUME NEW x \in Doubled(n)' PROVE x \in overtaken'[n] \/ Awaited(n, x)'
      BY DEF LetsGo
    <3>1. x \in Doubled(n)
      BY <1>3, <2>1 DEF Doubled
    <3>2. Awaited(n, x) => Awaited(n, x)'
      BY <1>4 DEF Awaited
    <3> QED BY <3>1, <3>2 DEF FilesInv, LetsGo
  <2> QED BY <1>2, <1>4, <2>1, <2>2, FilesLocal DEF FilesInv
<1>5. CASE Park(n, "new_block", c, b) /\ UNCHANGED file_hashes
  <2>1. /\ KeepWaiting(n)
        /\ \A m \in Node : m # n => waiting'[m] = waiting[m]
        /\ \E j \in DOMAIN waiting'[n] :
             waiting'[n][j] = [kind |-> "new_block", conn |-> c, data |-> b]
    BY <1>5, ParkKeeps
  <2>2. LetsGo(n)'
    <3> SUFFICES ASSUME NEW x \in Doubled(n)' PROVE x \in overtaken'[n] \/ Awaited(n, x)'
      BY DEF LetsGo
    <3>1. CASE x \in files[b.hash]
      BY <2>1, <3>1 DEF Awaited
    <3>2. CASE x \notin files[b.hash]
      <4>1. x \in Doubled(n)
        BY <1>3, <1>5, <3>2 DEF Doubled
      <4>2. Awaited(n, x) => Awaited(n, x)'
        BY <2>1 DEF Awaited, KeepWaiting
      <4> QED BY <4>1, <4>2 DEF FilesInv, LetsGo
    <3> QED BY <3>1, <3>2
  <2> QED BY <1>2, <1>5, <2>1, <2>2, FilesLocal DEF FilesInv
<1> QED BY <1>4, <1>5

(***************************************************************************)
(* A chain takes its files out of the dictionary, now or when its handler  *)
(* gets the lock; what a first chain leaves there is overtaken.            *)
(***************************************************************************)
LEMMA FilesChain ==
  ASSUME RecordsInv, FilesInv, NEW c \in Conn, NEW n \in Node, NEW d,
         chain' = [chain EXCEPT ![n] = d],
         UNCHANGED <<minted, seen_files, copied, files>>,
         \/ /\ file_hashes' = pop_files(n, InChainFiles(d))
            /\ UNCHANGED <<waiting, overtaken>>
         \/ /\ Park(n, "chain", c, None)
            /\ UNCHANGED <<file_hashes, overtaken>>
         \/ /\ overtaken' = [overtaken EXCEPT ![n] = @ \cup (file_hashes[n] \cap InChainFiles(d))]
            /\ UNCHANGED <<waiting, file_hashes>>
  PROVE  FilesInv'
<1>1. DOMAIN chain = Node /\ DOMAIN file_hashes = Node /\ DOMAIN overtaken = Node
  BY DEF RecordsInv, Lists, FilesInv
<1>2. /\ chain'[n] = d
      /\ \A m \in Node : m # n => chain'[m] = chain[m]
  BY <1>1
<1>3. Doubled(n)' = file_hashes'[n] \cap InChainFiles(d)
  BY <1>2 DEF Doubled, InChainFiles
<1> HIDE DEF InChainFiles
<1>4. CASE file_hashes' = pop_files(n, InChainFiles(d)) /\ UNCHANGED <<waiting, overtaken>>
  <2>1. /\ file_hashes'[n] = file_hashes[n] \ InChainFiles(d)
        /\ \A m \in Node : m # n => file_hashes'[m] = file_hashes[m]
    BY <1>1, <1>4 DEF pop_files
  <2>2. LetsGo(n)'
    BY <1>3, <2>1 DEF LetsGo
  <2> QED BY <1>1, <1>2, <1>4, <2>1, <2>2, FilesLocal
<1>5. CASE Park(n, "chain", c, None) /\ UNCHANGED <<file_hashes, overtaken>>
  <2>1. /\ \A m \in Node : m # n => waiting'[m] = waiting[m]
        /\ \E j \in DOMAIN waiting'[n] :
             waiting'[n][j] = [kind |-> "chain", conn |-> c, data |-> None]
    BY <1>5, ParkKeeps
  <2>2. LetsGo(n)'
    BY <2>1 DEF LetsGo, Awaited
  <2> QED BY <1>1, <1>2, <1>5, <2>1, <2>2, FilesLocal
<1>6. CASE /\ overtaken' = [overtaken EXCEPT ![n] = @ \cup (file_hashes[n] \cap InChainFiles(d))]
           /\ UNCHANGED <<waiting, file_hashes>>
  <2>1. /\ overtaken'[n] = overtaken[n] \cup (file_hashes[n] \cap InChainFiles(d))
        /\ \A m \in Node : m # n => overtaken'[m] = overtaken[m]
        /\ DOMAIN overtaken' = Node
    BY <1>1, <1>6
  <2>2. LetsGo(n)'
    BY <1>3, <1>6, <2>1 DEF LetsGo
  <2> QED BY <1>1, <1>2, <1>6, <2>1, <2>2, FilesLocal
<1> QED BY <1>4, <1>5, <1>6

(***************************************************************************)
(* The first in line gets the lock.                                        *)
(***************************************************************************)
LEMMA FilesResume ==
  ASSUME RecordsInv, FilesInv, NEW n \in Node, ResumeWaiter(n)
  PROVE  FilesInv'
<1>1. PICK w : w = Head(waiting[n])
  OBVIOUS
<1>2. /\ waiting[n] # << >> /\ waiting' = [waiting EXCEPT ![n] = Tail(@)] /\ CopyFiles(n)
      /\ UNCHANGED <<chain, minted, seen_files, files, overtaken>>
      /\ DOMAIN waiting = Node /\ DOMAIN file_hashes = Node
  BY DEF ResumeWaiter, Resume, RecordsInv, Lists
<1>3. PICK W : waiting[n] \in Seq(W)
  BY DEF RecordsInv, PeerGood
<1>4. /\ waiting'[n] = Tail(waiting[n])
      /\ \A m \in Node : m # n => waiting'[m] = waiting[m]
  BY <1>2
<1>5. /\ 1 \in DOMAIN waiting[n] /\ w = waiting[n][1]
      /\ \A k \in DOMAIN waiting[n] : k # 1 =>
           k - 1 \in DOMAIN waiting'[n] /\ waiting'[n][k - 1] = waiting[n][k]
  BY <1>1, <1>2, <1>3, <1>4
<1>6. /\ copied'[n] \subseteq copied[n] \cup file_hashes[n]
      /\ \A m \in Node : m # n => copied'[m] = copied[m]
  BY <1>2, CopiesLess
<1>7. \/ w.kind = "new_block" /\ file_hashes' = pop_files(n, files[w.data.hash])
      \/ w.kind = "chain" /\ file_hashes' = pop_files(n, InChainFiles(chain[n]))
      \/ w.kind \notin {"new_block", "chain"} /\ file_hashes' = file_hashes
  <2> HIDE DEF InChainFiles, pop_files
  <2> QED BY <1>1 DEF ResumeWaiter
<1>8. /\ file_hashes'[n] \subseteq file_hashes[n]
      /\ \A m \in Node : m # n => file_hashes'[m] = file_hashes[m]
  <2> HIDE DEF InChainFiles
  <2> QED BY <1>2, <1>7 DEF pop_files
<1>9. LetsGo(n)'
  <2>1. CASE w.kind = "new_block" /\ file_hashes' = pop_files(n, files[w.data.hash])
    <3>1. file_hashes'[n] = file_hashes[n] \ files[w.data.hash]
      BY <1>2, <2>1 DEF pop_files
    <3> SUFFICES ASSUME NEW x \in Doubled(n)' PROVE x \in overtaken'[n] \/ Awaited(n, x)'
      BY DEF LetsGo
    <3>2. x \in Doubled(n) /\ x \notin files[w.data.hash]
      BY <1>2, <3>1 DEF Doubled
    <3>3. CASE x \in overtaken[n]
      BY <1>2, <3>3
    <3>4. CASE Awaited(n, x)
      <4>1. PICK k \in DOMAIN waiting[n] :
              \/ waiting[n][k].kind = "chain"
              \/ waiting[n][k].kind = "new_block" /\ x \in files[waiting[n][k].data.hash]
        BY <3>4 DEF Awaited
      <4>2. k # 1
        BY <1>5, <2>1, <3>2, <4>1
      <4>3. k - 1 \in DOMAIN waiting'[n] /\ waiting'[n][k - 1] = waiting[n][k]
        BY <1>5, <4>2
      <4> QED BY <1>2, <4>1, <4>3 DEF Awaited
    <3> QED BY <3>2, <3>3, <3>4 DEF FilesInv, LetsGo
  <2>2. CASE w.kind = "chain" /\ file_hashes' = pop_files(n, InChainFiles(chain[n]))
    <3>1. file_hashes'[n] = file_hashes[n] \ InChainFiles(chain[n])
      <4> HIDE DEF InChainFiles
      <4> QED BY <1>2, <2>2 DEF pop_files
    <3>2. Doubled(n)' = {}
      BY <1>2, <3>1 DEF Doubled, InChainFiles
    <3> QED BY <3>2 DEF LetsGo
  <2>3. CASE w.kind \notin {"new_block", "chain"} /\ file_hashes' = file_hashes
    <3>1. KeepWaiting(n)
      BY <1>5, <2>3 DEF KeepWaiting
    <3> QED BY <1>2, <2>3, <3>1, LetsGoStays DEF FilesInv, SameFiles
  <2> QED BY <1>7, <2>1, <2>2, <2>3
<1> QED BY <1>2, <1>4, <1>6, <1>8, <1>9, FilesLocal DEF FilesInv

(***************************************************************************)
(* A block that is made takes its copy out of the dictionary, and no       *)
(* earlier one of its miner had any of it.                                 *)
(***************************************************************************)
LEMMA FilesMint ==
  ASSUME RecordsInv, FilesInv, NEW n \in Node, mining[n] # None, NEW b,
         b.hash = Len(minted), b.miner = n,
         chain' = [chain EXCEPT ![n] = Append(@, b)], minted' = Append(minted, b),
         mining' = [mining EXCEPT ![n] = None],
         files' = [files EXCEPT ![Len(minted)] = copied[n]],
         file_hashes' = pop_files(n, copied[n]), CopyFiles(n),
         UNCHANGED <<waiting, seen_files, overtaken>>
  PROVE  FilesInv'
<1> DEFINE L == Len(minted)
<1>1. /\ DOMAIN chain = Node /\ DOMAIN file_hashes = Node /\ DOMAIN mining = Node
      /\ DOMAIN files = 0..MaxBlocks /\ copied \in [Node -> SUBSET Cid]
      /\ chain[n] \in Seq(MadeBlock) /\ minted \in Seq(RecordsBlock) /\ Bounded
  BY DEF RecordsInv, Lists, PeerGood, MadeChain, MadeInOrder
<1>2. L \in Nat /\ DOMAIN minted = 1..L
  <2> HIDE DEF RecordsBlock
  <2> QED BY <1>1
<1>3. L \in 0..MaxBlocks
  <2>1. Len(minted) \in Nat
    BY <1>2
  <2>2. Len(minted) <= MaxBlocks
    BY <1>1, <2>1, MintedBound
  <2> QED BY <2>1, <2>2, NetworkAssumption
<1>4. files'[L] = copied[n] /\ \A h : h # L => files'[h] = files[h]
  BY <1>1, <1>3
<1>5. SameFiles
  <2>1. ASSUME NEW h \in 0..(Len(minted) - 1) PROVE files'[h] = files[h]
    <3>1. PICK k \in Nat : k = Len(minted)
      BY <1>2
    <3>2. h \in 0..(k - 1)
      BY <3>1
    <3>3. h # k
      BY <3>2
    <3> QED BY <1>4, <3>1, <3>3
  <2> QED BY <2>1 DEF SameFiles
<1>6. /\ DOMAIN minted' = DOMAIN minted \cup {L + 1} /\ minted'[L + 1] = b
      /\ \A i \in DOMAIN minted : minted'[i] = minted[i] /\ i - 1 # L /\ i # L + 1
  <2>1. /\ DOMAIN minted' = DOMAIN minted \cup {L + 1} /\ minted'[L + 1] = b
        /\ \A i \in DOMAIN minted : minted'[i] = minted[i]
    <3> HIDE DEF RecordsBlock
    <3> QED BY <1>1, AppendFacts
  <2> QED BY <1>2, <2>1
<1>7. /\ file_hashes'[n] = file_hashes[n] \ copied[n]
      /\ \A m \in Node : m # n => file_hashes'[m] = file_hashes[m]
  BY <1>1 DEF pop_files
<1>8. /\ copied'[n] = {}
      /\ \A m \in Node : m # n => copied'[m] = copied[m]
  <2>1. mining'[n] = None
    BY <1>1
  <2>2. copied' = [copied EXCEPT ![n] = {}]
    BY <2>1 DEF CopyFiles
  <2> QED BY <1>1, <2>2
<1>9. /\ chain'[n] = Append(chain[n], b)
      /\ \A m \in Node : m # n => chain'[m] = chain[m]
  BY <1>1
<1>10. (L + 1) - 1 = L
  BY <1>2
<1> HIDE DEF L
<1>11. \A i \in DOMAIN minted : files'[i - 1] = files[i - 1]
  BY <1>4, <1>6
<1>12. \A i \in DOMAIN minted : Spent(n, i)
  BY DEF FilesInv, OwnFiles
<1>13. ASSUME NEW i \in DOMAIN minted, minted[i].miner = n
       PROVE  files'[i - 1] \cap files'[L] = {}
  BY <1>4, <1>11, <1>12, <1>13 DEF Spent
<1>14. ASSUME NEW i \in DOMAIN minted', NEW j \in DOMAIN minted',
              minted'[i].miner = minted'[j].miner, i # j
       PROVE  files'[i - 1] \cap files'[j - 1] = {}
  <2>1. CASE i \in DOMAIN minted /\ j \in DOMAIN minted
    BY <1>6, <1>11, <1>14, <2>1 DEF FilesInv, OwnFiles
  <2>2. CASE i \in DOMAIN minted /\ j = L + 1
    BY <1>6, <1>10, <1>13, <1>14, <2>2
  <2>3. CASE i = L + 1 /\ j \in DOMAIN minted
    <3>1. files'[j - 1] \cap files'[i - 1] = {}
      BY <1>6, <1>10, <1>13, <1>14, <2>3
    <3> QED BY <3>1
  <2> QED BY <1>6, <1>14, <2>1, <2>2, <2>3
<1>15. ASSUME NEW m \in Node PROVE file_hashes'[m] \cup copied'[m] \subseteq seen_files'[m]
  <2>1. file_hashes[m] \cup copied[m] \subseteq seen_files[m]
    BY DEF FilesInv, OwnFiles
  <2>2. CASE m = n
    BY <1>7, <1>8, <2>1, <2>2
  <2>3. CASE m # n
    BY <1>7, <1>8, <2>1, <2>3
  <2> QED BY <2>2, <2>3
<1>16. ASSUME NEW m \in Node, NEW i \in DOMAIN minted' PROVE Spent(m, i)'
  <2>1. CASE i \in DOMAIN minted
    <3>1. Spent(m, i) /\ minted'[i] = minted[i] /\ files'[i - 1] = files[i - 1]
      BY <1>6, <1>11, <2>1 DEF FilesInv, OwnFiles
    <3>2. CASE m = n
      BY <1>7, <1>8, <3>1, <3>2 DEF Spent
    <3>3. CASE m # n
      BY <1>7, <1>8, <3>1, <3>3 DEF Spent
    <3> QED BY <3>2, <3>3
  <2>2. CASE i = L + 1
    <3>1. minted'[i].miner = n /\ files'[i - 1] = copied[n]
      BY <1>4, <1>6, <1>10, <2>2
    <3>2. CASE m = n
      <4>1. copied[n] \subseteq seen_files[n]
        BY DEF FilesInv, OwnFiles
      <4> QED BY <1>7, <1>8, <3>1, <3>2, <4>1 DEF Spent
    <3> QED BY <3>1, <3>2 DEF Spent
  <2> QED BY <1>6, <2>1, <2>2
<1>17. OwnFiles'
  BY <1>14, <1>15, <1>16 DEF OwnFiles
<1>18. KeepWaiting(n)
  BY DEF KeepWaiting
<1>19. LetsGo(n)'
  <2> SUFFICES ASSUME NEW x \in Doubled(n)' PROVE x \in overtaken'[n] \/ Awaited(n, x)'
    BY DEF LetsGo
  <2>1. x \in file_hashes[n] /\ x \notin copied[n]
    BY <1>7 DEF Doubled
  <2>2. PICK i \in DOMAIN chain'[n] : x \in files'[chain'[n][i].hash]
    BY DEF Doubled
  <2>3. i \in DOMAIN chain[n] /\ chain'[n][i] = chain[n][i]
    <3>1. \/ i \in DOMAIN chain[n] /\ chain'[n][i] = chain[n][i]
          \/ chain'[n][i] = b
      <4> HIDE DEF MadeBlock
      <4> QED BY <1>1, <1>9, AppendFacts
    <3>2. chain'[n][i] # b
      BY <1>4, <2>1, <2>2 DEF L
    <3> QED BY <3>1, <3>2
  <2>4. files'[chain[n][i].hash] = files[chain[n][i].hash]
    BY <1>5, <2>3, HashesMade DEF SameFiles
  <2>5. x \in Doubled(n)
    BY <2>1, <2>2, <2>3, <2>4 DEF Doubled
  <2>6. Awaited(n, x) => Awaited(n, x)'
    <3>1. \A k \in DOMAIN waiting[n] : waiting[n][k].kind = "new_block"
            => files'[waiting[n][k].data.hash] = files[waiting[n][k].data.hash]
      BY <1>5, HashesMade DEF SameFiles
    <3> QED BY <3>1 DEF Awaited
  <2> QED BY <2>5, <2>6 DEF FilesInv, LetsGo
<1>20. ASSUME NEW m \in Node, m # n PROVE LetsGo(m)'
  <2>1. KeepWaiting(m) /\ chain'[m] = chain[m] /\ file_hashes'[m] \subseteq file_hashes[m]
        /\ overtaken[m] \subseteq overtaken'[m] /\ LetsGo(m)
    BY <1>7, <1>9, <1>20 DEF KeepWaiting, FilesInv
  <2> QED BY <1>5, <2>1, LetsGoStays
<1> QED BY <1>17, <1>19, <1>20 DEF FilesInv

LEMMA FilesEnd ==
  ASSUME RecordsInv, FilesInv, NEW n \in Node, EndMining(n)
  PROVE  FilesInv'
<1>1. PICK b : b = [hash |-> Len(minted), prevHash |-> mining[n].prevHash,
                    transactions |-> mining[n].transactions, miner |-> n]
  OBVIOUS
<1>2. /\ mining[n] # None /\ mining' = [mining EXCEPT ![n] = None] /\ CopyFiles(n)
      /\ UNCHANGED <<waiting, seen_files, overtaken>>
  BY DEF EndMining, MiningEnds
<1>3. CASE chain' = [chain EXCEPT ![n] = Append(@, b)] /\ minted' = Append(minted, b)
  <2>1. minted' # minted
    <3>1. minted \in Seq(RecordsBlock)
      BY DEF RecordsInv, MadeInOrder
    <3>2. Len(minted') = Len(minted) + 1 /\ Len(minted) \in Nat
      <4> HIDE DEF RecordsBlock
      <4> QED BY <1>3, <3>1
    <3> QED BY <3>2
  <2>2. /\ files' = [files EXCEPT ![Len(minted)] = copied[n]]
        /\ file_hashes' = pop_files(n, copied[n])
    BY <2>1 DEF EndMining
  <2>3. b.hash = Len(minted) /\ b.miner = n
    BY <1>1
  <2> QED BY <1>2, <1>3, <2>2, <2>3, FilesMint
<1>4. CASE UNCHANGED <<chain, minted>>
  <2>1. UNCHANGED <<files, file_hashes>>
    BY <1>4 DEF EndMining
  <2> QED BY <1>2, <1>4, <2>1, FilesLine
<1> QED BY <1>1, <1>3, <1>4 DEF EndMining, MiningEnds

LEMMA FilesPeer ==
  ASSUME RecordsInv, FilesInv, NEW n \in Node,
         \/ deploy(n)
         \/ \E contract \in contractsDB[n] \cup 1..created : invoke(n, contract)
         \/ \E cid \in Cid : uploadFile(n, cid)
         \/ upload_missing(n)
         \/ \E task \in live[n] : WakeMiner(n, task)
         \/ EndMining(n)
         \/ CancelMining(n)
         \/ ResumeWaiter(n)
         \/ find_longest_chain(n) /\ UNCHANGED records
  PROVE  FilesInv'
<1>1. ASSUME NEW rec, NEW amt, create_and_broadcast_tx(n, rec, amt),
             UNCHANGED <<peerRecords, files, overtaken>>
      PROVE  FilesInv'
  <2>1. /\ UNCHANGED <<chain, minted>>
        /\ waiting' = waiting \/ \E kind, c, data : Park(n, kind, c, data)
    BY <1>1 DEF create_and_broadcast_tx
  <2> QED BY <1>1, <2>1, FilesLine DEF peerRecords
<1>2. CASE deploy(n)
  BY <1>1, <1>2 DEF deploy
<1>3. CASE \E contract \in contractsDB[n] \cup 1..created : invoke(n, contract)
  BY <1>1, <1>3 DEF invoke
<1>4. CASE \E cid \in Cid : uploadFile(n, cid)
  BY <1>4, FilesTaken DEF uploadFile
<1>5. CASE upload_missing(n)
  BY <1>5, FilesIdle DEF upload_missing, peerRecords
<1>6. CASE \E task \in live[n] : WakeMiner(n, task)
  BY <1>6, FilesLine DEF WakeMiner, MinerWakes
<1>7. CASE CancelMining(n)
  BY <1>7, FilesLine DEF CancelMining, MiningCancelled
<1>8. CASE find_longest_chain(n) /\ UNCHANGED records
  BY <1>8, FilesIdle DEF find_longest_chain, records, peerRecords
<1> QED BY <1>2, <1>3, <1>4, <1>5, <1>6, <1>7, <1>8, FilesEnd, FilesResume

LEMMA FilesHandle ==
  ASSUME RecordsInv, FilesInv, NEW c \in Conn, NEW n \in Ends(c), HandleAny(c, n)
  PROVE  FilesInv'
<1>1. n \in Node
  BY EndsAreNodes
<1>2. ASSUME NEW msg, NEW tx, Refuse(c, n, msg, tx) PROVE FilesInv'
  BY <1>2, FilesIdle DEF Refuse, records, peerRecords
<1>3. CASE HandleTransaction(c, n)
  <2>1. ASSUME HandleNewTx(c, n), UNCHANGED records PROVE FilesInv'
    <3>1. /\ UNCHANGED <<chain, minted>>
          /\ waiting' = waiting \/ \E kind, d, data : Park(n, kind, d, data)
      BY <2>1 DEF HandleNewTx
    <3> QED BY <1>1, <2>1, <3>1, FilesLine DEF records, peerRecords
  <2> QED BY <1>2, <1>3, <2>1 DEF HandleTransaction
<1>4. CASE HandleBlock(c, n)
  <2>1. PICK b : b = Head(inbox[c][n]).block
    OBVIOUS
  <2>2. \/ \E msg, tx : Refuse(c, n, msg, tx)
        \/ UNCHANGED <<chain, waiting, minted, file_hashes, seen_files, copied, files, overtaken>>
        \/ /\ chain' = [chain EXCEPT ![n] = Append(@, b)]
           /\ UNCHANGED <<minted, seen_files, copied, files, overtaken>>
           /\ \/ file_hashes' = pop_files(n, files[b.hash]) /\ UNCHANGED waiting
              \/ Park(n, "new_block", c, b) /\ UNCHANGED file_hashes
    BY <1>4, <2>1 DEF HandleBlock, HandleNewBlock
  <2> QED BY <1>1, <1>2, <2>2, FilesIdle, FilesBlock
<1>5. CASE HandleChainMessage(c, n)
  <2>1. PICK bl : bl = Head(inbox[c][n]).chain
    OBVIOUS
  <2>2. UNCHANGED <<minted, seen_files, copied, files>>
    BY <1>5 DEF HandleChainMessage, HandleChain
  <2>3. DOMAIN overtaken = Node /\ DOMAIN chain = Node
    BY DEF RecordsInv, Lists, FilesInv
  <2>4. CASE ~ isvalidChain(bl)
    <3>1. UNCHANGED <<chain, waiting, file_hashes>>
      BY <1>5, <2>1, <2>4 DEF HandleChainMessage, HandleChain
    <3>2. /\ overtaken'[n] = overtaken[n] /\ DOMAIN overtaken' = Node
          /\ \A m \in Node : m # n => overtaken'[m] = overtaken[m]
      <4>1. CASE chain[n] # << >>
        BY <1>5, <2>3, <4>1 DEF HandleChainMessage
      <4>2. CASE chain[n] = << >>
        <5>1. InChainFiles(chain'[n]) = {}
          BY <3>1, <4>2 DEF InChainFiles
        <5>2. overtaken' = [overtaken EXCEPT ![n] = @ \cup (file_hashes[n] \cap {})]
          BY <1>5, <4>2, <5>1 DEF HandleChainMessage
        <5> QED BY <1>1, <2>3, <5>2
      <4> QED BY <4>1, <4>2
    <3>3. LetsGo(n)'
      BY <1>1, <2>2, <3>1, <3>2 DEF FilesInv, LetsGo, Doubled, Awaited
    <3> QED BY <1>1, <2>2, <3>1, <3>2, <3>3, FilesLocal
  <2>5. CASE isvalidChain(bl) /\ chain[n] = << >>
    <3>1. /\ chain' = [chain EXCEPT ![n] = bl] /\ UNCHANGED <<waiting, file_hashes>>
          /\ overtaken' = [overtaken EXCEPT ![n] = @ \cup (file_hashes[n] \cap InChainFiles(chain'[n]))]
      BY <1>5, <2>1, <2>5 DEF HandleChainMessage, HandleChain
    <3>2. chain'[n] = bl
      BY <1>1, <2>3, <3>1
    <3> HIDE DEF InChainFiles
    <3> QED BY <1>1, <2>2, <3>1, <3>2, FilesChain
  <2>6. CASE isvalidChain(bl) /\ chain[n] # << >>
    <3>1. PICK d : d = rewrite(chain[n], bl)
      OBVIOUS
    <3>2. /\ chain' = [chain EXCEPT ![n] = d] /\ UNCHANGED overtaken
          /\ \/ LockIsFree(n) /\ UNCHANGED waiting
             \/ ~ LockIsFree(n) /\ Park(n, "chain", c, None)
          /\ file_hashes' = IF LockIsFree(n) THEN pop_files(n, InChainFiles(chain'[n]))
                                             ELSE file_hashes
      BY <1>5, <2>1, <2>6, <3>1 DEF HandleChainMessage, HandleChain
    <3>3. chain'[n] = d
      BY <1>1, <2>3, <3>2
    <3> HIDE DEF InChainFiles, pop_files, LockIsFree, Park
    <3> QED BY <1>1, <2>2, <3>2, <3>3, FilesChain
  <2> QED BY <2>4, <2>5, <2>6
<1>6. CASE HandleChainRequest(c, n) /\ UNCHANGED records
  BY <1>6, FilesIdle DEF HandleChainRequest, records, peerRecords
<1>7. CASE HandleFile(c, n)
  <2>1. PICK cid : cid = Head(inbox[c][n]).cid
    OBVIOUS
  <2>2. UNCHANGED <<chain, waiting, minted, copied, files>>
    BY <1>7 DEF HandleFile
  <2> QED BY <1>1, <1>7, <2>1, <2>2, FilesTaken, FilesIdle DEF HandleFile
<1>8. CASE HandleNull(c, n)
  BY <1>8, FilesIdle DEF HandleNull, records, peerRecords
<1> QED BY <1>3, <1>4, <1>5, <1>6, <1>7, <1>8 DEF HandleAny

LEMMA FilesBegin == RecordsInit => FilesInv
<1> SUFFICES ASSUME RecordsInit PROVE FilesInv
  OBVIOUS
<1>1. /\ minted = <<genesis_block(Founder)>>
      /\ DOMAIN overtaken = Node
      /\ \A n \in Node : file_hashes[n] = {} /\ copied[n] = {} /\ seen_files[n] = {}
      /\ \A h \in 0..MaxBlocks : files[h] = {}
  BY DEF RecordsInit, Init
<1>2. DOMAIN minted = {1} /\ 0 \in 0..MaxBlocks /\ 1 - 1 = 0
  BY <1>1, NetworkAssumption
<1>3. \A i \in DOMAIN minted : files[i - 1] = {}
  BY <1>1, <1>2
<1>4. OwnFiles
  BY <1>1, <1>3 DEF OwnFiles, Spent
<1>5. \A n \in Node : LetsGo(n)
  BY <1>1 DEF LetsGo, Doubled
<1> QED BY <1>1, <1>4, <1>5 DEF FilesInv

LEMMA FilesStep == RecordsInv /\ FilesInv /\ [RecordsNext]_allVars => FilesInv'
<1> SUFFICES ASSUME RecordsInv, FilesInv, [RecordsNext]_allVars PROVE FilesInv'
  OBVIOUS
<1>1. CASE UNCHANGED allVars
  BY <1>1, FilesIdle DEF allVars, vars, records, peerRecords
<1>2. ASSUME NEW c \in Conn, Disconnect(c) \/ connect_to_peer(c), UNCHANGED records
      PROVE  FilesInv'
  BY <1>2, FilesIdle DEF Disconnect, connect_to_peer, records, peerRecords
<1>3. CASE RecordsNext
  BY <1>2, <1>3, FilesPeer, FilesHandle DEF RecordsNext
<1> QED BY <1>1, <1>3

LEMMA FilesAlways == RecordsSpec => [](RecordsInv /\ FilesInv)
BY RecordsKeep, FilesBegin, FilesStep, PTL DEF RecordsSpec

(***************************************************************************)
(* A peer that has done with every block and chain it was sent has let go  *)
(* of the files in its chain (FilesLetGo), for any peers and connections,  *)
(* forks and reorganisations included; what is left is what it took up     *)
(* when its chain recorded it already, or before its first chain.          *)
(***************************************************************************)
THEOREM RecordsFilesLetGo == RecordsSpec => []FilesLetGo
<1>1. FilesInv => FilesLetGo
  <2> SUFFICES ASSUME FilesInv, NEW n \in Node,
                      \A k \in DOMAIN waiting[n] : waiting[n][k].kind \notin {"new_block", "chain"},
                      NEW x \in file_hashes[n] \cap InChainFiles(chain[n])
               PROVE  x \in overtaken[n]
    BY DEF FilesLetGo
  <2>1. x \in Doubled(n)
    BY DEF Doubled, InChainFiles
  <2>2. ~ Awaited(n, x)
    BY DEF Awaited
  <2> QED BY <2>1, <2>2 DEF FilesInv, LetsGo
<1> QED BY <1>1, FilesAlways, PTL

(***************************************************************************)
(* No miner records a file in two blocks (RecordedOnce), whichever of its  *)
(* blocks end up in a chain: the copy it works with is taken from the      *)
(* dictionary under the lock, and leaves it with the block.                *)
(***************************************************************************)
THEOREM RecordsRecordedOnce == RecordsSpec => []RecordedOnce
<1>1. RecordsInv /\ FilesInv => RecordedOnce
  <2> SUFFICES ASSUME RecordsInv, FilesInv, NEW i \in DOMAIN minted, NEW j \in DOMAIN minted,
                      minted[i].miner = minted[j].miner,
                      files[minted[i].hash] \cap files[minted[j].hash] # {}
               PROVE  i = j
    BY DEF RecordedOnce
  <2>1. minted[i].hash = i - 1 /\ minted[j].hash = j - 1
    BY DEF RecordsInv, MadeInOrder
  <2> QED BY <2>1 DEF FilesInv, OwnFiles
<1> QED BY <1>1, FilesAlways, PTL
=============================================================================
