-------------------------- MODULE PosNetworkProofs --------------------------
(***************************************************************************)
(* Theorems about PosNetwork, for any peers, connections and bounds: its   *)
(* variables are well typed, what a peer staked is among the stakes it     *)
(* draws with, no chain holds a transaction twice, only who signed two     *)
(* blocks is slashed, and where nobody does the peers' steps are those of  *)
(* ChainReplica.                                                           *)
(***************************************************************************)
EXTENDS PosNetwork, LedgerProofs

-----------------------------------------------------------------------------
(***************************************************************************)
(* The inductive invariant.  K is the set of the transactions there are:   *)
(* no two have the same id, and none an id not yet given out.              *)
(***************************************************************************)

\* What a block keeps when its marks are set or it goes over the wire.
Base(b) == [hash |-> b.hash, prevHash |-> b.prevHash, creator |-> b.creator,
            transactions |-> b.transactions]

\* A block that was made.
Made(b) == \E i \in DOMAIN minted : Base(minted[i]) = Base(b)

\* Only who runs mal_node.py is marked as slashed.
KnownBlock(K) ==
  {b \in Block : /\ Made(b)
                 /\ b.transactions \in Seq(K) /\ DistinctIds(b.transactions)
                 /\ b.slash_creator => b.creator \in Faulty}

FirstHeader == [hash |-> 0, prevHash |-> None]

KnownChain(K) ==
  {c \in Seq(KnownBlock(K)) : Apart(c) /\ (c # << >> => Header(c[1]) = FirstHeader)}

\* An announced stake was seen by the peer that staked.
KnownStake == {stake \in Stake : /\ stake.staker \in Node
                                 /\ <<"stake", stake.id>> \in seen[stake.staker]}

\* Evidence is of blocks made by who runs mal_node.py.
Evidence == {minted[i].hash : i \in {j \in DOMAIN minted : minted[j].creator \in Faulty}}

KnownMsg(K) == [type : {"new_tx"}, transaction : K]
         \cup [type : {"stake_announcement"}, stake : KnownStake]
         \cup [type : {"new_block"}, block : KnownBlock(K)]
         \cup [type : {"slash_announcement"}, id : Nat, pos : Nat, evidence : SUBSET Evidence]
         \cup [type : {"chain_request"}]
         \cup [type : {"chain"}, chain : KnownChain(K)]

\* What is in the pools and on the way.
Sent(K) ==
  /\ mem_pool \in [Node -> Seq(K)]
  /\ inbox \in [Conn -> [Node -> Seq(KnownMsg(K))]]

TxInv(K) ==
  /\ K \in SUBSET Tx
  /\ UniqueIds(K)
  /\ \A t \in K : t.id <= count.txs
  /\ chain \in [Node -> KnownChain(K)]
  /\ Sent(K)

\* A pool holds nothing twice, and only what its peer marked as seen.
PoolInv ==
  \A n \in Node : /\ DistinctIds(mem_pool[n])
                  /\ \A i \in DOMAIN mem_pool[n] : <<"new_tx", mem_pool[n][i].id>> \in seen[n]

SeenInv == \A n \in Node : \A mark \in seen[n] : mark[1] = "new_tx" => mark[2] <= count.txs

MintedInOrder ==
  /\ minted \in Seq(Block) /\ minted # << >>
  /\ Header(minted[1]) = FirstHeader
  /\ \A i \in DOMAIN minted : minted[i].hash = i - 1 /\ minted[i].creator \in Node

\* What a peer keeps for itself.
LocalOK ==
  /\ seen \in [Node -> SUBSET Ids]
  /\ current_stakes \in [Node -> SUBSET Stake]
  /\ \A n \in Node : IsFiniteSet(current_stakes[n])
  /\ current_stakers \in [Node -> [Account -> Int]]
  /\ staked_amt \in [Node -> Int]
  /\ asked \in [Node -> (0..(Reset + 1)) \cup {None}]
  /\ up \in SUBSET Conn
  /\ count \in [txs : Nat, stakes : Nat, blocks : Nat, slashes : Nat]

TimesOK ==
  /\ age \in [Node -> 0..(Reset + 1)]
  /\ tasks \in [Node -> Seq(0..EPOCH_TIME)]
  /\ restart_in \in [Node -> 0..(EPOCH_TIME \div 2)]
  /\ request_in \in [Node -> 0..EPOCH_TIME]
  /\ since \in Seq(0..Oldest) /\ Len(since) = Len(minted)

\* A peer without a chain has nothing to do.
Idle(n) == asked[n] = None /\ tasks[n] = << >>

IdleInv == \A n \in Node : chain[n] = << >> => Idle(n)

\* Heights: a block is one above the block it was made on, wherever it is found; an
\* honest peer's own blocks are not above its chain, and one above the other.
Heights(H) ==
  /\ H \in [DOMAIN minted -> Nat]
  /\ H[1] = 1
  /\ \A i \in DOMAIN minted \ {1} :
       /\ minted[i].prevHash + 1 \in DOMAIN minted
       /\ minted[i].prevHash \in Nat
       /\ H[i] = H[minted[i].prevHash + 1] + 1
  /\ \A i \in DOMAIN minted :
       minted[i].creator \notin Faulty => H[i] <= Len(chain[minted[i].creator])
  /\ \A i, j \in DOMAIN minted :
       /\ minted[i].creator \notin Faulty
       /\ minted[i].creator = minted[j].creator
       /\ H[i] = H[j]
       => i = j

Links(c) == \A i \in 2..Len(c) : c[i].prevHash = c[i-1].hash

LinkedInv == \A n \in Node : Links(chain[n])

NetInv ==
  /\ LocalOK /\ TimesOK /\ IdleInv /\ MintedInOrder /\ SeenInv /\ PoolInv /\ LinkedInv
  /\ StakeCounted
  /\ \E H : Heights(H)
  /\ \E K \in SUBSET Tx : TxInv(K)

-----------------------------------------------------------------------------
(***************************************************************************)
(* Sending and reading.                                                    *)
(***************************************************************************)
LEMMA EndsAreNodes ==
  ASSUME NEW c \in Conn, NEW n \in Ends(c)
  PROVE  n \in Node /\ Other(c, n) \in Node
BY NetworkAssumption DEF Ends, Other

LEMMA SendType ==
  ASSUME NEW M, NEW msg \in M, NEW n \in Node, NEW over,
         NEW boxes \in [Conn -> [Node -> Seq(M)]]
  PROVE  send_over(n, over, msg, boxes) \in [Conn -> [Node -> Seq(M)]]
<1>1. ASSUME NEW c \in Conn, n \in Ends(c)
      PROVE  [boxes[c] EXCEPT ![Other(c, n)] = Append(@, msg)] \in [Node -> Seq(M)]
  <2>1. Other(c, n) \in Node
    BY <1>1, EndsAreNodes
  <2>2. boxes[c] \in [Node -> Seq(M)]
    OBVIOUS
  <2>3. Append(boxes[c][Other(c, n)], msg) \in Seq(M)
    BY <2>1, <2>2
  <2> QED BY <2>2, <2>3 DEF Ids
<1> QED BY <1>1 DEF send_over

LEMMA BroadcastType ==
  ASSUME NEW M, NEW msg \in M, NEW n \in Node,
         NEW boxes \in [Conn -> [Node -> Seq(M)]]
  PROVE  broadcast_message(n, msg, boxes) \in [Conn -> [Node -> Seq(M)]]
BY SendType DEF broadcast_message

LEMMA ReadType ==
  ASSUME NEW M, inbox \in [Conn -> [Node -> Seq(M)]],
         NEW c \in Conn, NEW n \in Node, inbox[c][n] # << >>
  PROVE  /\ Head(inbox[c][n]) \in M
         /\ Read(c, n) \in [Conn -> [Node -> Seq(M)]]
<1>1. inbox[c] \in [Node -> Seq(M)] /\ inbox[c][n] \in Seq(M)
  OBVIOUS
<1>2. Head(inbox[c][n]) \in M /\ Tail(inbox[c][n]) \in Seq(M)
  BY <1>1
<1>3. [inbox[c] EXCEPT ![n] = Tail(@)] \in [Node -> Seq(M)]
  BY <1>1, <1>2
<1> QED BY <1>2, <1>3 DEF Read

LEMMA HandlerFailsType ==
  ASSUME NEW M, inbox \in [Conn -> [Node -> Seq(M)]], up \in SUBSET Conn,
         NEW c \in Conn, NEW n \in Node, HandlerFails(c, n)
  PROVE  /\ inbox' \in [Conn -> [Node -> Seq(M)]]
         /\ up' \in SUBSET Conn
<1>1. inbox[c] \in [Node -> Seq(M)] /\ << >> \in Seq(M)
  OBVIOUS
<1>2. [inbox[c] EXCEPT ![n] = << >>] \in [Node -> Seq(M)]
  BY <1>1
<1> QED BY <1>2 DEF HandlerFails

(***************************************************************************)
(* What a message carries.                                                 *)
(***************************************************************************)
LEMMA MessageFields ==
  ASSUME NEW K, NEW msg \in KnownMsg(K)
  PROVE  /\ msg.type = "new_tx" => msg.transaction \in K
         /\ msg.type = "stake_announcement" => msg.stake \in KnownStake
         /\ msg.type = "new_block" => msg.block \in KnownBlock(K)
         /\ msg.type = "slash_announcement"
              => msg.id \in Nat /\ msg.pos \in Nat /\ msg.evidence \in SUBSET Evidence
         /\ msg.type = "chain" => msg.chain \in KnownChain(K)
BY DEF KnownMsg

LEMMA MarkType ==
  ASSUME NEW K \in SUBSET Tx, NEW msg \in KnownMsg(K),
         msg.type \notin {"chain_request", "chain"}
  PROVE  /\ MsgId(msg) \in Ids
         /\ msg.type # "new_tx" => MsgId(msg)[1] # "new_tx"
         /\ msg.type = "new_tx" => MsgId(msg) = <<"new_tx", msg.transaction.id>>
<1>1. CASE msg.type = "new_tx"
  <2>1. msg.transaction \in Tx
    BY <1>1, MessageFields
  <2>2. msg.transaction.id \in Nat
    BY <2>1 DEF Tx
  <2>3. MsgId(msg) = <<"new_tx", msg.transaction.id>>
    BY <1>1 DEF MsgId
  <2> QED BY <1>1, <2>2, <2>3 DEF Ids
<1>2. CASE msg.type = "stake_announcement"
  <2>1. msg.stake \in Stake
    BY <1>2, MessageFields DEF KnownStake
  <2>2. msg.stake.id \in Nat
    BY <2>1 DEF Stake
  <2>3. MsgId(msg) = <<"stake", msg.stake.id>>
    BY <1>2 DEF MsgId
  <2> QED BY <1>2, <2>2, <2>3 DEF Ids
<1>3. CASE msg.type = "new_block"
  <2>1. msg.block \in Block
    BY <1>3, MessageFields DEF KnownBlock
  <2>2. msg.block.hash \in Nat
    BY <2>1 DEF Block
  <2>3. MsgId(msg) = <<"new_block", msg.block.hash>>
    BY <1>3 DEF MsgId
  <2> QED BY <1>3, <2>2, <2>3 DEF Ids
<1>4. CASE msg.type = "slash_announcement"
  <2>1. msg.id \in Nat
    BY <1>4, MessageFields
  <2>2. MsgId(msg) = <<"slash", msg.id>>
    BY <1>4 DEF MsgId
  <2> QED BY <1>4, <2>1, <2>2 DEF Ids
<1> QED BY <1>1, <1>2, <1>3, <1>4 DEF KnownMsg

-----------------------------------------------------------------------------
(***************************************************************************)
(* Blocks are only added to those made, and messages to those seen; what   *)
(* was known stays known.                                                  *)
(***************************************************************************)
Grows ==
  /\ DOMAIN minted \subseteq DOMAIN minted'
  /\ \A i \in DOMAIN minted : minted'[i] = minted[i]
  /\ \A n \in Node : seen[n] \subseteq seen'[n]

LEMMA KnownGrows ==
  ASSUME NEW K, NEW L, K \subseteq L, Grows
  PROVE  /\ KnownBlock(K) \subseteq KnownBlock(L)'
         /\ KnownChain(K) \subseteq KnownChain(L)'
         /\ KnownMsg(K) \subseteq KnownMsg(L)'
<1>1. Seq(K) \subseteq Seq(L)
  OBVIOUS
<1>2. \A b : Made(b) => Made(b)'
  BY DEF Grows, Made
<1>3. KnownBlock(K) \subseteq KnownBlock(L)'
  BY <1>1, <1>2 DEF KnownBlock
<1>4. KnownChain(K) \subseteq KnownChain(L)'
  <2>1. Seq(KnownBlock(K)) \subseteq Seq(KnownBlock(L)')
    BY <1>3
  <2> QED BY <2>1 DEF KnownChain
<1>5. KnownStake \subseteq KnownStake'
  BY DEF Grows, KnownStake
<1>6. Evidence \subseteq Evidence'
  BY DEF Grows, Evidence
<1>7. ASSUME NEW msg \in KnownMsg(K)
      PROVE  msg \in KnownMsg(L)'
  <2>1. SUBSET Evidence \subseteq SUBSET (Evidence')
    BY <1>6
  <2> QED BY <1>3, <1>4, <1>5, <2>1 DEF KnownMsg
<1> QED BY <1>3, <1>4, <1>7

LEMMA SentGrows ==
  ASSUME NEW K, NEW L, K \subseteq L, Grows, Sent(K)
  PROVE  /\ mem_pool \in [Node -> Seq(L)]
         /\ inbox \in [Conn -> [Node -> Seq(KnownMsg(L)')]]
<1>1. Seq(K) \subseteq Seq(L)
  OBVIOUS
<1>2. Seq(KnownMsg(K)) \subseteq Seq(KnownMsg(L)')
  <2>1. KnownMsg(K) \subseteq KnownMsg(L)'
    BY KnownGrows
  <2> QED BY <2>1
<1> QED BY <1>1, <1>2 DEF Sent

-----------------------------------------------------------------------------
(***************************************************************************)
(* What a step may do to a chain.                                          *)
(***************************************************************************)

\* b goes on top of n's chain and brings no transaction that is in it.
OnTop(n, b) ==
  /\ chain[n] # << >>
  /\ b.prevHash = lastBlock(chain[n]).hash
  /\ Fresh(chain[n], b)
  /\ chain' = [chain EXCEPT ![n] = Append(@, b)]

\* n makes b, or b and a second block in its place.
Mints(K, n) ==
  \E b \in KnownBlock(K)' :
    /\ OnTop(n, b)
    /\ b.creator = n /\ b.hash = Len(minted)
    /\ \/ minted' = Append(minted, b)
       \/ /\ n \in Faulty
          /\ \E twin \in Block :
               /\ twin.creator = n /\ twin.hash = Len(minted) + 1
               /\ twin.prevHash = b.prevHash
               /\ minted' = minted \o <<b, twin>>

Takes(K, n) == UNCHANGED minted /\ \E b \in KnownBlock(K)' : OnTop(n, b)

Adopts(K, n) ==
  /\ UNCHANGED minted
  /\ \E c \in KnownChain(K)' : /\ Links(c) /\ Len(c) > Len(chain[n])
                               /\ chain' = [chain EXCEPT ![n] = c]

Marks(n) ==
  /\ UNCHANGED minted
  /\ \E pos \in DOMAIN chain[n] : /\ chain[n][pos].creator \in Faulty
                                  /\ chain' = [chain EXCEPT ![n] = Slashed(@, pos)]

ChainStep(K) ==
  \/ UNCHANGED <<chain, minted>>
  \/ \E n \in Node : Mints(K, n) \/ Takes(K, n) \/ Adopts(K, n) \/ Marks(n)

(***************************************************************************)
(* A block is found by its hash among those made.                          *)
(***************************************************************************)
LEMMA KnownIndex ==
  ASSUME MintedInOrder, NEW K, NEW b \in KnownBlock(K)
  PROVE  /\ b.hash \in Nat /\ b.hash + 1 \in DOMAIN minted
         /\ minted[b.hash + 1].hash = b.hash
         /\ minted[b.hash + 1].prevHash = b.prevHash
         /\ minted[b.hash + 1].creator = b.creator
         /\ b \in Block
<1>1. PICK i \in DOMAIN minted : Base(minted[i]) = Base(b)
  BY DEF KnownBlock, Made
<1>2. /\ minted[i].hash = b.hash /\ minted[i].prevHash = b.prevHash
      /\ minted[i].creator = b.creator
  BY <1>1 DEF Base
<1>3. minted[i].hash = i - 1 /\ i \in Nat /\ b \in Block
  BY DEF MintedInOrder, KnownBlock
<1>4. b.hash + 1 = i /\ b.hash \in Nat
  <2>1. b.hash \in Nat
    BY <1>3 DEF Block
  <2> QED BY <1>2, <1>3, <2>1
<1> QED BY <1>2, <1>3, <1>4

LEMMA ChainFacts ==
  ASSUME NEW K, NEW c \in KnownChain(K)
  PROVE  /\ c \in Seq(KnownBlock(K)) /\ Apart(c)
         /\ Len(c) \in Nat /\ DOMAIN c = 1..Len(c)
         /\ \A i \in 1..Len(c) : c[i] \in KnownBlock(K) /\ c[i] \in Block
         /\ c # << >> => /\ Len(c) >= 1 /\ Header(c[1]) = FirstHeader
                         /\ lastBlock(c) = c[Len(c)]
<1>1. c \in Seq(KnownBlock(K)) /\ Apart(c) /\ (c # << >> => Header(c[1]) = FirstHeader)
  BY DEF KnownChain
<1>2. \A i \in 1..Len(c) : c[i] \in KnownBlock(K)
  BY <1>1
<1> QED BY <1>1, <1>2 DEF KnownBlock, lastBlock

(***************************************************************************)
(* In a linked chain a block is found at its height.                       *)
(***************************************************************************)
LEMMA AtHeight ==
  ASSUME MintedInOrder, NEW H, Heights(H), NEW K, NEW c \in KnownChain(K), Links(c),
         NEW i \in 1..Len(c)
  PROVE  c[i].hash + 1 \in DOMAIN minted /\ H[c[i].hash + 1] = i
<1> DEFINE Bad == {j \in 1..Len(c) : H[c[j].hash + 1] # j}
<1>1. \A j \in 1..Len(c) : /\ c[j].hash \in Nat /\ c[j].hash + 1 \in DOMAIN minted
                           /\ minted[c[j].hash + 1].prevHash = c[j].prevHash
  BY ChainFacts, KnownIndex
<1>2. Len(c) \in Nat /\ Header(c[1]) = FirstHeader
  BY ChainFacts
<1>3. c[1].hash = 0
  BY <1>2 DEF Header, FirstHeader
<1>4. Bad = {}
  <2>1. SUFFICES ASSUME Bad # {} PROVE FALSE
    OBVIOUS
  <2>2. PICK j \in Bad : \A k \in Bad : j <= k
    <3>1. Bad \in SUBSET Nat
      OBVIOUS
    <3> HIDE DEF Bad
    <3> QED BY <2>1, <3>1, LeastElement
  <2>3. j # 1
    BY <1>3, <2>2 DEF Heights
  <2>4. j \in 2..Len(c) /\ j - 1 \in 1..Len(c) /\ j - 1 \notin Bad
    BY <1>2, <2>2, <2>3
  <2>5. c[j].prevHash = c[j-1].hash /\ H[c[j-1].hash + 1] = j - 1
    BY <2>4 DEF Links
  <2>6. c[j].hash + 1 # 1
    <3>1. ASSUME c[j].hash + 1 = 1 PROVE FALSE
      <4>1. minted[1].prevHash = None
        BY DEF MintedInOrder, Header, FirstHeader
      <4>2. c[j-1].hash = None
        BY <1>1, <2>4, <2>5, <3>1, <4>1
      <4> QED BY <1>1, <2>4, <4>2, LedgerAssumption
    <3> QED BY <3>1
  <2>7. H[c[j].hash + 1] = H[c[j].prevHash + 1] + 1
    <3>1. c[j].hash + 1 \in DOMAIN minted \ {1} /\ minted[c[j].hash + 1].prevHash = c[j].prevHash
      BY <1>1, <2>4, <2>6
    <3>2. \A h \in DOMAIN minted \ {1} : H[h] = H[minted[h].prevHash + 1] + 1
      BY DEF Heights
    <3> QED BY <3>1, <3>2
  <2>8. H[c[j].hash + 1] = j
    BY <2>4, <2>5, <2>7
  <2> QED BY <2>2, <2>8
<1> QED BY <1>1, <1>4

(***************************************************************************)
(* A block on top of a linked chain.                                       *)
(***************************************************************************)
LEMMA TopLinks ==
  ASSUME NEW S, NEW c \in Seq(S), c # << >>, Links(c), NEW b,
         b.prevHash = lastBlock(c).hash
  PROVE  Links(Append(c, b))
<1> DEFINE d == Append(c, b)
<1>1. /\ DOMAIN d = DOMAIN c \cup {Len(c) + 1} /\ d[Len(c) + 1] = b
      /\ \A i \in DOMAIN c : d[i] = c[i]
  BY AppendFacts
<1>2. DOMAIN c = 1..Len(c) /\ Len(c) \in Nat /\ Len(c) >= 1 /\ Len(d) = Len(c) + 1
  OBVIOUS
<1> HIDE DEF d
<1>3. ASSUME NEW i \in 2..Len(d) PROVE d[i].prevHash = d[i-1].hash
  <2>1. CASE i \in 2..Len(c)
    <3>1. i \in DOMAIN c /\ i - 1 \in DOMAIN c
      BY <1>2, <2>1
    <3> QED BY <1>1, <2>1, <3>1 DEF Links
  <2>2. CASE i = Len(c) + 1
    <3>1. Len(c) \in DOMAIN c /\ i - 1 = Len(c)
      BY <1>2, <2>2
    <3> QED BY <1>1, <2>2, <3>1 DEF lastBlock
  <2> QED BY <1>2, <2>1, <2>2
<1> QED BY <1>3 DEF d, Links

LEMMA TopKnown ==
  ASSUME NEW K, NEW c \in KnownChain(K), c # << >>, NEW b \in KnownBlock(K), Fresh(c, b)
  PROVE  Append(c, b) \in KnownChain(K) /\ Len(Append(c, b)) = Len(c) + 1
<1>1. c \in Seq(KnownBlock(K)) /\ Apart(c) /\ Header(c[1]) = FirstHeader
  BY ChainFacts
<1>2. Append(c, b) \in Seq(KnownBlock(K)) /\ Append(c, b)[1] = c[1]
      /\ Len(Append(c, b)) = Len(c) + 1
  BY <1>1
<1>3. Apart(Append(c, b))
  BY <1>1, ApartAppend
<1> QED BY <1>1, <1>2, <1>3 DEF KnownChain

(***************************************************************************)
(* Marking a block changes nothing but its marks.                          *)
(***************************************************************************)
LEMMA SlashedFacts ==
  ASSUME NEW K, NEW c \in KnownChain(K), NEW pos \in DOMAIN c
  PROVE  /\ Len(Slashed(c, pos)) = Len(c) /\ DOMAIN Slashed(c, pos) = DOMAIN c
         /\ \A i \in DOMAIN c : /\ Base(Slashed(c, pos)[i]) = Base(c[i])
                                /\ Slashed(c, pos)[i] \in Block
                                /\ i # pos => Slashed(c, pos)[i] = c[i]
<1>1. c \in Seq(KnownBlock(K)) /\ \A i \in DOMAIN c : c[i] \in Block
  BY ChainFacts
<1> DEFINE b == [c[pos] EXCEPT !.is_valid = FALSE, !.slash_creator = TRUE]
<1>2. b \in Block /\ Base(b) = Base(c[pos])
  <2>1. c[pos] \in Block
    BY <1>1
  <2> QED BY <2>1 DEF Block, Base
<1>3. Slashed(c, pos) = [c EXCEPT ![pos] = b]
  BY <1>1 DEF Slashed
<1> HIDE DEF b
<1>4. Len([c EXCEPT ![pos] = b]) = Len(c) /\ DOMAIN [c EXCEPT ![pos] = b] = DOMAIN c
  BY <1>1
<1> QED BY <1>1, <1>2, <1>3, <1>4

LEMMA SlashedKnown ==
  ASSUME NEW K, NEW c \in KnownChain(K), NEW pos \in DOMAIN c, c[pos].creator \in Faulty
  PROVE  /\ Slashed(c, pos) \in KnownChain(K)
         /\ Links(c) => Links(Slashed(c, pos))
<1> DEFINE d == Slashed(c, pos)
<1>1. /\ DOMAIN d = 1..Len(c) /\ DOMAIN c = 1..Len(c) /\ Len(c) \in Nat /\ Len(d) = Len(c)
      /\ \A i \in 1..Len(c) : /\ Base(d[i]) = Base(c[i]) /\ d[i] \in Block
                              /\ i # pos => d[i] = c[i]
  BY SlashedFacts, ChainFacts
<1> HIDE DEF d
<1>2. \A i \in 1..Len(c) : /\ d[i].hash = c[i].hash /\ d[i].prevHash = c[i].prevHash
                           /\ d[i].creator = c[i].creator
                           /\ d[i].transactions = c[i].transactions
  BY <1>1 DEF Base
<1>3. \A i \in 1..Len(c) : c[i] \in KnownBlock(K)
  BY ChainFacts
<1>4. \A i \in 1..Len(c) : d[i] \in KnownBlock(K)
  <2>1. ASSUME NEW i \in 1..Len(c), i # pos PROVE d[i] \in KnownBlock(K)
    BY <1>1, <1>3, <2>1
  <2>2. d[pos] \in KnownBlock(K)
    <3>1. pos \in 1..Len(c)
      BY <1>1
    <3> QED BY <1>1, <1>2, <1>3, <3>1 DEF KnownBlock, Made
  <2> QED BY <2>1, <2>2
<1>5. d \in Seq(KnownBlock(K))
  <2>1. c \in Seq(KnownBlock(K)) /\ pos \in 1..Len(c)
    BY <1>1, ChainFacts
  <2>2. d = [c EXCEPT ![pos] = d[pos]]
    BY <2>1 DEF d, Slashed
  <2>3. d[pos] \in KnownBlock(K)
    BY <1>4, <2>1
  <2> QED BY <2>1, <2>2, <2>3
<1>6. Apart(d)
  <2>1. Apart(c)
    BY ChainFacts
  <2> QED BY <1>1, <1>2, <2>1 DEF Apart
<1>7. d # << >> => Header(d[1]) = FirstHeader
  BY <1>1, <1>2, ChainFacts DEF Header
<1>8. Links(c) => Links(d)
  <2>1. ASSUME Links(c), NEW i \in 2..Len(d) PROVE d[i].prevHash = d[i-1].hash
    <3>1. i \in 1..Len(c) /\ i - 1 \in 1..Len(c) /\ i \in 2..Len(c)
      BY <1>1
    <3> QED BY <1>2, <2>1, <3>1 DEF Links
  <2> QED BY <2>1 DEF Links
<1> QED BY <1>5, <1>6, <1>7, <1>8 DEF KnownChain, d

-----------------------------------------------------------------------------
(***************************************************************************)
(* Every peer's chain is linked and made of what is known, after a step as *)
(* before, and grows if at all.                                            *)
(***************************************************************************)
LEMMA PeerChain ==
  ASSUME NEW K, NEW L, chain \in [Node -> KnownChain(L)'], LinkedInv,
         NEW n \in Node, Mints(L, n) \/ Takes(L, n) \/ Adopts(L, n) \/ Marks(n)
  PROVE  /\ chain' \in [Node -> KnownChain(L)'] /\ LinkedInv'
         /\ \A m \in Node : m # n => chain'[m] = chain[m]
         /\ Len(chain'[n]) >= Len(chain[n])
<1> PICK W : W = KnownChain(L)'
  OBVIOUS
<1>1. chain[n] \in KnownChain(L)' /\ chain \in [Node -> W] /\ Len(chain[n]) \in Nat
  <2>1. chain[n] \in KnownChain(L)'
    OBVIOUS
  <2>2. chain[n] \in Seq(KnownBlock(L)')
    BY <2>1 DEF KnownChain
  <2> QED BY <2>1, <2>2
<1>2. ASSUME NEW c \in KnownChain(L)', Links(c), Len(c) >= Len(chain[n]),
             chain' = [chain EXCEPT ![n] = c]
      PROVE  /\ chain' \in [Node -> KnownChain(L)'] /\ LinkedInv'
             /\ \A m \in Node : m # n => chain'[m] = chain[m]
             /\ Len(chain'[n]) >= Len(chain[n])
  <2>1. chain'[n] = c /\ \A m \in Node : m # n => chain'[m] = chain[m]
    BY <1>1, <1>2
  <2>2. chain' \in [Node -> KnownChain(L)']
    BY <1>2
  <2>3. \A m \in Node : Links(chain'[m])
    BY <1>2, <2>1 DEF LinkedInv
  <2> QED BY <1>2, <2>1, <2>2, <2>3 DEF LinkedInv, Links
<1>3. ASSUME NEW b \in KnownBlock(L)', OnTop(n, b)
      PROVE  \E c \in KnownChain(L)' : /\ Links(c) /\ Len(c) >= Len(chain[n])
                                       /\ chain' = [chain EXCEPT ![n] = c]
  <2> DEFINE c == Append(chain[n], b)
  <2>1. c \in KnownChain(L)' /\ Len(c) = Len(chain[n]) + 1
    <3>1. /\ chain[n] \in Seq(KnownBlock(L)') /\ Apart(chain[n])
          /\ Header(chain[n][1]) = FirstHeader
      BY <1>1, <1>3 DEF KnownChain, OnTop
    <3>2. Apart(c)
      BY <1>3, <3>1, ApartAppend DEF OnTop
    <3>3. c \in Seq(KnownBlock(L)') /\ c[1] = chain[n][1] /\ Len(c) = Len(chain[n]) + 1
      BY <1>3, <3>1 DEF OnTop
    <3> QED BY <3>1, <3>2, <3>3 DEF KnownChain
  <2>2. Links(c)
    <3>1. chain[n] \in Seq(KnownBlock(L)')
      BY <1>1 DEF KnownChain
    <3> QED BY <1>3, <3>1, TopLinks DEF OnTop, LinkedInv
  <2>3. chain' = [chain EXCEPT ![n] = c]
    BY <1>3 DEF OnTop
  <2>4. Len(c) >= Len(chain[n])
    BY <1>1, <2>1
  <2> HIDE DEF c
  <2> QED BY <2>1, <2>2, <2>3, <2>4, Zenon
<1>4. CASE Mints(L, n)
  BY <1>2, <1>3, <1>4 DEF Mints
<1>5. CASE Takes(L, n)
  BY <1>2, <1>3, <1>5 DEF Takes
<1>6. CASE Adopts(L, n)
  <2>1. PICK c \in KnownChain(L)' : /\ Links(c) /\ Len(c) > Len(chain[n])
                                    /\ chain' = [chain EXCEPT ![n] = c]
    BY <1>6 DEF Adopts
  <2>2. Len(c) >= Len(chain[n])
    <3>1. c \in Seq(KnownBlock(L)')
      BY DEF KnownChain
    <3> QED BY <1>1, <2>1, <3>1
  <2> QED BY <1>2, <2>1, <2>2
<1>7. CASE Marks(n)
  <2>1. PICK pos \in DOMAIN chain[n] :
               /\ chain[n][pos].creator \in Faulty
               /\ chain' = [chain EXCEPT ![n] = Slashed(chain[n], pos)]
    BY <1>7 DEF Marks
  <2>2. UNCHANGED minted /\ KnownBlock(L)' = KnownBlock(L) /\ KnownChain(L)' = KnownChain(L)
    BY <1>7 DEF Marks, KnownChain, KnownBlock, Made
  <2>3. Slashed(chain[n], pos) \in KnownChain(L) /\ Links(Slashed(chain[n], pos))
    BY <1>1, <2>1, <2>2, SlashedKnown DEF LinkedInv
  <2>4. Len(Slashed(chain[n], pos)) >= Len(chain[n])
    BY <1>1, <2>1, <2>2, SlashedFacts
  <2> QED BY <1>2, <2>1, <2>2, <2>3, <2>4
<1> QED BY <1>4, <1>5, <1>6, <1>7

(***************************************************************************)
(* The new blocks come last among those made.                              *)
(***************************************************************************)
LEMMA MintedGrows ==
  ASSUME MintedInOrder, NEW K, NEW n \in Node, Mints(K, n)
  PROVE  /\ MintedInOrder'
         /\ DOMAIN minted \subseteq DOMAIN minted'
         /\ \A i \in DOMAIN minted : minted'[i] = minted[i]
         /\ \A i \in DOMAIN minted' \ DOMAIN minted :
              /\ minted'[i].creator = n
              /\ minted'[i].prevHash = lastBlock(chain[n]).hash
         /\ n \notin Faulty => minted' \in Seq(Block) /\ Len(minted') = Len(minted) + 1
<1>1. PICK b \in KnownBlock(K)' :
        /\ OnTop(n, b)
        /\ b.creator = n /\ b.hash = Len(minted)
        /\ \/ minted' = Append(minted, b)
           \/ /\ n \in Faulty
              /\ \E twin \in Block :
                   /\ twin.creator = n /\ twin.hash = Len(minted) + 1
                   /\ twin.prevHash = b.prevHash
                   /\ minted' = minted \o <<b, twin>>
  BY DEF Mints
<1>2. minted \in Seq(Block) /\ Len(minted) \in Nat /\ Len(minted) >= 1
      /\ DOMAIN minted = 1..Len(minted)
  BY DEF MintedInOrder
<1>3. b \in Block /\ b.prevHash = lastBlock(chain[n]).hash
  BY <1>1 DEF KnownBlock, OnTop
<1>4. CASE minted' = Append(minted, b)
  <2>1. /\ minted' \in Seq(Block) /\ Len(minted') = Len(minted) + 1
        /\ DOMAIN minted' = DOMAIN minted \cup {Len(minted) + 1}
        /\ minted'[Len(minted) + 1] = b
        /\ \A i \in DOMAIN minted : minted'[i] = minted[i]
    BY <1>2, <1>3, <1>4, AppendFacts
  <2>2. MintedInOrder'
    <3>1. \A i \in DOMAIN minted' : minted'[i].hash = i - 1 /\ minted'[i].creator \in Node
      BY <1>1, <1>2, <2>1 DEF MintedInOrder
    <3>2. Header(minted'[1]) = FirstHeader /\ minted' # << >>
      BY <1>2, <2>1 DEF MintedInOrder
    <3> QED BY <2>1, <3>1, <3>2 DEF MintedInOrder, Header, FirstHeader
  <2> QED BY <1>1, <1>3, <2>1, <2>2
<1>5. CASE n \in Faulty /\ \E twin \in Block :
                   /\ twin.creator = n /\ twin.hash = Len(minted) + 1
                   /\ twin.prevHash = b.prevHash
                   /\ minted' = minted \o <<b, twin>>
  <2>1. PICK twin \in Block :
                   /\ twin.creator = n /\ twin.hash = Len(minted) + 1
                   /\ twin.prevHash = b.prevHash
                   /\ minted' = minted \o <<b, twin>>
    BY <1>5
  <2>2. <<b, twin>> \in Seq(Block) /\ Len(<<b, twin>>) = 2
    BY <1>3
  <2>3. /\ minted' \in Seq(Block) /\ Len(minted') = Len(minted) + 2
        /\ DOMAIN minted' = 1..(Len(minted) + 2)
        /\ minted'[Len(minted) + 1] = b /\ minted'[Len(minted) + 2] = twin
        /\ \A i \in DOMAIN minted : minted'[i] = minted[i]
    BY <1>2, <1>3, <2>1, <2>2
  <2>4. \A i \in DOMAIN minted' : i \in DOMAIN minted \/ i = Len(minted) + 1 \/ i = Len(minted) + 2
    BY <1>2, <2>3
  <2>5. MintedInOrder'
    <3>1. \A i \in DOMAIN minted' : minted'[i].hash = i - 1 /\ minted'[i].creator \in Node
      BY <1>1, <1>2, <2>1, <2>3, <2>4 DEF MintedInOrder
    <3>2. Header(minted'[1]) = FirstHeader /\ minted' # << >>
      BY <1>2, <2>3 DEF MintedInOrder
    <3> QED BY <2>3, <3>1, <3>2 DEF MintedInOrder, Header, FirstHeader
  <2>6. \A i \in DOMAIN minted' \ DOMAIN minted :
              /\ minted'[i].creator = n
              /\ minted'[i].prevHash = lastBlock(chain[n]).hash
    BY <1>1, <1>3, <2>1, <2>3, <2>4
  <2>7. DOMAIN minted \subseteq DOMAIN minted'
    BY <1>2, <2>3
  <2> QED BY <1>5, <2>3, <2>5, <2>6, <2>7
<1> QED BY <1>1, <1>4, <1>5

(***************************************************************************)
(* The heights of the blocks there were stay what they are; a new block is *)
(* one above its maker's chain.                                            *)
(***************************************************************************)
LEMMA HeightsStay ==
  ASSUME NEW H, Heights(H), MintedInOrder, UNCHANGED minted,
         \A m \in Node : Len(chain[m]) \in Nat /\ Len(chain'[m]) \in Nat
                         /\ Len(chain'[m]) >= Len(chain[m])
  PROVE  Heights(H)'
<1>1. ASSUME NEW i \in DOMAIN minted, minted[i].creator \notin Faulty
      PROVE  H[i] <= Len(chain'[minted[i].creator])
  <2>1. H[i] <= Len(chain[minted[i].creator]) /\ H[i] \in Nat
    BY <1>1 DEF Heights
  <2>2. minted[i].creator \in Node
    BY DEF MintedInOrder
  <2> QED BY <2>1, <2>2
<1> QED BY <1>1 DEF Heights

LEMMA HeightsGrow ==
  ASSUME NEW H, Heights(H), MintedInOrder, NEW K, chain \in [Node -> KnownChain(K)],
         LinkedInv, NEW L, NEW n \in Node, Mints(L, n),
         \A m \in Node : /\ Len(chain[m]) \in Nat
                         /\ m # n => chain'[m] = chain[m]
  PROVE  \E G : Heights(G)'
<1>1. /\ MintedInOrder'
      /\ DOMAIN minted \subseteq DOMAIN minted'
      /\ \A i \in DOMAIN minted : minted'[i] = minted[i]
      /\ \A i \in DOMAIN minted' \ DOMAIN minted :
           /\ minted'[i].creator = n
           /\ minted'[i].prevHash = lastBlock(chain[n]).hash
      /\ n \notin Faulty => minted' \in Seq(Block) /\ Len(minted') = Len(minted) + 1
  BY MintedGrows
<1> DEFINE top == Len(chain[n])
           Grown == [i \in DOMAIN minted' |-> IF i \in DOMAIN minted THEN H[i] ELSE top + 1]
<1>2. chain[n] # << >> /\ Len(chain'[n]) = top + 1 /\ top \in Nat
  <2>1. PICK b : chain[n] # << >> /\ chain' = [chain EXCEPT ![n] = Append(@, b)]
    BY DEF Mints, OnTop
  <2>2. chain[n] \in KnownChain(K) /\ chain'[n] = Append(chain[n], b)
    BY <2>1
  <2>3. chain[n] \in Seq(KnownBlock(K))
    BY <2>2, ChainFacts
  <2> QED BY <2>1, <2>2, <2>3
<1>3. /\ lastBlock(chain[n]).hash \in Nat
      /\ lastBlock(chain[n]).hash + 1 \in DOMAIN minted
      /\ H[lastBlock(chain[n]).hash + 1] = top
  <2>1. chain[n] \in KnownChain(K) /\ Links(chain[n])
    BY DEF LinkedInv
  <2>2. top \in 1..Len(chain[n]) /\ lastBlock(chain[n]) = chain[n][top]
        /\ chain[n][top] \in KnownBlock(K)
    BY <1>2, <2>1, ChainFacts
  <2>3. chain[n][top].hash \in Nat
    BY <2>2, KnownIndex
  <2>4. chain[n][top].hash + 1 \in DOMAIN minted /\ H[chain[n][top].hash + 1] = top
    BY <2>1, <2>2, AtHeight
  <2> QED BY <2>2, <2>3, <2>4
<1>4. 1 \in DOMAIN minted /\ \A i \in DOMAIN minted : H[i] \in Nat
  BY DEF MintedInOrder, Heights
<1>5. PICK G : /\ G \in [DOMAIN minted' -> Nat]
               /\ \A i \in DOMAIN minted : G[i] = H[i]
               /\ \A i \in DOMAIN minted' \ DOMAIN minted : G[i] = top + 1
  <2>1. /\ Grown \in [DOMAIN minted' -> Nat]
        /\ \A i \in DOMAIN minted : Grown[i] = H[i]
        /\ \A i \in DOMAIN minted' \ DOMAIN minted : Grown[i] = top + 1
    BY <1>1, <1>2, <1>4
  <2> HIDE DEF Grown
  <2> QED BY <2>1
<1> HIDE DEF Grown
<1>6. G[1] = 1
  BY <1>4, <1>5 DEF Heights
<1>7. ASSUME NEW i \in DOMAIN minted' \ {1}
      PROVE  /\ minted'[i].prevHash + 1 \in DOMAIN minted'
             /\ minted'[i].prevHash \in Nat
             /\ G[i] = G[minted'[i].prevHash + 1] + 1
  <2>1. CASE i \in DOMAIN minted
    <3>1. /\ minted[i].prevHash + 1 \in DOMAIN minted
          /\ minted[i].prevHash \in Nat
          /\ H[i] = H[minted[i].prevHash + 1] + 1
      BY <2>1 DEF Heights
    <3> QED BY <1>1, <1>5, <2>1, <3>1
  <2>2. CASE i \notin DOMAIN minted
    BY <1>1, <1>3, <1>5, <2>2
  <2> QED BY <2>1, <2>2
<1>8. ASSUME NEW i \in DOMAIN minted, minted[i].creator \notin Faulty
      PROVE  H[i] <= Len(chain[minted[i].creator]) /\ minted[i].creator \in Node
  BY <1>8 DEF Heights, MintedInOrder
<1>9. ASSUME NEW i \in DOMAIN minted', minted'[i].creator \notin Faulty
      PROVE  G[i] <= Len(chain'[minted'[i].creator])
  <2>1. CASE i \in DOMAIN minted
    <3>1. H[i] <= Len(chain[minted[i].creator]) /\ minted[i].creator \in Node
          /\ minted'[i] = minted[i] /\ G[i] = H[i] /\ H[i] \in Nat
      BY <1>1, <1>4, <1>5, <1>8, <1>9, <2>1
    <3>2. CASE minted[i].creator = n
      BY <1>2, <3>1, <3>2
    <3>3. CASE minted[i].creator # n
      BY <3>1, <3>3
    <3> QED BY <3>2, <3>3
  <2>2. CASE i \notin DOMAIN minted
    BY <1>1, <1>2, <1>5, <2>2
  <2> QED BY <2>1, <2>2
<1>10. ASSUME NEW i \in DOMAIN minted', NEW j \in DOMAIN minted',
              minted'[i].creator \notin Faulty, minted'[i].creator = minted'[j].creator,
              G[i] = G[j]
       PROVE  i = j
  <2>1. ASSUME NEW k \in DOMAIN minted, NEW l \in DOMAIN minted' \ DOMAIN minted,
               minted'[k].creator = minted'[l].creator, minted'[k].creator \notin Faulty,
               G[k] = G[l]
        PROVE  FALSE
    <3>1. minted[k].creator = n /\ minted'[k] = minted[k] /\ n \notin Faulty
      BY <1>1, <2>1
    <3>2. H[k] <= top /\ H[k] \in Nat /\ G[k] = H[k] /\ G[l] = top + 1
      BY <1>4, <1>5, <1>8, <3>1
    <3>3. top + 1 <= top
      BY <2>1, <3>2
    <3> QED BY <1>2, <3>3
  <2>2. CASE i \in DOMAIN minted /\ j \in DOMAIN minted
    BY <1>1, <1>5, <1>10, <2>2 DEF Heights
  <2>3. CASE i \notin DOMAIN minted /\ j \notin DOMAIN minted
    <3>1. n \notin Faulty
      BY <1>1, <1>10, <2>3
    <3>2. /\ minted' \in Seq(Block) /\ Len(minted') = Len(minted) + 1
          /\ minted \in Seq(Block)
      BY <1>1, <3>1 DEF MintedInOrder
    <3>3. i = Len(minted) + 1 /\ j = Len(minted) + 1
      BY <2>3, <3>2
    <3> QED BY <3>3
  <2> QED BY <1>10, <2>1, <2>2, <2>3
<1> HIDE DEF top
<1>11. Heights(G)'
  <2>1. \A i \in DOMAIN minted' : minted'[i].creator \notin Faulty
                                 => G[i] <= Len(chain'[minted'[i].creator])
    BY <1>9
  <2>2. \A i, j \in DOMAIN minted' : /\ minted'[i].creator \notin Faulty
                                    /\ minted'[i].creator = minted'[j].creator
                                    /\ G[i] = G[j]
                                    => i = j
    BY <1>10
  <2> QED BY <1>5, <1>6, <1>7, <2>1, <2>2, Zenon DEF Heights
<1> QED BY <1>11

LEMMA ChainKept ==
  ASSUME NEW K, NEW L, K \subseteq L, Grows, chain \in [Node -> KnownChain(K)],
         MintedInOrder, LinkedInv, \E H : Heights(H), ChainStep(L)
  PROVE  /\ chain' \in [Node -> KnownChain(L)']
         /\ MintedInOrder' /\ LinkedInv' /\ \E H : Heights(H)'
         /\ \A m \in Node : chain'[m] = << >> => chain[m] = << >>
<1>1. chain \in [Node -> KnownChain(L)']
  BY KnownGrows
<1>2. PICK H : Heights(H)
  OBVIOUS
<1>3. CASE UNCHANGED <<chain, minted>>
  <2>1. MintedInOrder'
    BY <1>3 DEF MintedInOrder, Header, FirstHeader
  <2>2. LinkedInv' /\ Heights(H)'
    BY <1>2, <1>3 DEF LinkedInv, Links, Heights
  <2> QED BY <1>1, <1>3, <2>1, <2>2
<1>4. CASE \E n \in Node : Mints(L, n) \/ Takes(L, n) \/ Adopts(L, n) \/ Marks(n)
  <2>1. PICK n \in Node : Mints(L, n) \/ Takes(L, n) \/ Adopts(L, n) \/ Marks(n)
    BY <1>4
  <2>2. /\ chain' \in [Node -> KnownChain(L)'] /\ LinkedInv'
        /\ \A m \in Node : m # n => chain'[m] = chain[m]
        /\ Len(chain'[n]) >= Len(chain[n])
    BY <1>1, <2>1, PeerChain
  <2>3. \A m \in Node : /\ chain[m] \in Seq(KnownBlock(K)) /\ Len(chain[m]) \in Nat
                        /\ chain'[m] \in Seq(KnownBlock(L)') /\ Len(chain'[m]) \in Nat
    <3>1. \A m \in Node : chain[m] \in Seq(KnownBlock(K))
      BY ChainFacts
    <3>2. \A m \in Node : chain'[m] \in Seq(KnownBlock(L)')
      BY <2>2 DEF KnownChain
    <3> QED BY <3>1, <3>2
  <2>4. \A m \in Node : Len(chain'[m]) >= Len(chain[m])
    <3> TAKE m \in Node
    <3>1. Len(chain[m]) \in Nat
      BY <2>3
    <3> QED BY <2>2, <3>1
  <2>5. \A m \in Node : chain'[m] = << >> => chain[m] = << >>
    BY <2>3, <2>4
  <2>6. CASE Mints(L, n)
    <3>1. MintedInOrder'
      BY <2>6, MintedGrows
    <3>2. \E G : Heights(G)'
      BY <1>2, <2>2, <2>3, <2>6, HeightsGrow
    <3> QED BY <2>2, <2>5, <3>1, <3>2
  <2>7. CASE Takes(L, n) \/ Adopts(L, n) \/ Marks(n)
    <3>1. UNCHANGED minted
      BY <2>7 DEF Takes, Adopts, Marks
    <3>2. MintedInOrder'
      BY <3>1 DEF MintedInOrder, Header, FirstHeader
    <3>3. Heights(H)'
      BY <1>2, <2>3, <2>4, <3>1, HeightsStay
    <3> QED BY <2>2, <2>5, <3>2, <3>3
  <2> QED BY <2>1, <2>6, <2>7
<1> QED BY <1>3, <1>4 DEF ChainStep

-----------------------------------------------------------------------------
(***************************************************************************)
(* A pool's members, after one more is seen and after a sweep.             *)
(***************************************************************************)
LEMMA PoolAdds ==
  ASSUME PoolInv, NEW K, mem_pool \in [Node -> Seq(K)], NEW n \in Node, NEW tx,
         seen \in [Node -> SUBSET Ids],
         <<"new_tx", tx.id>> \notin seen[n],
         mem_pool' = [mem_pool EXCEPT ![n] = Append(@, tx)],
         seen' = [seen EXCEPT ![n] = @ \cup {<<"new_tx", tx.id>>}]
  PROVE  PoolInv'
<1> DEFINE pool == mem_pool[n]
           p == Append(pool, tx)
           e == Len(pool) + 1
<1>1. /\ DOMAIN p = DOMAIN pool \cup {e} /\ e \notin DOMAIN pool /\ p[e] = tx
      /\ \A i \in DOMAIN pool : p[i] = pool[i]
  BY AppendFacts
<1>2. \A i \in DOMAIN pool : pool[i].id # tx.id /\ <<"new_tx", pool[i].id>> \in seen[n]
  BY DEF PoolInv
<1>3. DistinctIds(pool)
  BY DEF PoolInv
<1>4. mem_pool'[n] = p /\ seen'[n] = seen[n] \cup {<<"new_tx", tx.id>>}
  OBVIOUS
<1> HIDE DEF p, e
<1>5. DistinctIds(p)
  BY <1>1, <1>2, <1>3 DEF DistinctIds
<1>6. \A i \in DOMAIN p : <<"new_tx", p[i].id>> \in seen'[n]
  BY <1>1, <1>2, <1>4
<1>7. \A m \in Node : m # n => mem_pool'[m] = mem_pool[m] /\ seen'[m] = seen[m]
  OBVIOUS
<1> QED BY <1>4, <1>5, <1>6, <1>7 DEF PoolInv

LEMMA PoolSwept ==
  ASSUME NEW K, mem_pool \in [Node -> Seq(K)], NEW n \in Node, NEW gone,
         mem_pool' = [mem_pool EXCEPT ![n] = Sweep(@, gone).kept]
  PROVE  /\ mem_pool' \in [Node -> Seq(K)]
         /\ PoolInv /\ (\A m \in Node : seen[m] \subseteq seen'[m]) => PoolInv'
<1> DEFINE pool == mem_pool[n]
           kept == Sweep(pool, gone).kept
           Members == {pool[i] : i \in DOMAIN pool}
<1>1. kept \in Seq(K)
  BY SweepType
<1>2. mem_pool' = [mem_pool EXCEPT ![n] = kept]
  OBVIOUS
<1>3. \A i \in DOMAIN kept : \E j \in DOMAIN pool : kept[i] = pool[j]
  <2>1. pool \in Seq(Members)
    OBVIOUS
  <2>2. kept \in Seq(Members)
    <3> HIDE DEF Members
    <3> QED BY <2>1, SweepType
  <2> HIDE DEF kept
  <2> QED BY <2>2
<1>4. DistinctIds(pool) => DistinctIds(kept)
  BY SweepDistinct
<1> HIDE DEF kept
<1>5. mem_pool'[n] = kept /\ \A m \in Node : m # n => mem_pool'[m] = mem_pool[m]
  BY <1>2
<1>6. ASSUME PoolInv, \A m \in Node : seen[m] \subseteq seen'[m]
      PROVE  PoolInv'
  <2>1. \A i \in DOMAIN pool : <<"new_tx", pool[i].id>> \in seen[n]
    BY <1>6 DEF PoolInv
  <2>2. DistinctIds(kept) /\ \A i \in DOMAIN kept : <<"new_tx", kept[i].id>> \in seen'[n]
    BY <1>3, <1>4, <1>6, <2>1 DEF PoolInv
  <2>3. ASSUME NEW m \in Node, m # n
        PROVE  DistinctIds(mem_pool[m])
               /\ \A i \in DOMAIN mem_pool[m] : <<"new_tx", mem_pool[m][i].id>> \in seen'[m]
    BY <1>6 DEF PoolInv
  <2> QED BY <1>5, <2>2, <2>3 DEF PoolInv
<1> QED BY <1>1, <1>2, <1>6

LEMMA PoolSame ==
  ASSUME PoolInv, UNCHANGED mem_pool, \A m \in Node : seen[m] \subseteq seen'[m]
  PROVE  PoolInv'
BY DEF PoolInv

(***************************************************************************)
(* One message is marked as seen.                                          *)
(***************************************************************************)
LEMMA MarkOne ==
  ASSUME seen \in [Node -> SUBSET Ids], NEW n \in Node, NEW msg, MsgId(msg) \in Ids,
         seen' = MarkSeen(n, {msg})
  PROVE  /\ seen' \in [Node -> SUBSET Ids]
         /\ seen' = [seen EXCEPT ![n] = @ \cup {MsgId(msg)}]
         /\ \A m \in Node : seen[m] \subseteq seen'[m]
         /\ MsgId(msg) \in seen'[n]
         /\ \A m \in Node : \A mark \in seen'[m] : mark \in seen[m] \/ mark = MsgId(msg)
<1>1. seen' = [seen EXCEPT ![n] = @ \cup {MsgId(msg)}]
  BY DEF MarkSeen
<1> QED BY <1>1

-----------------------------------------------------------------------------
(***************************************************************************)
(* What every step does, L being the transactions there are after it.      *)
(***************************************************************************)
StepOK(L) ==
  /\ L \in SUBSET Tx /\ UniqueIds(L) /\ \A t \in L : t.id <= count'.txs
  /\ Grows /\ ChainStep(L) /\ Sent(L)'
  /\ LocalOK' /\ TimesOK' /\ PoolInv' /\ SeenInv' /\ StakeCounted'
  /\ \A n \in Node : chain[n] = << >> /\ Idle(n) => Idle(n)'

LEMMA Durations ==
  /\ EPOCH_TIME = 6 /\ EPOCH_TIME \div 2 = 3 /\ Reset = 7 /\ Registration = 5
  /\ Oldest \in Nat /\ Oldest >= 5 /\ Reset + 1 = 8
BY DEF EPOCH_TIME, Reset, Registration, Oldest, TooOld

LEMMA CappedType ==
  ASSUME NEW t \in Nat, NEW limit \in Nat
  PROVE  Capped(t, limit) \in 0..limit
BY DEF Capped

(***************************************************************************)
(* Steps that see no message and make no block.                            *)
(***************************************************************************)
LEMMA Unseen ==
  ASSUME NetInv, NEW K, TxInv(K), UNCHANGED <<peer_vars, minted, count>>
  PROVE  /\ K \in SUBSET Tx /\ UniqueIds(K) /\ \A t \in K : t.id <= count'.txs
         /\ Grows /\ ChainStep(K) /\ PoolInv' /\ SeenInv'
         /\ mem_pool' \in [Node -> Seq(K)]
         /\ inbox \in [Conn -> [Node -> Seq(KnownMsg(K)')]]
         /\ UNCHANGED inbox => Sent(K)'
<1>1. Grows
  BY DEF Grows, peer_vars
<1>2. ChainStep(K) /\ PoolInv' /\ SeenInv'
  BY DEF ChainStep, PoolInv, SeenInv, peer_vars, NetInv
<1>3. /\ mem_pool' \in [Node -> Seq(K)]
      /\ inbox \in [Conn -> [Node -> Seq(KnownMsg(K)')]]
  BY <1>1, SentGrows DEF TxInv, peer_vars
<1> QED BY <1>1, <1>2, <1>3 DEF TxInv, Sent

LEMMA StakesForgotten ==
  ASSUME LocalOK, StakeCounted, NEW n \in Node, ForgetStakes(n)
  PROVE  /\ current_stakes' \in [Node -> SUBSET Stake]
         /\ \A m \in Node : IsFiniteSet(current_stakes'[m])
         /\ current_stakers' \in [Node -> [Account -> Int]]
         /\ staked_amt' \in [Node -> Int]
         /\ StakeCounted'
<1>1. Nobody \in [Account -> Int]
  BY DEF Nobody
<1>2. IsFiniteSet({})
  BY FS_EmptySet
<1>3. /\ current_stakes' \in [Node -> SUBSET Stake]
      /\ \A m \in Node : IsFiniteSet(current_stakes'[m])
      /\ current_stakers' \in [Node -> [Account -> Int]]
      /\ staked_amt' \in [Node -> Int]
  BY <1>1, <1>2 DEF LocalOK, ForgetStakes
<1>4. StakeCounted'
  <2>1. /\ staked_amt'[n] = 0
        /\ \A m \in Node : m # n => /\ staked_amt'[m] = staked_amt[m]
                                    /\ current_stakers'[m] = current_stakers[m]
                                    /\ current_stakes'[m] = current_stakes[m]
    BY DEF LocalOK, ForgetStakes
  <2> QED BY <2>1 DEF StakeCounted
<1> QED BY <1>3, <1>4

LEMMA OwnStakeForgotten ==
  ASSUME LocalOK, StakeCounted, NEW n \in Node, ForgetOwnStake(n)
  PROVE  /\ UNCHANGED <<current_stakes, current_stakers>>
         /\ staked_amt' \in [Node -> Int]
         /\ StakeCounted'
<1>1. /\ UNCHANGED <<current_stakes, current_stakers>>
      /\ staked_amt' \in [Node -> Int] /\ staked_amt'[n] = 0
      /\ \A m \in Node : m # n => staked_amt'[m] = staked_amt[m]
  BY DEF LocalOK, ForgetOwnStake
<1> QED BY <1>1 DEF StakeCounted

LEMMA StakesKept ==
  ASSUME StakeCounted, UNCHANGED epoch_vars
  PROVE  StakeCounted'
BY DEF StakeCounted, epoch_vars

LEMMA TickStep ==
  ASSUME NetInv, NEW K, TxInv(K), Tick
  PROVE  StepOK(K)
<1>1. UNCHANGED <<peer_vars, epoch_vars, asked, net_vars, minted, count>>
  BY DEF Tick
<1>2. LocalOK'
  BY <1>1 DEF NetInv, LocalOK, peer_vars, epoch_vars, net_vars
<1>3. TimesOK'
  <2>1. /\ \A n \in Node : restart_in[n] > 0 /\ request_in[n] > 0
                           /\ \A i \in DOMAIN tasks[n] : tasks[n][i] > 0
        /\ age' = [n \in Node |-> Capped(age[n] + 1, Reset + 1)]
        /\ restart_in' = [n \in Node |-> restart_in[n] - 1]
        /\ request_in' = [n \in Node |-> request_in[n] - 1]
        /\ tasks' = [n \in Node |-> [i \in DOMAIN tasks[n] |-> tasks[n][i] - 1]]
        /\ since' = [i \in DOMAIN since |-> Capped(since[i] + 1, Oldest)]
    BY DEF Tick
  <2>2. age' \in [Node -> 0..(Reset + 1)]
    <3>1. ASSUME NEW n \in Node PROVE age[n] + 1 \in Nat
      <4>1. age[n] \in 0..(Reset + 1)
        BY DEF NetInv, TimesOK
      <4> QED BY <4>1, Durations
    <3> QED BY <2>1, <3>1, CappedType, Durations
  <2>3. restart_in' \in [Node -> 0..(EPOCH_TIME \div 2)] /\ request_in' \in [Node -> 0..EPOCH_TIME]
    BY <2>1, Durations DEF NetInv, TimesOK
  <2>4. ASSUME NEW n \in Node
        PROVE  [i \in DOMAIN tasks[n] |-> tasks[n][i] - 1] \in Seq(0..EPOCH_TIME)
    <3>1. tasks[n] \in Seq(0..EPOCH_TIME) /\ DOMAIN tasks[n] = 1..Len(tasks[n])
          /\ Len(tasks[n]) \in Nat
      BY DEF NetInv, TimesOK
    <3>2. \A i \in 1..Len(tasks[n]) : tasks[n][i] - 1 \in 0..EPOCH_TIME
      BY <2>1, <3>1, Durations
    <3> QED BY <3>1, <3>2
  <2>5. since' \in Seq(0..Oldest) /\ Len(since') = Len(minted')
    <3>1. since \in Seq(0..Oldest) /\ DOMAIN since = 1..Len(since)
          /\ Len(since) \in Nat /\ Len(since) = Len(minted')
      BY <1>1 DEF NetInv, TimesOK
    <3>2. \A i \in 1..Len(since) : Capped(since[i] + 1, Oldest) \in 0..Oldest
      <4>1. \A i \in 1..Len(since) : since[i] + 1 \in Nat
        BY <3>1, Durations
      <4> QED BY <4>1, CappedType, Durations
    <3> QED BY <2>1, <3>1, <3>2
  <2>6. tasks' \in [Node -> Seq(0..EPOCH_TIME)]
    BY <2>1, <2>4
  <2> QED BY <2>2, <2>3, <2>5, <2>6 DEF TimesOK
<1>4. \A n \in Node : chain[n] = << >> /\ Idle(n) => Idle(n)'
  <2>1. ASSUME NEW n \in Node, tasks[n] = << >>
        PROVE  tasks'[n] = << >>
    <3>1. tasks'[n] = [i \in DOMAIN tasks[n] |-> tasks[n][i] - 1]
      BY DEF Tick
    <3> QED BY <2>1, <3>1
  <2> QED BY <1>1, <2>1 DEF Idle
<1>5. StakeCounted'
  BY <1>1, StakesKept DEF NetInv
<1> QED BY <1>1, <1>2, <1>3, <1>4, <1>5, Unseen DEF StepOK, net_vars

LEMMA OpenStakeStep ==
  ASSUME NetInv, NEW K, TxInv(K), NEW n \in Node, OpenStake(n)
  PROVE  StepOK(K)
<1>1. UNCHANGED <<peer_vars, tasks, restart_in, request_in, net_vars, block_vars, count>>
      /\ chain[n] # << >>
  BY DEF OpenStake
<1>2. LocalOK /\ TimesOK /\ StakeCounted
  BY DEF NetInv
<1>3. CASE /\ age[n] <= Registration
           /\ asked' = [asked EXCEPT ![n] = age[n]]
           /\ UNCHANGED <<epoch_vars, age>>
  <2>1. age[n] \in 0..(Reset + 1)
    BY <1>2 DEF TimesOK
  <2>2. asked' \in [Node -> (0..(Reset + 1)) \cup {None}]
    BY <1>2, <1>3, <2>1 DEF LocalOK
  <2>3. LocalOK' /\ TimesOK'
    BY <1>1, <1>2, <1>3, <2>2 DEF LocalOK, TimesOK, peer_vars, net_vars, block_vars, epoch_vars
  <2>4. \A m \in Node : m # n => asked'[m] = asked[m]
    BY <1>2, <1>3 DEF LocalOK
  <2>5. StakeCounted'
    BY <1>2, <1>3, StakesKept
  <2> QED BY <1>1, <2>3, <2>4, <2>5, Unseen DEF StepOK, Idle, net_vars, block_vars
<1>4. CASE /\ age' = [age EXCEPT ![n] = 0]
           /\ ForgetStakes(n)
           /\ asked' = [asked EXCEPT ![n] = IF n \in Faulty THEN mal_Restarted(n) ELSE 0]
  <2>1. age[n] \in 0..(Reset + 1) /\ 0 \in 0..(Reset + 1)
    BY <1>2, Durations DEF TimesOK
  <2>2. asked' \in [Node -> (0..(Reset + 1)) \cup {None}]
    BY <1>2, <1>4, <2>1 DEF LocalOK, mal_Restarted
  <2>3. age' \in [Node -> 0..(Reset + 1)]
    BY <1>2, <1>4, <2>1 DEF TimesOK
  <2>4. LocalOK'
    BY <1>1, <1>2, <1>4, <2>2, StakesForgotten DEF LocalOK, peer_vars, net_vars
  <2>5. TimesOK'
    BY <1>1, <1>2, <2>3 DEF TimesOK, block_vars
  <2>6. \A m \in Node : m # n => asked'[m] = asked[m]
    BY <1>2, <1>4 DEF LocalOK
  <2>7. StakeCounted'
    BY <1>2, <1>4, StakesForgotten
  <2> QED BY <1>1, <2>4, <2>5, <2>6, <2>7, Unseen DEF StepOK, Idle, net_vars, block_vars
<1> QED BY <1>3, <1>4 DEF OpenStake

LEMMA RestartStep ==
  ASSUME NetInv, NEW K, TxInv(K), NEW n \in Node, restart_epoch(n)
  PROVE  StepOK(K)
<1>1. UNCHANGED <<peer_vars, asked, tasks, request_in, net_vars, block_vars, count>>
  BY DEF restart_epoch
<1>2. LocalOK /\ TimesOK /\ StakeCounted
  BY DEF NetInv
<1>3. restart_in' \in [Node -> 0..(EPOCH_TIME \div 2)]
  BY <1>2, Durations DEF TimesOK, restart_epoch
<1>4. \/ age' = [age EXCEPT ![n] = 0] /\ ForgetStakes(n)
      \/ UNCHANGED <<age, epoch_vars>>
  BY DEF restart_epoch
<1>5. age' \in [Node -> 0..(Reset + 1)]
  <2>1. age \in [Node -> 0..(Reset + 1)] /\ 0 \in 0..(Reset + 1)
    BY <1>2, Durations DEF TimesOK
  <2> QED BY <1>4, <2>1
<1>6. TimesOK'
  BY <1>1, <1>2, <1>3, <1>5 DEF TimesOK, block_vars
<1>7. LocalOK' /\ StakeCounted'
  <2>1. CASE ForgetStakes(n)
    BY <1>1, <1>2, <2>1, StakesForgotten DEF LocalOK, peer_vars, net_vars
  <2>2. CASE UNCHANGED epoch_vars
    BY <1>1, <1>2, <2>2, StakesKept DEF LocalOK, peer_vars, net_vars, epoch_vars
  <2> QED BY <1>4, <2>1, <2>2
<1>8. \A m \in Node : chain[m] = << >> /\ Idle(m) => Idle(m)'
  BY <1>1 DEF Idle
<1> QED BY <1>1, <1>6, <1>7, <1>8, Unseen DEF StepOK, net_vars, block_vars

(***************************************************************************)
(* What a peer keeps, when a step leaves its stakes and timers alone.      *)
(***************************************************************************)
LEMMA LocalKept ==
  ASSUME NetInv, UNCHANGED <<epoch_vars, asked, timer_vars, block_vars>>
  PROVE  /\ TimesOK' /\ StakeCounted'
         /\ \A n \in Node : chain[n] = << >> /\ Idle(n) => Idle(n)'
         /\ /\ seen' \in [Node -> SUBSET Ids] /\ up' \in SUBSET Conn
            /\ count' \in [txs : Nat, stakes : Nat, blocks : Nat, slashes : Nat]
            => LocalOK'
<1>1. TimesOK' /\ StakeCounted'
  BY StakesKept DEF NetInv, TimesOK, timer_vars, block_vars, epoch_vars
<1>2. \A n \in Node : chain[n] = << >> /\ Idle(n) => Idle(n)'
  BY DEF Idle, timer_vars
<1>3. /\ seen' \in [Node -> SUBSET Ids] /\ up' \in SUBSET Conn
      /\ count' \in [txs : Nat, stakes : Nat, blocks : Nat, slashes : Nat]
      => LocalOK'
  BY DEF NetInv, LocalOK, epoch_vars
<1> QED BY <1>1, <1>2, <1>3

LEMMA FindLongestChainStep ==
  ASSUME NetInv, NEW K, TxInv(K), NEW n \in Node, find_longest_chain(n)
  PROVE  StepOK(K)
<1>1. UNCHANGED <<peer_vars, epoch_vars, asked, age, tasks, restart_in, up, block_vars, count>>
  BY DEF find_longest_chain
<1> PICK W : W = KnownMsg(K)'
  OBVIOUS
<1>2. inbox \in [Conn -> [Node -> Seq(W)]]
  BY <1>1, Unseen DEF block_vars
<1>3. [type |-> "chain_request"] \in W
  BY DEF KnownMsg
<1>4. ASSUME NEW c \in Conn, n \in Ends(c)
      PROVE  [inbox[c] EXCEPT ![Other(c, n)] = Append(@, [type |-> "chain_request"])]
               \in [Node -> Seq(W)]
  <2>1. Other(c, n) \in Node
    BY <1>4, EndsAreNodes
  <2>2. inbox[c] \in [Node -> Seq(W)] /\ inbox[c][Other(c, n)] \in Seq(W)
    BY <1>2, <2>1
  <2>3. Append(inbox[c][Other(c, n)], [type |-> "chain_request"]) \in Seq(W)
    BY <1>3, <2>2
  <2> QED BY <2>2, <2>3
<1>5. inbox' \in [Conn -> [Node -> Seq(W)]]
  <2>1. inbox' = [c \in Conn |->
       IF c \in up /\ n \in Ends(c) /\ ~ Asked(c, n)
       THEN [inbox[c] EXCEPT ![Other(c, n)] = Append(@, [type |-> "chain_request"])]
       ELSE inbox[c]]
    BY DEF find_longest_chain
  <2> QED BY <1>2, <1>4, <2>1
<1>6. Sent(K)'
  BY <1>1, <1>5, Unseen DEF Sent, block_vars
<1>7. TimesOK'
  <2>1. request_in' \in [Node -> 0..EPOCH_TIME]
    <3>1. request_in \in [Node -> 0..EPOCH_TIME] /\ EPOCH_TIME \in 0..EPOCH_TIME
      BY Durations DEF NetInv, TimesOK
    <3> QED BY <3>1 DEF find_longest_chain
  <2> QED BY <1>1, <2>1 DEF NetInv, TimesOK, block_vars
<1>8. LocalOK' /\ StakeCounted'
  BY <1>1, StakesKept DEF NetInv, LocalOK, epoch_vars, peer_vars
<1>9. \A m \in Node : chain[m] = << >> /\ Idle(m) => Idle(m)'
  BY <1>1 DEF Idle
<1> QED BY <1>1, <1>6, <1>7, <1>8, <1>9, Unseen DEF StepOK, block_vars

LEMMA ConnectStep ==
  ASSUME NetInv, NEW K, TxInv(K), NEW c \in Conn, connect_to_peer(c)
  PROVE  StepOK(K)
<1>1. UNCHANGED <<peer_vars, epoch_vars, asked, timer_vars, inbox, block_vars, count>>
  BY DEF connect_to_peer
<1>2. seen' \in [Node -> SUBSET Ids] /\ up' \in SUBSET Conn
      /\ count' \in [txs : Nat, stakes : Nat, blocks : Nat, slashes : Nat]
  BY <1>1 DEF connect_to_peer, NetInv, LocalOK, peer_vars
<1> QED BY <1>1, <1>2, Unseen, LocalKept DEF StepOK, block_vars

(***************************************************************************)
(* A chain that goes over the wire keeps what is known of it, and loses    *)
(* its marks.                                                              *)
(***************************************************************************)
LEMMA WireBlock ==
  ASSUME NEW K, NEW b \in KnownBlock(K)
  PROVE  over_the_wire(b) \in KnownBlock(K) /\ Base(over_the_wire(b)) = Base(b)
<1>1. b \in Block /\ Made(b) /\ b.transactions \in Seq(K) /\ DistinctIds(b.transactions)
  BY DEF KnownBlock
<1>2. /\ over_the_wire(b) \in Block /\ ~ over_the_wire(b).slash_creator
      /\ Base(over_the_wire(b)) = Base(b)
      /\ over_the_wire(b).transactions = b.transactions
  BY <1>1 DEF Block, over_the_wire, Base
<1>3. Made(over_the_wire(b))
  BY <1>1, <1>2 DEF Made
<1> QED BY <1>1, <1>2, <1>3 DEF KnownBlock

LEMMA WireChain ==
  ASSUME NEW K, NEW c \in KnownChain(K)
  PROVE  to_block_dict_list(c) \in KnownChain(K)
<1> DEFINE d == to_block_dict_list(c)
<1>1. /\ c \in Seq(KnownBlock(K)) /\ Apart(c) /\ (c # << >> => Header(c[1]) = FirstHeader)
      /\ DOMAIN c = 1..Len(c) /\ Len(c) \in Nat
      /\ \A i \in DOMAIN c : c[i] \in KnownBlock(K)
  BY ChainFacts
<1>2. /\ DOMAIN d = DOMAIN c
      /\ \A i \in DOMAIN c : d[i] \in KnownBlock(K) /\ Base(d[i]) = Base(c[i])
  BY <1>1, WireBlock DEF to_block_dict_list
<1>3. d \in Seq(KnownBlock(K)) /\ (d # << >> => c # << >> /\ 1 \in DOMAIN c)
  BY <1>1, <1>2 DEF to_block_dict_list
<1> HIDE DEF d
<1>4. \A i \in DOMAIN c : /\ d[i].transactions = c[i].transactions
                          /\ d[i].hash = c[i].hash /\ d[i].prevHash = c[i].prevHash
  BY <1>2 DEF Base
<1>5. Apart(d)
  BY <1>1, <1>2, <1>4 DEF Apart
<1>6. d # << >> => Header(d[1]) = FirstHeader
  BY <1>1, <1>3, <1>4 DEF Header
<1>7. d \in KnownChain(K)
  BY <1>3, <1>5, <1>6 DEF KnownChain
<1> QED BY <1>7 DEF d

LEMMA HandleChainRequestStep ==
  ASSUME NetInv, NEW K, TxInv(K), NEW c \in Conn, NEW n \in Ends(c), HandleChainRequest(c, n)
  PROVE  StepOK(K)
<1>1. UNCHANGED <<peer_vars, epoch_vars, asked, timer_vars, up, block_vars, count>>
      /\ n \in Node /\ Other(c, n) \in Node /\ inbox[c][n] # << >>
  BY EndsAreNodes DEF HandleChainRequest, Reads
<1> PICK W : W = KnownMsg(K)'
  OBVIOUS
<1>2. inbox \in [Conn -> [Node -> Seq(W)]]
  BY <1>1, Unseen DEF block_vars
<1>3. Read(c, n) \in [Conn -> [Node -> Seq(W)]]
  BY <1>1, <1>2, ReadType
<1> DEFINE msg == [type |-> "chain", chain |-> to_block_dict_list(chain[n])]
<1>4. msg \in W
  <2>1. to_block_dict_list(chain[n]) \in KnownChain(K)
    BY <1>1, WireChain DEF TxInv
  <2>2. to_block_dict_list(chain[n]) \in KnownChain(K)'
    <3>1. Grows
      BY <1>1, Unseen DEF block_vars
    <3> QED BY <2>1, <3>1, KnownGrows
  <2>3. msg \in KnownMsg(K)'
    BY <2>2 DEF KnownMsg
  <2> HIDE DEF msg
  <2> QED BY <2>3
<1> HIDE DEF msg
<1>5. [Read(c, n) EXCEPT ![c][Other(c, n)] = Append(@, msg)] \in [Conn -> [Node -> Seq(W)]]
  <2>1. Read(c, n)[c] \in [Node -> Seq(W)] /\ Read(c, n)[c][Other(c, n)] \in Seq(W)
    BY <1>1, <1>3
  <2>2. Append(Read(c, n)[c][Other(c, n)], msg) \in Seq(W)
    BY <1>4, <2>1
  <2> QED BY <1>1, <1>3, <2>1, <2>2
<1>6. inbox' \in [Conn -> [Node -> Seq(W)]]
  BY <1>3, <1>5 DEF HandleChainRequest, msg
<1>7. Sent(K)'
  BY <1>1, <1>6, Unseen DEF Sent, block_vars
<1>8. seen' \in [Node -> SUBSET Ids] /\ up' \in SUBSET Conn
      /\ count' \in [txs : Nat, stakes : Nat, blocks : Nat, slashes : Nat]
  BY <1>1 DEF NetInv, LocalOK, peer_vars
<1> QED BY <1>1, <1>7, <1>8, Unseen, LocalKept DEF StepOK, block_vars

(***************************************************************************)
(* Steps that mark one message as seen; no mark is of a transaction that   *)
(* was not made yet.                                                       *)
(***************************************************************************)
CountType == [txs : Nat, stakes : Nat, blocks : Nat, slashes : Nat]

\* Counting a slashing, a draw, or a draw and a transaction.
LEMMA CountUp ==
  ASSUME NEW was \in CountType
  PROVE  /\ was.txs \in Nat /\ was.slashes + 1 \in Nat /\ was.slashes \in Nat
         /\ [was EXCEPT !.slashes = @ + 1] \in CountType
         /\ [was EXCEPT !.slashes = @ + 1].txs = was.txs
         /\ [was EXCEPT !.blocks = @ + 1] \in CountType
         /\ [was EXCEPT !.blocks = @ + 1].txs = was.txs
         /\ [was EXCEPT !.blocks = @ + 1, !.txs = @ + 1] \in CountType
         /\ [was EXCEPT !.blocks = @ + 1, !.txs = @ + 1].txs = was.txs + 1
         /\ was.txs <= was.txs + 1 /\ was.txs <= was.txs
<1>1. PICK t, s, b, l \in Nat : was = [txs |-> t, stakes |-> s, blocks |-> b, slashes |-> l]
  BY DEF CountType
<1>2. was.txs = t /\ was.slashes = l /\ was.blocks = b
  BY <1>1
<1>3. [was EXCEPT !.slashes = @ + 1] = [txs |-> t, stakes |-> s, blocks |-> b, slashes |-> l + 1]
  BY <1>1
<1>4. [was EXCEPT !.blocks = @ + 1] = [txs |-> t, stakes |-> s, blocks |-> b + 1, slashes |-> l]
  BY <1>1
<1>5. [was EXCEPT !.blocks = @ + 1, !.txs = @ + 1]
        = [txs |-> t + 1, stakes |-> s, blocks |-> b + 1, slashes |-> l]
  <2>1. [was EXCEPT !.blocks = @ + 1, !.txs = @ + 1]
          = [[was EXCEPT !.blocks = @ + 1] EXCEPT !.txs = @ + 1]
    BY <1>1
  <2>2. [[txs |-> t, stakes |-> s, blocks |-> b + 1, slashes |-> l] EXCEPT !.txs = @ + 1]
          = [txs |-> t + 1, stakes |-> s, blocks |-> b + 1, slashes |-> l]
    OBVIOUS
  <2> QED BY <1>4, <2>1, <2>2
<1>6. t + 1 \in Nat /\ l + 1 \in Nat /\ b + 1 \in Nat /\ t <= t + 1 /\ t <= t
  OBVIOUS
<1> QED BY <1>2, <1>3, <1>4, <1>5, <1>6 DEF CountType

LEMMA Marked ==
  ASSUME NetInv, NEW n \in Node, NEW msg, MsgId(msg) \in Ids, seen' = MarkSeen(n, {msg}),
         count' \in CountType, count.txs <= count'.txs,
         MsgId(msg)[1] = "new_tx" => MsgId(msg)[2] <= count'.txs
  PROVE  /\ seen' \in [Node -> SUBSET Ids] /\ SeenInv'
         /\ \A m \in Node : seen[m] \subseteq seen'[m]
         /\ MsgId(msg) \in seen'[n]
         /\ seen' = [seen EXCEPT ![n] = @ \cup {MsgId(msg)}]
         /\ UNCHANGED minted => Grows
         /\ UNCHANGED mem_pool => PoolInv'
<1>1. seen \in [Node -> SUBSET Ids] /\ count.txs \in Nat /\ count'.txs \in Nat
  BY DEF NetInv, LocalOK, CountType
<1>2. /\ seen' \in [Node -> SUBSET Ids]
      /\ seen' = [seen EXCEPT ![n] = @ \cup {MsgId(msg)}]
      /\ \A m \in Node : seen[m] \subseteq seen'[m]
      /\ MsgId(msg) \in seen'[n]
      /\ \A m \in Node : \A mark \in seen'[m] : mark \in seen[m] \/ mark = MsgId(msg)
  BY <1>1, MarkOne
<1>3. SeenInv'
  <2>1. ASSUME NEW m \in Node, NEW mark \in seen'[m], mark[1] = "new_tx"
        PROVE  mark[2] <= count'.txs
    <3>1. CASE mark \in seen[m]
      <4>1. mark \in Ids
        BY <1>1, <3>1
      <4>2. mark[2] <= count.txs /\ mark[2] \in Nat
        BY <2>1, <3>1, <4>1 DEF NetInv, SeenInv, Ids
      <4> QED BY <1>1, <4>2
    <3>2. CASE mark = MsgId(msg)
      BY <2>1, <3>2
    <3> QED BY <1>2, <3>1, <3>2
  <2> QED BY <2>1 DEF SeenInv
<1>4. UNCHANGED minted => Grows
  BY <1>2 DEF Grows
<1>5. UNCHANGED mem_pool => PoolInv'
  BY <1>2, PoolSame DEF NetInv
<1> QED BY <1>2, <1>3, <1>4, <1>5

LEMMA KnownMarked ==
  ASSUME NetInv, NEW K, TxInv(K), NEW msg \in KnownMsg(K),
         msg.type \notin {"chain_request", "chain"}
  PROVE  /\ MsgId(msg) \in Ids
         /\ MsgId(msg)[1] = "new_tx" => MsgId(msg)[2] <= count.txs
<1>1. /\ MsgId(msg) \in Ids
      /\ msg.type # "new_tx" => MsgId(msg)[1] # "new_tx"
      /\ msg.type = "new_tx" => MsgId(msg) = <<"new_tx", msg.transaction.id>>
  BY MarkType DEF TxInv
<1>2. ASSUME MsgId(msg)[1] = "new_tx"
      PROVE  MsgId(msg)[2] <= count.txs
  <2>1. msg.type = "new_tx" /\ msg.transaction \in K
    BY <1>1, <1>2, MessageFields
  <2>2. msg.transaction.id <= count.txs
    BY <2>1 DEF TxInv
  <2> QED BY <1>1, <2>1, <2>2
<1> QED BY <1>1, <1>2

(***************************************************************************)
(* A transaction with the next id joins those there are.                   *)
(***************************************************************************)
LEMMA NextTx ==
  ASSUME NetInv, NEW K, TxInv(K), NEW tx \in Tx, tx.id = count.txs + 1,
         count'.txs = count.txs + 1
  PROVE  /\ K \cup {tx} \in SUBSET Tx /\ UniqueIds(K \cup {tx})
         /\ \A t \in K \cup {tx} : t.id <= count'.txs
<1>1. /\ K \in SUBSET Tx /\ UniqueIds(K) /\ \A t \in K : t.id <= count.txs
      /\ count.txs \in Nat
  BY DEF TxInv, NetInv, LocalOK
<1>2. \A t \in K : t.id \in Nat /\ t.id # tx.id
  <2>1. \A t \in K : t.id \in Nat
    BY <1>1 DEF Tx
  <2> QED BY <1>1, <2>1
<1> QED BY <1>1, <1>2 DEF UniqueIds

LEMMA CreateStep ==
  ASSUME NetInv, NEW K, TxInv(K), NEW n \in Node, NEW rec \in Account, NEW amt \in Amount,
         create_and_broadcast_tx(n, rec, amt)
  PROVE  \E L : K \subseteq L /\ StepOK(L)
<1> PICK tx : tx = [id |-> count.txs + 1, sender |-> n, receiver |-> rec, amount |-> amt]
  OBVIOUS
<1> DEFINE msg == [type |-> "new_tx", transaction |-> tx]
<1>1. /\ count' = [count EXCEPT !.txs = @ + 1]
      /\ seen' = MarkSeen(n, {msg})
      /\ mem_pool' = [mem_pool EXCEPT ![n] = Append(@, tx)]
      /\ inbox' = broadcast_message(n, msg, inbox)
      /\ UNCHANGED <<chain, epoch_vars, asked, timer_vars, up, block_vars>>
  BY DEF create_and_broadcast_tx
<1>2. count \in CountType /\ count.txs \in Nat
  BY DEF NetInv, LocalOK, CountType
<1>3. count' \in CountType /\ count'.txs = count.txs + 1
  BY <1>1, <1>2 DEF CountType
<1>4. tx \in Tx /\ tx.id = count.txs + 1
  BY <1>2, NetworkAssumption DEF Tx
<1> PICK L : L = K \cup {tx}
  OBVIOUS
<1>5. K \subseteq L /\ tx \in L /\ L \in SUBSET Tx /\ UniqueIds(L)
      /\ \A t \in L : t.id <= count'.txs
  BY <1>3, <1>4, NextTx
<1>6. MsgId(msg) = <<"new_tx", tx.id>>
  BY DEF MsgId
<1> PICK W : W = KnownMsg(L)'
  OBVIOUS
<1>7. msg \in W
  BY <1>5 DEF KnownMsg
<1> HIDE DEF msg
<1>8. /\ MsgId(msg) \in Ids /\ count.txs <= count'.txs
      /\ MsgId(msg)[1] = "new_tx" => MsgId(msg)[2] <= count'.txs
  <2>1. tx.id \in Nat
    BY <1>2, <1>4
  <2>2. MsgId(msg)[2] = tx.id
    BY <1>6
  <2> QED BY <1>2, <1>3, <1>4, <1>6, <2>1, <2>2 DEF Ids
<1>9. /\ seen' \in [Node -> SUBSET Ids] /\ SeenInv'
      /\ seen' = [seen EXCEPT ![n] = @ \cup {MsgId(msg)}]
      /\ Grows
  BY <1>1, <1>3, <1>8, Marked DEF block_vars
<1>10. PoolInv'
  <2>1. <<"new_tx", tx.id>> \notin seen[n]
    <3>1. ASSUME <<"new_tx", tx.id>> \in seen[n] PROVE FALSE
      <4>1. tx.id <= count.txs
        BY <3>1 DEF NetInv, SeenInv
      <4> QED BY <1>2, <1>4, <4>1
    <3> QED BY <3>1
  <2>2. mem_pool \in [Node -> Seq(K)] /\ seen \in [Node -> SUBSET Ids] /\ PoolInv
    BY DEF TxInv, Sent, NetInv, LocalOK
  <2> QED BY <1>1, <1>6, <1>9, <2>1, <2>2, PoolAdds
<1>11. Sent(L)'
  <2>1. mem_pool \in [Node -> Seq(L)] /\ inbox \in [Conn -> [Node -> Seq(W)]]
    BY <1>5, <1>9, SentGrows DEF TxInv
  <2>2. inbox' \in [Conn -> [Node -> Seq(W)]]
    BY <1>1, <1>7, <2>1, BroadcastType
  <2>3. mem_pool' \in [Node -> Seq(L)]
    BY <1>1, <1>5, <2>1
  <2> QED BY <2>2, <2>3 DEF Sent
<1>12. ChainStep(L)
  BY <1>1 DEF ChainStep, block_vars
<1>13. up' \in SUBSET Conn
  BY <1>1 DEF NetInv, LocalOK
<1> QED BY <1>1, <1>3, <1>5, <1>9, <1>10, <1>11, <1>12, <1>13, LocalKept DEF StepOK, CountType

LEMMA HandleNewTxStep ==
  ASSUME NetInv, NEW K, TxInv(K), NEW c \in Conn, NEW n \in Ends(c), HandleNewTx(c, n)
  PROVE  StepOK(K)
<1> PICK msg : msg = Head(inbox[c][n])
  OBVIOUS
<1>1. /\ n \in Node /\ inbox[c][n] # << >> /\ msg.type = "new_tx"
      /\ UNCHANGED <<chain, epoch_vars, asked, timer_vars, block_vars, count>>
      /\ seen' = MarkSeen(n, {msg})
      /\ \/ /\ MsgId(msg) \notin seen[n]
            /\ mem_pool' = [mem_pool EXCEPT ![n] = Append(@, msg.transaction)]
            /\ inbox' = broadcast_message(n, msg, Read(c, n))
            /\ UNCHANGED up
         \/ HandlerFails(c, n) /\ UNCHANGED mem_pool
         \/ inbox' = Read(c, n) /\ UNCHANGED <<mem_pool, up>>
  BY EndsAreNodes DEF HandleNewTx, Reads
<1>2. msg \in KnownMsg(K)
  BY <1>1, ReadType DEF TxInv, Sent
<1>3. msg.transaction \in K /\ MsgId(msg) = <<"new_tx", msg.transaction.id>>
  BY <1>1, <1>2, MessageFields, MarkType DEF TxInv
<1>4. count' \in CountType /\ count.txs <= count'.txs /\ count' = count
  BY <1>1 DEF NetInv, LocalOK, CountType
<1>5. /\ seen' \in [Node -> SUBSET Ids] /\ SeenInv'
      /\ seen' = [seen EXCEPT ![n] = @ \cup {MsgId(msg)}]
      /\ Grows /\ (UNCHANGED mem_pool => PoolInv')
  BY <1>1, <1>2, <1>4, KnownMarked, Marked DEF block_vars
<1> PICK W : W = KnownMsg(K)'
  OBVIOUS
<1>6. /\ msg \in W /\ mem_pool \in [Node -> Seq(K)]
      /\ inbox \in [Conn -> [Node -> Seq(W)]]
      /\ Read(c, n) \in [Conn -> [Node -> Seq(W)]]
  <2>1. msg \in W /\ mem_pool \in [Node -> Seq(K)] /\ inbox \in [Conn -> [Node -> Seq(W)]]
    BY <1>2, <1>5, SentGrows, KnownGrows DEF TxInv
  <2> QED BY <1>1, <2>1, ReadType
<1>7. up \in SUBSET Conn
  BY DEF NetInv, LocalOK
<1>8. inbox' \in [Conn -> [Node -> Seq(W)]] /\ up' \in SUBSET Conn
  <2>1. broadcast_message(n, msg, Read(c, n)) \in [Conn -> [Node -> Seq(W)]]
    BY <1>1, <1>6, BroadcastType
  <2>2. HandlerFails(c, n) => inbox' \in [Conn -> [Node -> Seq(W)]] /\ up' \in SUBSET Conn
    BY <1>1, <1>6, <1>7, HandlerFailsType
  <2> QED BY <1>1, <1>6, <1>7, <2>1, <2>2
<1>9. PoolInv' /\ mem_pool' \in [Node -> Seq(K)]
  <2>1. CASE UNCHANGED mem_pool
    BY <1>5, <1>6, <2>1
  <2>2. CASE /\ MsgId(msg) \notin seen[n]
             /\ mem_pool' = [mem_pool EXCEPT ![n] = Append(@, msg.transaction)]
    <3>1. PoolInv /\ seen \in [Node -> SUBSET Ids]
      BY DEF NetInv, LocalOK
    <3> PICK tx : tx = msg.transaction
      OBVIOUS
    <3>2. PoolInv'
      <4>1. /\ mem_pool' = [mem_pool EXCEPT ![n] = Append(@, tx)]
            /\ <<"new_tx", tx.id>> \notin seen[n] /\ tx \in K
            /\ seen' = [seen EXCEPT ![n] = @ \cup {<<"new_tx", tx.id>>}]
        BY <1>3, <1>5, <2>2
      <4> QED BY <1>1, <1>6, <3>1, <4>1, PoolAdds
    <3> QED BY <1>1, <1>3, <1>6, <2>2, <3>2
  <2> QED BY <1>1, <2>1, <2>2
<1>10. Sent(K)'
  BY <1>8, <1>9 DEF Sent
<1>11. ChainStep(K)
  BY <1>1 DEF ChainStep, block_vars
<1> QED BY <1>1, <1>4, <1>5, <1>8, <1>9, <1>10, <1>11, LocalKept DEF StepOK, CountType, TxInv

LEMMA SubmitStakeStep ==
  ASSUME NetInv, NEW K, TxInv(K), NEW n \in Node, NEW amt \in StakeAmount, SubmitStake(n, amt)
  PROVE  StepOK(K)
<1> PICK stake : stake = [id |-> count.stakes + 1, staker |-> n, amt |-> amt, sign |-> TRUE]
  OBVIOUS
<1> DEFINE msg == [type |-> "stake_announcement", stake |-> stake]
<1>1. /\ asked[n] # None /\ asked' = [asked EXCEPT ![n] = None]
      /\ UNCHANGED <<chain, mem_pool, age, restart_in, request_in, up, block_vars>>
  BY DEF SubmitStake
<1>2. /\ LocalOK /\ TimesOK /\ StakeCounted /\ count \in CountType /\ count.stakes \in Nat
      /\ seen \in [Node -> SUBSET Ids] /\ up \in SUBSET Conn
  BY DEF NetInv, LocalOK, CountType
<1>3. asked' \in [Node -> (0..(Reset + 1)) \cup {None}]
      /\ \A m \in Node : m # n => asked'[m] = asked[m]
  BY <1>1, <1>2 DEF LocalOK
<1>4. CASE UNCHANGED <<count, seen, epoch_vars, tasks, inbox>>
  <2>1. LocalOK' /\ TimesOK'
    BY <1>1, <1>2, <1>3, <1>4 DEF LocalOK, TimesOK, epoch_vars, block_vars
  <2>2. StakeCounted'
    BY <1>2, <1>4, StakesKept
  <2>3. UNCHANGED <<peer_vars, minted, count, inbox>>
    BY <1>1, <1>4 DEF peer_vars, block_vars
  <2>4. /\ Grows /\ ChainStep(K) /\ PoolInv' /\ SeenInv' /\ Sent(K)'
        /\ K \in SUBSET Tx /\ UniqueIds(K) /\ \A t \in K : t.id <= count'.txs
    BY <2>3, Unseen
  <2>5. \A m \in Node : chain[m] = << >> /\ Idle(m) => Idle(m)'
    BY <1>1, <1>3, <1>4 DEF Idle
  <2> QED BY <2>1, <2>2, <2>4, <2>5 DEF StepOK
<1>5. CASE /\ count' = [count EXCEPT !.stakes = @ + 1]
           /\ seen' = MarkSeen(n, {msg})
           /\ current_stakes' = [current_stakes EXCEPT ![n] = @ \cup {stake}]
           /\ current_stakers' = [current_stakers EXCEPT ![n][n] = amt]
           /\ staked_amt' = [staked_amt EXCEPT ![n] = amt]
           /\ tasks' = [tasks EXCEPT ![n] =
                Append(@, IF asked[n] > EPOCH_TIME THEN 0 ELSE EPOCH_TIME - asked[n])]
           /\ inbox' = broadcast_message(n, msg, inbox)
  <2>1. /\ stake \in Stake /\ n \in Account /\ amt \in Int
        /\ stake.id = count.stakes + 1 /\ stake.staker = n /\ stake.amt = amt /\ stake.sign
    BY <1>2, NetworkAssumption DEF Stake
  <2>2. MsgId(msg) = <<"stake", stake.id>>
    BY DEF MsgId
  <2>3. count' \in CountType /\ count'.txs = count.txs /\ count.txs \in Nat
    BY <1>2, <1>5 DEF CountType
  <2>4. MsgId(msg) \in Ids /\ (MsgId(msg)[1] = "new_tx" => MsgId(msg)[2] <= count'.txs)
    <3>1. stake.id \in Nat
      BY <1>2, <2>1
    <3>2. MsgId(msg)[1] # "new_tx"
      BY <2>2
    <3> QED BY <2>2, <3>1, <3>2 DEF Ids
  <2>5. /\ seen' \in [Node -> SUBSET Ids] /\ SeenInv' /\ Grows /\ PoolInv'
        /\ MsgId(msg) \in seen'[n]
    <3>1. count.txs <= count'.txs
      BY <2>3
    <3> HIDE DEF msg
    <3> QED BY <1>1, <1>5, <2>3, <2>4, <3>1, Marked DEF block_vars
  <2> PICK W : W = KnownMsg(K)'
    OBVIOUS
  <2>6. msg \in W
    <3>1. stake \in KnownStake'
      BY <2>1, <2>2, <2>5 DEF KnownStake
    <3> QED BY <3>1 DEF KnownMsg
  <2>7. Sent(K)'
    <3>1. mem_pool \in [Node -> Seq(K)] /\ inbox \in [Conn -> [Node -> Seq(W)]]
      BY <2>5, SentGrows DEF TxInv
    <3>2. inbox' \in [Conn -> [Node -> Seq(W)]]
      <4> HIDE DEF msg
      <4> QED BY <1>5, <2>6, <3>1, BroadcastType
    <3> QED BY <1>1, <3>1, <3>2 DEF Sent
  <2>8. /\ current_stakes' \in [Node -> SUBSET Stake]
        /\ \A m \in Node : IsFiniteSet(current_stakes'[m])
        /\ current_stakers' \in [Node -> [Account -> Int]]
        /\ staked_amt' \in [Node -> Int]
    <3>1. IsFiniteSet(current_stakes[n] \cup {stake})
      BY <1>2, FS_AddElement DEF LocalOK
    <3>2. /\ current_stakes \in [Node -> SUBSET Stake]
          /\ \A m \in Node : IsFiniteSet(current_stakes[m])
          /\ current_stakers \in [Node -> [Account -> Int]]
          /\ staked_amt \in [Node -> Int]
      BY <1>2 DEF LocalOK
    <3>3. current_stakes' \in [Node -> SUBSET Stake] /\ staked_amt' \in [Node -> Int]
      BY <1>5, <2>1, <3>2
    <3>4. \A m \in Node : IsFiniteSet(current_stakes'[m])
      BY <1>5, <3>1, <3>2
    <3>5. current_stakers' \in [Node -> [Account -> Int]]
      <4>1. [current_stakers[n] EXCEPT ![n] = amt] \in [Account -> Int]
        BY <2>1, <3>2
      <4> QED BY <1>5, <3>2, <4>1
    <3> QED BY <3>3, <3>4, <3>5
  <2>9. LocalOK'
    BY <1>1, <1>2, <1>3, <2>3, <2>5, <2>8 DEF LocalOK, CountType
  <2>10. TimesOK'
    <3>1. asked[n] \in 0..(Reset + 1)
      BY <1>1, <1>2 DEF LocalOK
    <3>2. (IF asked[n] > EPOCH_TIME THEN 0 ELSE EPOCH_TIME - asked[n]) \in 0..EPOCH_TIME
      BY <3>1, Durations
    <3>3. tasks \in [Node -> Seq(0..EPOCH_TIME)]
      BY <1>2 DEF TimesOK
    <3> DEFINE sleep == IF asked[n] > EPOCH_TIME THEN 0 ELSE EPOCH_TIME - asked[n]
    <3>4. tasks' = [tasks EXCEPT ![n] = Append(@, sleep)] /\ sleep \in 0..EPOCH_TIME
      BY <1>5, <3>2
    <3> HIDE DEF sleep
    <3>5. tasks' \in [Node -> Seq(0..EPOCH_TIME)]
      BY <3>3, <3>4
    <3> QED BY <1>1, <1>2, <3>5 DEF TimesOK, block_vars
  <2>11. StakeCounted'
    <3>1. /\ current_stakers'[n][n] = amt /\ staked_amt'[n] = amt
          /\ stake \in current_stakes'[n]
          /\ \A m \in Node : m # n => /\ staked_amt'[m] = staked_amt[m]
                                      /\ current_stakers'[m] = current_stakers[m]
                                      /\ current_stakes'[m] = current_stakes[m]
      <4>1. current_stakers[n] \in [Account -> Int]
        BY <1>2 DEF LocalOK
      <4> QED BY <1>2, <1>5, <2>1, <4>1 DEF LocalOK
    <3> QED BY <1>2, <2>1, <3>1 DEF StakeCounted
  <2>12. \A m \in Node : chain[m] = << >> /\ Idle(m) => Idle(m)'
    <3>1. \A m \in Node : m # n => tasks'[m] = tasks[m]
      BY <1>2, <1>5 DEF TimesOK
    <3> QED BY <1>1, <1>3, <3>1 DEF Idle
  <2>13. ChainStep(K) /\ \A t \in K : t.id <= count'.txs
    BY <1>1, <2>3 DEF ChainStep, block_vars, TxInv
  <2> QED BY <2>5, <2>7, <2>9, <2>10, <2>11, <2>12, <2>13 DEF StepOK, TxInv
<1> QED BY <1>4, <1>5 DEF SubmitStake

(***************************************************************************)
(* What a peer heard of its own stake it has seen before: it never takes   *)
(* its own announcement, whose stake would come without a signature.       *)
(***************************************************************************)
LEMMA HandleStakeStep ==
  ASSUME NetInv, NEW K, TxInv(K), NEW c \in Conn, NEW n \in Ends(c), HandleStake(c, n)
  PROVE  StepOK(K)
<1> PICK msg : msg = Head(inbox[c][n])
  OBVIOUS
<1> PICK stake : stake = msg.stake
  OBVIOUS
<1>1. /\ n \in Node /\ inbox[c][n] # << >> /\ msg.type = "stake_announcement"
      /\ UNCHANGED <<chain, mem_pool, staked_amt, asked, timer_vars, block_vars, count>>
      /\ seen' = MarkSeen(n, {msg})
      /\ \/ /\ MsgId(msg) \notin seen[n]
            /\ current_stakes' = [current_stakes EXCEPT ![n] =
                                     @ \cup {[stake EXCEPT !.sign = FALSE]}]
            /\ current_stakers' = [current_stakers EXCEPT ![n][stake.staker] = stake.amt]
            /\ inbox' = broadcast_message(n, msg, Read(c, n))
            /\ UNCHANGED up
         \/ HandlerFails(c, n) /\ UNCHANGED <<current_stakes, current_stakers>>
         \/ inbox' = Read(c, n) /\ UNCHANGED <<current_stakes, current_stakers, up>>
  BY EndsAreNodes DEF HandleStake, Reads
<1>2. msg \in KnownMsg(K)
  BY <1>1, ReadType DEF TxInv, Sent
<1>3. stake \in KnownStake /\ MsgId(msg) = <<"stake", stake.id>>
  <2>1. stake \in KnownStake
    BY <1>1, <1>2, MessageFields
  <2>2. MsgId(msg) = <<"stake", msg.stake.id>>
    BY <1>1 DEF MsgId
  <2> QED BY <2>1, <2>2
<1>4. count' \in CountType /\ count.txs <= count'.txs /\ count' = count
  BY <1>1 DEF NetInv, LocalOK, CountType
<1>5. seen' \in [Node -> SUBSET Ids] /\ SeenInv' /\ Grows /\ PoolInv'
  BY <1>1, <1>2, <1>4, KnownMarked, Marked DEF block_vars
<1> PICK W : W = KnownMsg(K)'
  OBVIOUS
<1>6. /\ msg \in W /\ mem_pool \in [Node -> Seq(K)]
      /\ inbox \in [Conn -> [Node -> Seq(W)]]
      /\ Read(c, n) \in [Conn -> [Node -> Seq(W)]]
  <2>1. msg \in W /\ mem_pool \in [Node -> Seq(K)] /\ inbox \in [Conn -> [Node -> Seq(W)]]
    BY <1>2, <1>5, SentGrows, KnownGrows DEF TxInv
  <2> QED BY <1>1, <2>1, ReadType
<1>7. LocalOK /\ TimesOK /\ StakeCounted /\ up \in SUBSET Conn
  BY DEF NetInv, LocalOK
<1>8. inbox' \in [Conn -> [Node -> Seq(W)]] /\ up' \in SUBSET Conn
  <2>1. broadcast_message(n, msg, Read(c, n)) \in [Conn -> [Node -> Seq(W)]]
    BY <1>1, <1>6, BroadcastType
  <2>2. HandlerFails(c, n) => inbox' \in [Conn -> [Node -> Seq(W)]] /\ up' \in SUBSET Conn
    BY <1>1, <1>6, <1>7, HandlerFailsType
  <2> QED BY <1>1, <1>6, <1>7, <2>1, <2>2
<1>9. Sent(K)'
  BY <1>1, <1>6, <1>8 DEF Sent
<1>10. TimesOK'
  BY <1>1, <1>7 DEF TimesOK, timer_vars, block_vars
<1>11. /\ current_stakes' \in [Node -> SUBSET Stake]
       /\ \A m \in Node : IsFiniteSet(current_stakes'[m])
       /\ current_stakers' \in [Node -> [Account -> Int]]
       /\ StakeCounted'
  <2>1. CASE UNCHANGED <<current_stakes, current_stakers>>
    BY <1>1, <1>7, <2>1 DEF LocalOK, StakeCounted
  <2>2. CASE /\ MsgId(msg) \notin seen[n]
             /\ current_stakes' = [current_stakes EXCEPT ![n] =
                                     @ \cup {[stake EXCEPT !.sign = FALSE]}]
             /\ current_stakers' = [current_stakers EXCEPT ![n][stake.staker] = stake.amt]
    <3> PICK unsigned : unsigned = [stake EXCEPT !.sign = FALSE]
      OBVIOUS
    <3>1. /\ unsigned \in Stake /\ stake.staker \in Account /\ stake.amt \in Int
          /\ stake.staker # n
      <4>1. stake \in Stake /\ <<"stake", stake.id>> \in seen[stake.staker]
        BY <1>3 DEF KnownStake
      <4>2. stake.staker \in Account /\ stake.amt \in Int
        BY <4>1 DEF Stake
      <4>3. unsigned \in Stake
        BY <4>1 DEF Stake
      <4> QED BY <1>3, <2>2, <4>1, <4>2, <4>3
    <3>2. /\ current_stakes \in [Node -> SUBSET Stake]
          /\ \A m \in Node : IsFiniteSet(current_stakes[m])
          /\ current_stakers \in [Node -> [Account -> Int]]
      BY <1>7 DEF LocalOK
    <3>3. current_stakes' = [current_stakes EXCEPT ![n] = @ \cup {unsigned}]
      BY <2>2
    <3>4. current_stakes' \in [Node -> SUBSET Stake]
      BY <1>1, <3>1, <3>2, <3>3
    <3>5. \A m \in Node : IsFiniteSet(current_stakes'[m])
      <4>1. IsFiniteSet(current_stakes[n] \cup {unsigned})
        BY <1>1, <3>2, FS_AddElement
      <4> QED BY <3>2, <3>3, <4>1
    <3>6. [current_stakers[n] EXCEPT ![stake.staker] = stake.amt] \in [Account -> Int]
      BY <1>1, <3>1, <3>2
    <3>7. current_stakers' \in [Node -> [Account -> Int]]
      BY <2>2, <3>2, <3>6
    <3>8. /\ \A m \in Node : current_stakes[m] \subseteq current_stakes'[m]
          /\ \A m \in Node : m # n => current_stakers'[m] = current_stakers[m]
          /\ current_stakers'[n][n] = current_stakers[n][n]
      <4>1. current_stakers'[n] = [current_stakers[n] EXCEPT ![stake.staker] = stake.amt]
        BY <1>1, <2>2, <3>2
      <4>2. current_stakers'[n][n] = current_stakers[n][n]
        BY <1>1, <3>1, <3>2, <4>1, NetworkAssumption
      <4> QED BY <2>2, <3>2, <3>3, <4>2
    <3>9. StakeCounted'
      BY <1>1, <1>7, <3>8 DEF StakeCounted
    <3> QED BY <3>4, <3>5, <3>7, <3>9
  <2> QED BY <1>1, <2>1, <2>2
<1>12. LocalOK'
  BY <1>1, <1>4, <1>5, <1>7, <1>8, <1>11 DEF LocalOK, CountType
<1>13. ChainStep(K) /\ \A m \in Node : chain[m] = << >> /\ Idle(m) => Idle(m)'
  BY <1>1 DEF ChainStep, block_vars, Idle, timer_vars
<1> QED BY <1>4, <1>5, <1>9, <1>10, <1>11, <1>12, <1>13 DEF StepOK, TxInv

-----------------------------------------------------------------------------
(***************************************************************************)
(* A block whose transactions are not in a chain brings no id that is in   *)
(* it.                                                                     *)
(***************************************************************************)
LEMMA FreshOnTop ==
  ASSUME NEW K, UniqueIds(K), NEW c, NEW b,
         \A i \in DOMAIN c : c[i].transactions \in Seq(K),
         b.transactions \in Seq(K),
         \A k \in DOMAIN b.transactions :
           ~ transaction_exists_in_chain(c, b.transactions[k])
  PROVE  Fresh(c, b)
<1>1. ASSUME NEW i \in DOMAIN c, NEW k \in DOMAIN c[i].transactions,
             NEW l \in DOMAIN b.transactions,
             c[i].transactions[k].id = b.transactions[l].id
      PROVE  FALSE
  <2>1. c[i].transactions[k] \in K /\ b.transactions[l] \in K
    <3>1. c[i].transactions \in Seq(K)
      OBVIOUS
    <3> QED BY <3>1
  <2>2. c[i].transactions[k] = b.transactions[l]
    BY <1>1, <2>1 DEF UniqueIds
  <2> QED BY <2>2 DEF transaction_exists_in_chain, transaction_exists_in_block
<1> QED BY <1>1 DEF Fresh

LEMMA ForgottenStep ==
  ASSUME NetInv, NEW n \in Node, ForgetStakes(n), age' = [age EXCEPT ![n] = 0],
         UNCHANGED <<asked, restart_in, request_in>>,
         tasks' \in [Node -> Seq(0..EPOCH_TIME)],
         since' \in Seq(0..Oldest), Len(since') = Len(minted'),
         seen' \in [Node -> SUBSET Ids], up' \in SUBSET Conn, count' \in CountType
  PROVE  LocalOK' /\ TimesOK' /\ StakeCounted'
<1>1. LocalOK /\ TimesOK /\ StakeCounted
  BY DEF NetInv
<1>2. LocalOK' /\ StakeCounted'
  BY <1>1, StakesForgotten DEF LocalOK, CountType
<1>3. age' \in [Node -> 0..(Reset + 1)]
  <2>1. age \in [Node -> 0..(Reset + 1)] /\ 0 \in 0..(Reset + 1)
    BY <1>1, Durations DEF TimesOK
  <2> QED BY <2>1
<1> QED BY <1>1, <1>2, <1>3 DEF TimesOK

LEMMA HandleNewBlockStep ==
  ASSUME NetInv, NEW K, TxInv(K), NEW c \in Conn, NEW n \in Ends(c), HandleNewBlock(c, n)
  PROVE  StepOK(K)
<1> PICK msg : msg = Head(inbox[c][n])
  OBVIOUS
<1> PICK block : block = msg.block
  OBVIOUS
<1>1. /\ n \in Node /\ inbox[c][n] # << >> /\ msg.type = "new_block"
      /\ UNCHANGED <<asked, tasks, restart_in, request_in, block_vars, count>>
      /\ seen' = MarkSeen(n, {msg})
      /\ \/ /\ chain[n] # << >> /\ isValidBlock(chain[n], block)
            /\ chain' = [chain EXCEPT ![n] = Append(@, block)]
            /\ age' = [age EXCEPT ![n] = 0]
            /\ mem_pool' = [mem_pool EXCEPT ![n] = Sweep(@, InBlock(@, block)).kept]
            /\ ForgetStakes(n)
            /\ inbox' = broadcast_message(n, msg, Read(c, n))
            /\ UNCHANGED up
         \/ HandlerFails(c, n) /\ UNCHANGED <<chain, age, mem_pool, epoch_vars>>
         \/ inbox' = Read(c, n) /\ UNCHANGED <<chain, age, mem_pool, epoch_vars, up>>
  BY EndsAreNodes DEF HandleNewBlock, Reads, AcceptsBlock, mal_AcceptsBlock
<1>2. msg \in KnownMsg(K)
  BY <1>1, ReadType DEF TxInv, Sent
<1>3. block \in KnownBlock(K)
  BY <1>1, <1>2, MessageFields
<1>4. count' \in CountType /\ count.txs <= count'.txs /\ count' = count
  BY <1>1 DEF NetInv, LocalOK, CountType
<1>5. /\ seen' \in [Node -> SUBSET Ids] /\ SeenInv'
      /\ \A m \in Node : seen[m] \subseteq seen'[m]
      /\ Grows /\ (UNCHANGED mem_pool => PoolInv')
  BY <1>1, <1>2, <1>4, KnownMarked, Marked DEF block_vars
<1> PICK W : W = KnownMsg(K)'
  OBVIOUS
<1>6. /\ msg \in W /\ mem_pool \in [Node -> Seq(K)]
      /\ inbox \in [Conn -> [Node -> Seq(W)]]
      /\ Read(c, n) \in [Conn -> [Node -> Seq(W)]]
  <2>1. msg \in W /\ mem_pool \in [Node -> Seq(K)] /\ inbox \in [Conn -> [Node -> Seq(W)]]
    BY <1>2, <1>5, SentGrows, KnownGrows DEF TxInv
  <2> QED BY <1>1, <2>1, ReadType
<1>7. PoolInv /\ up \in SUBSET Conn
  BY DEF NetInv, LocalOK
<1>8. inbox' \in [Conn -> [Node -> Seq(W)]] /\ up' \in SUBSET Conn
  <2>1. broadcast_message(n, msg, Read(c, n)) \in [Conn -> [Node -> Seq(W)]]
    BY <1>1, <1>6, BroadcastType
  <2>2. HandlerFails(c, n) => inbox' \in [Conn -> [Node -> Seq(W)]] /\ up' \in SUBSET Conn
    BY <1>1, <1>6, <1>7, HandlerFailsType
  <2> QED BY <1>1, <1>6, <1>7, <2>1, <2>2
<1>9. K \in SUBSET Tx /\ UniqueIds(K) /\ \A t \in K : t.id <= count'.txs
  BY <1>4 DEF TxInv
<1>10. CASE UNCHANGED <<chain, age, mem_pool, epoch_vars>>
  <2>1. Sent(K)' /\ PoolInv'
    BY <1>5, <1>6, <1>8, <1>10 DEF Sent
  <2>2. ChainStep(K)
    BY <1>1, <1>10 DEF ChainStep, block_vars
  <2>3. UNCHANGED <<epoch_vars, asked, timer_vars, block_vars>>
    BY <1>1, <1>10 DEF timer_vars
  <2> QED BY <1>4, <1>5, <1>8, <1>9, <2>1, <2>2, <2>3, LocalKept DEF StepOK, CountType
<1>11. CASE /\ chain[n] # << >> /\ isValidBlock(chain[n], block)
            /\ chain' = [chain EXCEPT ![n] = Append(@, block)]
            /\ age' = [age EXCEPT ![n] = 0]
            /\ mem_pool' = [mem_pool EXCEPT ![n] = Sweep(@, InBlock(@, block)).kept]
            /\ ForgetStakes(n)
  <2>1. Sent(K)' /\ PoolInv'
    <3>1. mem_pool' \in [Node -> Seq(K)] /\ PoolInv'
      BY <1>1, <1>5, <1>6, <1>7, <1>11, PoolSwept
    <3> QED BY <1>8, <3>1 DEF Sent
  <2>2. OnTop(n, block)
    <3>1. chain[n] \in KnownChain(K)
      BY <1>1 DEF TxInv
    <3>2. \A i \in DOMAIN chain[n] : chain[n][i].transactions \in Seq(K)
      BY <3>1, ChainFacts DEF KnownBlock
    <3>3. block.transactions \in Seq(K)
      BY <1>3 DEF KnownBlock
    <3>4. /\ block.prevHash = lastBlock(chain[n]).hash
          /\ \A k \in DOMAIN block.transactions :
               ~ transaction_exists_in_chain(chain[n], block.transactions[k])
      BY <1>11 DEF isValidBlock
    <3>5. Fresh(chain[n], block)
      BY <1>9, <3>2, <3>3, <3>4, FreshOnTop
    <3> QED BY <1>11, <3>4, <3>5 DEF OnTop
  <2>3. ChainStep(K)
    <3>1. block \in KnownBlock(K)'
      BY <1>3, <1>5, KnownGrows
    <3>2. Takes(K, n)
      BY <1>1, <2>2, <3>1 DEF Takes, block_vars
    <3> QED BY <1>1, <3>2 DEF ChainStep
  <2>4. LocalOK' /\ TimesOK' /\ StakeCounted'
    <3>1. /\ tasks' \in [Node -> Seq(0..EPOCH_TIME)]
          /\ since' \in Seq(0..Oldest) /\ Len(since') = Len(minted')
      BY <1>1 DEF NetInv, TimesOK, block_vars
    <3> QED BY <1>1, <1>4, <1>5, <1>8, <1>11, <3>1, ForgottenStep
  <2>5. \A m \in Node : chain[m] = << >> /\ Idle(m) => Idle(m)'
    BY <1>1 DEF Idle
  <2> QED BY <1>5, <1>9, <2>1, <2>3, <2>4, <2>5 DEF StepOK
<1> QED BY <1>1, <1>10, <1>11

(***************************************************************************)
(* Evidence names blocks of a double signer, so whoever marks a block that *)
(* evidence names marks one of a double signer's.                          *)
(***************************************************************************)
LEMMA EvidenceFaulty ==
  ASSUME MintedInOrder, NEW K, NEW b \in KnownBlock(K), b.hash \in Evidence
  PROVE  b.creator \in Faulty
<1>1. PICK j \in DOMAIN minted : minted[j].creator \in Faulty /\ b.hash = minted[j].hash
  BY DEF Evidence
<1>2. minted[j].hash = j - 1 /\ j \in Nat
  BY DEF MintedInOrder
<1>3. /\ b.hash \in Nat /\ b.hash + 1 \in DOMAIN minted
      /\ minted[b.hash + 1].creator = b.creator
  BY KnownIndex
<1>4. b.hash + 1 = j
  BY <1>1, <1>2, <1>3
<1> QED BY <1>1, <1>3, <1>4

LEMMA HandleSlashStep ==
  ASSUME NetInv, NEW K, TxInv(K), NEW c \in Conn, NEW n \in Ends(c), HandleSlash(c, n)
  PROVE  StepOK(K)
<1> PICK msg : msg = Head(inbox[c][n])
  OBVIOUS
<1>1. /\ n \in Node /\ inbox[c][n] # << >> /\ msg.type = "slash_announcement"
      /\ UNCHANGED <<mem_pool, epoch_vars, asked, timer_vars, block_vars, count>>
      /\ seen' = MarkSeen(n, {msg})
      /\ \/ /\ msg.pos \in DOMAIN chain[n]
            /\ chain[n][msg.pos].hash \in msg.evidence
            /\ chain' = [chain EXCEPT ![n] = Slashed(@, msg.pos)]
            /\ inbox' = broadcast_message(n, msg, Read(c, n))
            /\ UNCHANGED up
         \/ HandlerFails(c, n) /\ UNCHANGED chain
         \/ inbox' = Read(c, n) /\ UNCHANGED <<chain, up>>
  BY EndsAreNodes DEF HandleSlash, Reads, Slashes, mal_Slashes
<1>2. msg \in KnownMsg(K)
  BY <1>1, ReadType DEF TxInv, Sent
<1>3. count' \in CountType /\ count.txs <= count'.txs /\ count' = count
  BY <1>1 DEF NetInv, LocalOK, CountType
<1>4. seen' \in [Node -> SUBSET Ids] /\ SeenInv' /\ Grows /\ PoolInv'
  BY <1>1, <1>2, <1>3, KnownMarked, Marked DEF block_vars
<1> PICK W : W = KnownMsg(K)'
  OBVIOUS
<1>5. /\ msg \in W /\ mem_pool \in [Node -> Seq(K)]
      /\ inbox \in [Conn -> [Node -> Seq(W)]]
      /\ Read(c, n) \in [Conn -> [Node -> Seq(W)]]
  <2>1. msg \in W /\ mem_pool \in [Node -> Seq(K)] /\ inbox \in [Conn -> [Node -> Seq(W)]]
    BY <1>2, <1>4, SentGrows, KnownGrows DEF TxInv
  <2> QED BY <1>1, <2>1, ReadType
<1>6. inbox' \in [Conn -> [Node -> Seq(W)]] /\ up' \in SUBSET Conn
  <2>1. up \in SUBSET Conn
    BY DEF NetInv, LocalOK
  <2>2. broadcast_message(n, msg, Read(c, n)) \in [Conn -> [Node -> Seq(W)]]
    BY <1>1, <1>5, BroadcastType
  <2>3. HandlerFails(c, n) => inbox' \in [Conn -> [Node -> Seq(W)]] /\ up' \in SUBSET Conn
    BY <1>1, <1>5, <2>1, HandlerFailsType
  <2> QED BY <1>1, <1>5, <2>1, <2>2, <2>3
<1>7. Sent(K)'
  BY <1>1, <1>5, <1>6 DEF Sent
<1>8. ChainStep(K)
  <2>1. CASE UNCHANGED chain
    BY <1>1, <2>1 DEF ChainStep, block_vars
  <2>2. CASE /\ msg.pos \in DOMAIN chain[n]
             /\ chain[n][msg.pos].hash \in msg.evidence
             /\ chain' = [chain EXCEPT ![n] = Slashed(@, msg.pos)]
    <3>1. chain[n] \in KnownChain(K)
      BY <1>1 DEF TxInv
    <3>2. chain[n][msg.pos] \in KnownBlock(K)
      BY <2>2, <3>1, ChainFacts
    <3>3. chain[n][msg.pos].hash \in Evidence
      BY <1>1, <1>2, <2>2, MessageFields
    <3>4. chain[n][msg.pos].creator \in Faulty
      BY <3>2, <3>3, EvidenceFaulty DEF NetInv
    <3>5. Marks(n)
      BY <1>1, <2>2, <3>4 DEF Marks, block_vars
    <3> QED BY <1>1, <3>5 DEF ChainStep
  <2> QED BY <1>1, <2>1, <2>2
<1>9. K \in SUBSET Tx /\ UniqueIds(K) /\ \A t \in K : t.id <= count'.txs
  BY <1>3 DEF TxInv
<1> QED BY <1>1, <1>3, <1>4, <1>6, <1>7, <1>8, <1>9, LocalKept DEF StepOK, CountType

\* a and b have different blocks at pos.
Parts(a, b, pos) == pos \in 1..Len(a) /\ pos \in 1..Len(b) /\ a[pos].hash # b[pos].hash

(***************************************************************************)
(* Where two linked chains of known blocks first part, one peer made both  *)
(* blocks only if it is a double signer: the two are equally high.         *)
(***************************************************************************)
LEMMA PartingPlace ==
  ASSUME NEW a, NEW b, Len(a) \in Nat, Len(b) \in Nat,
         NEW pos, pos = checkEquivalence(a, b), pos # 0
  PROVE  Parts(a, b, pos)
<1> DEFINE both == 1..(IF Len(a) < Len(b) THEN Len(a) ELSE Len(b))
           differ == {i \in both : a[i].hash # b[i].hash}
<1>1. pos = IF differ = {} THEN 0 ELSE Min(differ)
  BY DEF checkEquivalence
<1>2. both \subseteq 1..Len(a) /\ both \subseteq 1..Len(b)
  OBVIOUS
<1>3. ASSUME differ # {}
      PROVE  Min(differ) \in differ
  <2>1. differ \in SUBSET Nat
    OBVIOUS
  <2> HIDE DEF differ
  <2>2. \E x \in differ : \A y \in differ : x <= y
    BY <1>3, <2>1, LeastElement
  <2> QED BY <2>2 DEF Min
<1> HIDE DEF both
<1> QED BY <1>1, <1>2, <1>3 DEF Parts

LEMMA DoubleSigner ==
  ASSUME NetInv, NEW K, NEW a \in KnownChain(K), NEW b \in KnownChain(K),
         Links(a), Links(b), NEW pos \in 1..Len(a), pos \in 1..Len(b),
         a[pos].hash # b[pos].hash, a[pos].creator = b[pos].creator
  PROVE  /\ a[pos].creator \in Faulty
         /\ {a[pos].hash, b[pos].hash} \in SUBSET Evidence
<1>1. MintedInOrder /\ \E H : Heights(H)
  BY DEF NetInv
<1>2. PICK H : Heights(H)
  BY <1>1
<1>3. H[a[pos].hash + 1] = pos /\ H[b[pos].hash + 1] = pos
  BY <1>1, <1>2, AtHeight
<1>4. a[pos] \in KnownBlock(K) /\ b[pos] \in KnownBlock(K)
  BY ChainFacts
<1>5. /\ a[pos].hash \in Nat /\ a[pos].hash + 1 \in DOMAIN minted
      /\ minted[a[pos].hash + 1].creator = a[pos].creator
      /\ minted[a[pos].hash + 1].hash = a[pos].hash
  BY <1>1, <1>4, KnownIndex
<1>6. /\ b[pos].hash \in Nat /\ b[pos].hash + 1 \in DOMAIN minted
      /\ minted[b[pos].hash + 1].creator = b[pos].creator
      /\ minted[b[pos].hash + 1].hash = b[pos].hash
  BY <1>1, <1>4, KnownIndex
<1>7. ASSUME a[pos].creator \notin Faulty PROVE FALSE
  <2>1. a[pos].hash + 1 = b[pos].hash + 1
    BY <1>2, <1>3, <1>5, <1>6, <1>7 DEF Heights
  <2> QED BY <1>5, <1>6, <2>1
<1> QED BY <1>5, <1>6, <1>7 DEF Evidence

\* n's chain after list arrived, when nobody is slashed.
ChainChosen(n, list) ==
  \/ chain' = chain
  \/ /\ Len(list) > Len(chain[n])
     /\ chain' = [chain EXCEPT ![n] = list]

LEMMA LongerOrSame ==
  ASSUME NEW a, NEW list, NEW d, Len(a) \in Nat, Len(list) \in Nat,
         list = << >> \/ Len(list) >= 1,
         d = a \/ d = rewrite(a, list) \/ (a = << >> /\ d = list)
  PROVE  d = a \/ (d = list /\ Len(list) > Len(a))
<1>1. CASE d = rewrite(a, list)
  BY <1>1 DEF rewrite
<1>2. CASE a = << >> /\ d = list
  <2>1. Len(a) = 0
    BY <1>2
  <2> QED BY <1>2, <2>1
<1> QED BY <1>1, <1>2

LEMMA ChainOutcomes ==
  ASSUME NetInv, NEW K, TxInv(K), NEW n \in Node, NEW c, NEW list \in KnownChain(K),
         list = Head(inbox[c][n]).chain, HandleChain(c, n)
  PROVE  /\ UNCHANGED <<epoch_vars, asked, timer_vars, up, block_vars>>
         /\ \/ inbox' = Read(c, n) /\ UNCHANGED <<chain, seen, mem_pool, count>>
            \/ /\ isvalidChain(list)
               /\ mem_pool' = [mem_pool EXCEPT ![n] = Sweep(@, InChain(@, chain'[n])).kept]
               /\ \/ /\ inbox' = Read(c, n) /\ UNCHANGED <<seen, count>>
                     /\ ChainChosen(n, list)
                  \/ LET pos == checkEquivalence(chain[n], list) IN
                     /\ pos # 0 /\ chain[n][pos].creator = list[pos].creator
                     /\ verify_and_slash(n, list, pos, Read(c, n))
<1>1. chain \in [Node -> KnownChain(K)]
  BY DEF TxInv
<1> DEFINE pos == checkEquivalence(chain[n], list)
           sameCreator == pos # 0 /\ chain[n][pos].creator = list[pos].creator
<1>2. ASSUME chain' = [chain EXCEPT ![n] = IF n \in Faulty THEN mal_Preferred(n, list)
                                                         ELSE Preferred(n, list, pos)]
      PROVE  ChainChosen(n, list)
  <2> PICK p : p = pos
    OBVIOUS
  <2> PICK d : d = IF n \in Faulty THEN mal_Preferred(n, list) ELSE Preferred(n, list, p)
    OBVIOUS
  <2>1. chain[n] \in KnownChain(K)
    BY <1>1
  <2>2. d = chain[n] \/ (d = list /\ Len(list) > Len(chain[n]))
    <3>1. \/ d = chain[n] \/ d = rewrite(chain[n], list)
          \/ chain[n] = << >> /\ d = list
      BY DEF mal_Preferred, Preferred
    <3>2. Len(chain[n]) \in Nat /\ Len(list) \in Nat /\ (list = << >> \/ Len(list) >= 1)
      BY <2>1, ChainFacts
    <3> QED BY <3>1, <3>2, LongerOrSame
  <2>3. chain' = [chain EXCEPT ![n] = d]
    BY <1>2
  <2>4. CASE d = chain[n]
    BY <1>1, <2>3, <2>4 DEF ChainChosen
  <2>5. CASE d = list /\ Len(list) > Len(chain[n])
    BY <2>3, <2>5 DEF ChainChosen
  <2> QED BY <2>2, <2>4, <2>5
<1>3. /\ UNCHANGED <<epoch_vars, asked, timer_vars, up, block_vars>>
      /\ \/ inbox' = Read(c, n) /\ UNCHANGED <<chain, seen, mem_pool, count>>
         \/ /\ isvalidChain(list)
            /\ mem_pool' = [mem_pool EXCEPT ![n] = Sweep(@, InChain(@, chain'[n])).kept]
            /\ IF sameCreator
               THEN verify_and_slash(n, list, pos, Read(c, n))
               ELSE /\ chain' = [chain EXCEPT ![n] = IF n \in Faulty THEN mal_Preferred(n, list)
                                                     ELSE Preferred(n, list, pos)]
                    /\ inbox' = Read(c, n)
                    /\ UNCHANGED <<seen, count>>
  BY DEF HandleChain
<1> HIDE DEF pos
<1>4. CASE sameCreator
  BY <1>3, <1>4 DEF pos
<1>5. CASE ~ sameCreator
  BY <1>2, <1>3, <1>5
<1> QED BY <1>4, <1>5

LEMMA HandleChainStep ==
  ASSUME NetInv, NEW K, TxInv(K), NEW c \in Conn, NEW n \in Ends(c), HandleChain(c, n)
  PROVE  StepOK(K)
<1> PICK list : list = Head(inbox[c][n]).chain
  OBVIOUS
<1>1. n \in Node /\ inbox[c][n] # << >> /\ Head(inbox[c][n]).type = "chain"
  BY EndsAreNodes DEF HandleChain, Reads
<1>2. list \in KnownChain(K)
  <2>1. Head(inbox[c][n]) \in KnownMsg(K)
    BY <1>1, ReadType DEF TxInv, Sent
  <2> QED BY <1>1, <2>1, MessageFields
<1>3. /\ UNCHANGED <<epoch_vars, asked, timer_vars, up, block_vars>>
      /\ \/ inbox' = Read(c, n) /\ UNCHANGED <<chain, seen, mem_pool, count>>
         \/ /\ isvalidChain(list)
            /\ mem_pool' = [mem_pool EXCEPT ![n] = Sweep(@, InChain(@, chain'[n])).kept]
            /\ \/ /\ inbox' = Read(c, n) /\ UNCHANGED <<seen, count>>
                  /\ ChainChosen(n, list)
               \/ LET pos == checkEquivalence(chain[n], list) IN
                  /\ pos # 0 /\ chain[n][pos].creator = list[pos].creator
                  /\ verify_and_slash(n, list, pos, Read(c, n))
  BY <1>1, <1>2, ChainOutcomes
<1>4. /\ chain[n] \in KnownChain(K) /\ UNCHANGED minted /\ PoolInv /\ mem_pool \in [Node -> Seq(K)]
      /\ Links(chain[n]) /\ count \in CountType /\ seen \in [Node -> SUBSET Ids]
      /\ up' \in SUBSET Conn /\ SeenInv
  BY <1>1, <1>3 DEF TxInv, NetInv, Sent, block_vars, LocalOK, CountType, LinkedInv
<1> PICK W : W = KnownMsg(K)'
  OBVIOUS
<1>5. ASSUME Grows
      PROVE  Read(c, n) \in [Conn -> [Node -> Seq(W)]]
  <2>1. inbox \in [Conn -> [Node -> Seq(W)]]
    BY <1>5, SentGrows DEF TxInv
  <2> QED BY <1>1, <2>1, ReadType
<1>6. ASSUME UNCHANGED <<seen, count>>
      PROVE  Grows /\ SeenInv' /\ seen' \in [Node -> SUBSET Ids] /\ count' \in CountType
             /\ count'.txs = count.txs
  BY <1>4, <1>6 DEF Grows, SeenInv
<1>7. ASSUME isvalidChain(list)
      PROVE  Links(list)
  BY <1>7 DEF isvalidChain, ExtendsList, Links
<1>8. ASSUME ChainChosen(n, list), isvalidChain(list), Grows
      PROVE  ChainStep(K)
  <2>1. CASE chain' = chain
    BY <1>4, <2>1 DEF ChainStep
  <2>2. CASE Len(list) > Len(chain[n]) /\ chain' = [chain EXCEPT ![n] = list]
    <3>1. list \in KnownChain(K)' /\ Links(list)
      BY <1>2, <1>7, <1>8, KnownGrows
    <3>2. Adopts(K, n)
      BY <1>4, <2>2, <3>1 DEF Adopts
    <3> QED BY <1>1, <3>2 DEF ChainStep
  <2> QED BY <1>8, <2>1, <2>2 DEF ChainChosen
<1>9. ASSUME Grows, ChainStep(K), SeenInv', seen' \in [Node -> SUBSET Ids],
             count' \in CountType, count'.txs = count.txs,
             inbox' \in [Conn -> [Node -> Seq(W)]],
             \/ UNCHANGED mem_pool
             \/ mem_pool' = [mem_pool EXCEPT ![n] = Sweep(@, InChain(@, chain'[n])).kept]
      PROVE  StepOK(K)
  <2>1. \A m \in Node : seen[m] \subseteq seen'[m]
    BY <1>9 DEF Grows
  <2>2. mem_pool' \in [Node -> Seq(K)] /\ PoolInv'
    <3>1. CASE UNCHANGED mem_pool
      BY <1>4, <2>1, <3>1, PoolSame
    <3>2. CASE mem_pool' = [mem_pool EXCEPT ![n] = Sweep(@, InChain(@, chain'[n])).kept]
      <4> PICK gone : gone = InChain(mem_pool[n], chain'[n])
        OBVIOUS
      <4>1. mem_pool' = [mem_pool EXCEPT ![n] = Sweep(@, gone).kept]
        BY <3>2
      <4> QED BY <1>1, <1>4, <2>1, <4>1, PoolSwept
    <3> QED BY <1>9, <3>1, <3>2
  <2>3. Sent(K)'
    BY <1>9, <2>2 DEF Sent
  <2>4. K \in SUBSET Tx /\ UniqueIds(K) /\ \A t \in K : t.id <= count'.txs
    BY <1>9 DEF TxInv
  <2> QED BY <1>3, <1>4, <1>9, <2>2, <2>3, <2>4, LocalKept DEF StepOK, CountType
<1>10. CASE inbox' = Read(c, n) /\ UNCHANGED <<chain, seen, mem_pool, count>>
  <2>1. ChainStep(K)
    BY <1>4, <1>10 DEF ChainStep
  <2> QED BY <1>5, <1>6, <1>9, <1>10, <2>1
<1>11. CASE /\ isvalidChain(list)
            /\ mem_pool' = [mem_pool EXCEPT ![n] = Sweep(@, InChain(@, chain'[n])).kept]
            /\ inbox' = Read(c, n) /\ UNCHANGED <<seen, count>>
            /\ ChainChosen(n, list)
  BY <1>5, <1>6, <1>8, <1>9, <1>11
<1>12. CASE /\ isvalidChain(list)
            /\ mem_pool' = [mem_pool EXCEPT ![n] = Sweep(@, InChain(@, chain'[n])).kept]
            /\ LET pos == checkEquivalence(chain[n], list) IN
                  /\ pos # 0 /\ chain[n][pos].creator = list[pos].creator
                  /\ verify_and_slash(n, list, pos, Read(c, n))
  <2>p. PICK pos : pos = checkEquivalence(chain[n], list)
    OBVIOUS
  <2>1. pos # 0 /\ chain[n][pos].creator = list[pos].creator
        /\ verify_and_slash(n, list, pos, Read(c, n))
    BY <1>12, <2>p
  <2>2. /\ pos \in 1..Len(chain[n]) /\ pos \in 1..Len(list)
        /\ chain[n][pos].hash # list[pos].hash
        /\ pos \in DOMAIN chain[n]
    <3>1. chain[n] \in KnownChain(K)
      BY <1>4
    <3>2. Len(chain[n]) \in Nat /\ DOMAIN chain[n] = 1..Len(chain[n])
      BY <3>1, ChainFacts, Zenon
    <3>3. Len(list) \in Nat
      BY <1>2, ChainFacts, Zenon
    <3>4. Parts(chain[n], list, pos)
      BY <2>p, <2>1, <3>2, <3>3, PartingPlace, Zenon
    <3> QED BY <3>2, <3>4 DEF Parts
  <2>3. chain[n][pos].creator \in Faulty
        /\ {chain[n][pos].hash, list[pos].hash} \in SUBSET Evidence
    <3>1. chain[n] \in KnownChain(K) /\ Links(chain[n]) /\ Links(list)
      BY <1>4, <1>7, <1>12
    <3> QED BY <1>2, <2>1, <2>2, <3>1, DoubleSigner, Zenon
  <2>4. Marks(n)
    BY <1>4, <2>1, <2>2, <2>3 DEF Marks, verify_and_slash
  <2>5. ChainStep(K)
    BY <1>1, <2>4 DEF ChainStep
  <2> PICK msg : msg = [type |-> "slash_announcement", id |-> count.slashes + 1, pos |-> pos,
                        evidence |-> {chain[n][pos].hash, list[pos].hash}]
    OBVIOUS
  <2>6. \/ /\ count' = [count EXCEPT !.slashes = @ + 1]
           /\ seen' = MarkSeen(n, {msg})
           /\ inbox' = broadcast_message(n, msg, Read(c, n))
        \/ inbox' = Read(c, n) /\ UNCHANGED <<count, seen>>
    BY <2>1 DEF verify_and_slash
  <2>7. CASE inbox' = Read(c, n) /\ UNCHANGED <<count, seen>>
    BY <1>5, <1>6, <1>9, <1>12, <2>5, <2>7
  <2>8. CASE /\ count' = [count EXCEPT !.slashes = @ + 1]
             /\ seen' = MarkSeen(n, {msg})
             /\ inbox' = broadcast_message(n, msg, Read(c, n))
    <3>1. count' \in CountType /\ count'.txs = count.txs /\ count.txs \in Nat
          /\ count.slashes + 1 \in Nat /\ count.txs <= count'.txs
      BY <1>4, <2>8, CountUp
    <3>2. MsgId(msg) = <<"slash", count.slashes + 1>>
      BY DEF MsgId
    <3>3. MsgId(msg) \in Ids /\ (MsgId(msg)[1] = "new_tx" => MsgId(msg)[2] <= count'.txs)
      <4>1. ASSUME NEW k \in Nat
            PROVE  <<"slash", k>> \in Ids /\ <<"slash", k>>[1] # "new_tx"
        BY DEF Ids
      <4> QED BY <3>1, <3>2, <4>1
    <3>4. Grows /\ SeenInv' /\ seen' \in [Node -> SUBSET Ids]
      BY <1>1, <1>4, <2>8, <3>1, <3>3, Marked
    <3>5. msg \in W
      <4>1. Evidence' = Evidence
        BY <1>4 DEF Evidence
      <4>2. pos \in Nat
        <5>1. Len(list) \in Nat /\ pos \in 1..Len(list)
          BY <1>2, <2>2, ChainFacts
        <5>2. ASSUME NEW N \in Nat, NEW k \in 1..N PROVE k \in Nat
          OBVIOUS
        <5> QED BY <5>1, <5>2
      <4>3. {chain[n][pos].hash, list[pos].hash} \in SUBSET (Evidence')
        BY <2>3, <4>1
      <4> QED BY <3>1, <4>2, <4>3 DEF KnownMsg
    <3>6. inbox' \in [Conn -> [Node -> Seq(W)]]
      BY <1>1, <1>5, <2>8, <3>4, <3>5, BroadcastType
    <3> QED BY <1>9, <1>12, <2>5, <3>1, <3>4, <3>6
  <2> QED BY <2>6, <2>7, <2>8
<1> QED BY <1>3, <1>10, <1>11, <1>12

-----------------------------------------------------------------------------
(***************************************************************************)
(* A peer's balance is a number, whatever its chain, pool and stakes hold: *)
(* mal_node sends three quarters of it.                                    *)
(***************************************************************************)
LEMMA SpendingType ==
  ASSUME NEW pending \in Seq(Tx), NEW pk
  PROVE  Spending(pending, pk) \in Int
<1> DEFINE f == [k \in DOMAIN pending |->
                   IF pending[k].sender = pk THEN pending[k].amount ELSE 0]
<1>1. Len(pending) \in Nat /\ DOMAIN pending = 1..Len(pending)
      /\ \A k \in 1..Len(pending) : pending[k] \in Tx
  OBVIOUS
<1>2. \A k \in 1..Len(pending) : f[k] \in Int
  <2>1. \A k \in 1..Len(pending) : pending[k].amount \in Int
    BY <1>1 DEF Tx
  <2> QED BY <1>1, <2>1
<1>3. SumTo(f, Len(pending)) \in Int
  <2> HIDE DEF f
  <2> QED BY <1>1, <1>2, SumSame
<1> QED BY <1>3 DEF Spending

LEMMA BlockCreditType ==
  ASSUME NEW block \in Block, NEW pk
  PROVE  BlockCredit(block, pk) \in Int
<1> DEFINE txs == block.transactions
           f == [k \in DOMAIN txs |-> TxCredit(txs[k], pk)]
<1>1. txs \in Seq(Tx) /\ block.staked_amt \in Int
  BY DEF Block
<1>2. Len(txs) \in Nat /\ DOMAIN txs = 1..Len(txs) /\ \A k \in 1..Len(txs) : txs[k] \in Tx
  BY <1>1
<1>3. \A k \in 1..Len(txs) : f[k] \in Int
  <2>1. \A tx \in Tx : TxCredit(tx, pk) \in Int
    BY DEF Tx, TxCredit
  <2> QED BY <1>2, <2>1
<1>4. SumTo(f, Len(txs)) \in Int
  <2> HIDE DEF f, txs
  <2> QED BY <1>2, <1>3, SumSame
<1> QED BY <1>1, <1>4 DEF BlockCredit, MinerReward

LEMMA ConfirmedType ==
  ASSUME NEW c \in Seq(Block), c # << >>, NEW pk
  PROVE  Confirmed(c, pk, Len(c)) \in Int
<1> DEFINE v == valid_chain_length(Len(c))
           f == [j \in 1..v |-> BlockCredit(c[j], pk)]
<1>1. Len(c) \in Nat \ {0} /\ \A j \in 1..Len(c) : c[j] \in Block
  OBVIOUS
<1>2. v \in 1..Len(c) /\ v \in Nat
  BY <1>1, ConfirmedLengthRange
<1> HIDE DEF v
<1>3. \A j \in 1..v : f[j] \in Int
  BY <1>1, <1>2, BlockCreditType
<1>4. SumTo(f, v) \in Int
  <2> HIDE DEF f
  <2> QED BY <1>2, <1>3, SumSame
<1> QED BY <1>4 DEF Confirmed, v

LEMMA StakedByType ==
  ASSUME NEW stakes \in SUBSET Stake, IsFiniteSet(stakes), NEW pk
  PROVE  StakedBy(pk, stakes) \in Int
<1> DEFINE T == {stake \in stakes : stake.staker = pk}
           f == [x \in T |-> x.amt]
           g == CHOOSE h : SetSums(h, T, f)
<1>1. f \in [T -> Int] /\ IsFiniteSet(T)
  BY FS_Subset DEF Stake
<1>2. SetSums(g, T, f)
  <2> HIDE DEF T, f
  <2> QED BY <1>1, SetSumsExist
<1>3. MapThenSumSet(LAMBDA stake : stake.amt, T) = g[T]
  BY ZenonT(60) DEF MapThenSumSet, MapThenFoldSet, SetSums, AnyOf
<1>4. g[T] \in Int
  <2> HIDE DEF g, T, f
  <2> QED BY <1>1, <1>2, SetSumsType
<1> QED BY <1>3, <1>4 DEF StakedBy

Unconfirmed(c, v, pk) ==
  MapThenSumSet(LAMBDA j : Spending(c[j].transactions, pk), (v + 1)..Len(c))

LEMMA UnconfirmedType ==
  ASSUME NEW c \in Seq(Block), NEW v \in Nat, NEW pk
  PROVE  Unconfirmed(c, v, pk) \in Int
<1> DEFINE T == (v + 1)..Len(c)
           f == [j \in T |-> Spending(c[j].transactions, pk)]
           g == CHOOSE h : SetSums(h, T, f)
<1>1. f \in [T -> Int] /\ IsFiniteSet(T)
  <2>1. IsFiniteSet(T)
    <3>1. v + 1 \in Int /\ Len(c) \in Int
      OBVIOUS
    <3> QED BY <3>1, FS_Interval
  <2>2. ASSUME NEW j \in T PROVE Spending(c[j].transactions, pk) \in Int
    <3>1. c[j] \in Block
      OBVIOUS
    <3>2. c[j].transactions \in Seq(Tx)
      BY <3>1 DEF Block
    <3> QED BY <3>2, SpendingType
  <2> QED BY <2>1, <2>2
<1>2. SetSums(g, T, f)
  <2> HIDE DEF T, f
  <2> QED BY <1>1, SetSumsExist
<1>3. Unconfirmed(c, v, pk) = g[T]
  BY ZenonT(60) DEF Unconfirmed, MapThenSumSet, MapThenFoldSet, SetSums, AnyOf
<1>4. g[T] \in Int
  <2> HIDE DEF g, T, f
  <2> QED BY <1>1, <1>2, SetSumsType
<1> QED BY <1>3, <1>4

LEMMA BalanceType ==
  ASSUME NEW c \in Seq(Block), c # << >>, NEW pending \in Seq(Tx),
         NEW stakes \in SUBSET Stake, IsFiniteSet(stakes), NEW pk
  PROVE  calc_balance(c, pk, pending, stakes) \in Int
<1>1. valid_chain_length(Len(c)) \in Nat
  <2>1. Len(c) \in Nat \ {0}
    OBVIOUS
  <2> QED BY <2>1, ConfirmedLengthRange
<1>2. Unconfirmed(c, valid_chain_length(Len(c)), pk) \in Int
  BY <1>1, UnconfirmedType
<1>3. calc_balance(c, pk, pending, stakes)
        = Confirmed(c, pk, Len(c)) - Unconfirmed(c, valid_chain_length(Len(c)), pk)
          - StakedBy(pk, stakes) - Spending(pending, pk)
  BY DEF calc_balance, Unconfirmed
<1>4. /\ Confirmed(c, pk, Len(c)) \in Int
      /\ StakedBy(pk, stakes) \in Int /\ Spending(pending, pk) \in Int
  BY ConfirmedType, StakedByType, SpendingType
<1> QED BY <1>2, <1>3, <1>4

-----------------------------------------------------------------------------
(***************************************************************************)
(* What a winner puts into a block: its pool without what is in its chain. *)
(***************************************************************************)
LEMMA PendingKnown ==
  ASSUME NetInv, NEW K, TxInv(K), NEW n \in Node
  PROVE  /\ PendingTransactions(n) \in Seq(K) /\ DistinctIds(PendingTransactions(n))
         /\ \A k \in DOMAIN PendingTransactions(n) :
              ~ transaction_exists_in_chain(chain[n], PendingTransactions(n)[k])
<1> DEFINE gone == InChain(mem_pool[n], chain[n])
           txs == Without(mem_pool[n], gone)
<1>1. mem_pool[n] \in Seq(K) /\ DistinctIds(mem_pool[n])
  BY DEF TxInv, Sent, NetInv, PoolInv
<1>2. /\ txs \in Seq(K) /\ DistinctIds(txs)
      /\ \A i \in DOMAIN txs : /\ txs[i] \notin gone
                               /\ \E p \in DOMAIN mem_pool[n] : txs[i] = mem_pool[n][p]
  <2> HIDE DEF gone
  <2> QED BY <1>1, WithoutType
<1>3. ASSUME NEW k \in DOMAIN txs
      PROVE  ~ transaction_exists_in_chain(chain[n], txs[k])
  <2>1. PICK p \in DOMAIN mem_pool[n] : txs[k] = mem_pool[n][p]
    BY <1>2
  <2>2. transaction_exists_in_chain(chain[n], txs[k]) => txs[k] \in gone
    <3> HIDE DEF txs
    <3> QED BY <2>1 DEF InChain
  <2> QED BY <1>2, <2>2
<1> QED BY <1>2, <1>3 DEF PendingTransactions

LEMMA NewBlockType ==
  ASSUME NetInv, NEW K, TxInv(K), NEW n \in Node, chain[n] # << >>,
         NEW hash \in Nat, NEW txs \in Seq(Tx), NEW vrf \in 0..(MAX_OUTPUT - 1)
  PROVE  NewBlock(n, hash, txs, vrf) \in Block
<1> DEFINE top == lastBlock(chain[n])
<1>1. /\ chain[n] \in KnownChain(K) /\ Len(chain[n]) \in Nat /\ Len(chain[n]) >= 1
      /\ \A i \in 1..Len(chain[n]) : chain[n][i] \in KnownBlock(K) /\ chain[n][i] \in Block
      /\ top = chain[n][Len(chain[n])]
  <2>1. chain[n] \in KnownChain(K)
    BY DEF TxInv
  <2> QED BY <2>1, ChainFacts
<1>2. top \in KnownBlock(K) /\ top \in Block
  BY <1>1
<1>3. top.hash \in Nat /\ top.hash + 1 \in DOMAIN minted
  <2> HIDE DEF top
  <2> QED BY <1>2, KnownIndex DEF NetInv
<1>4. Capped(since[top.hash + 1], Registration) \in 0..Registration
  <2>1. /\ since \in Seq(0..Oldest) /\ Len(since) = Len(minted)
        /\ DOMAIN minted = 1..Len(minted) /\ DOMAIN since = 1..Len(since)
    BY DEF NetInv, TimesOK, MintedInOrder
  <2>2. since[top.hash + 1] \in 0..Oldest
    <3>1. \A j \in DOMAIN since : since[j] \in 0..Oldest
      <4>1. ASSUME NEW S, NEW s \in Seq(S), NEW j \in DOMAIN s PROVE s[j] \in S
        OBVIOUS
      <4> QED BY <2>1, <4>1
    <3>2. top.hash + 1 \in DOMAIN since
      BY <1>3, <2>1
    <3> QED BY <3>1, <3>2
  <2>3. since[top.hash + 1] \in Nat
    BY <2>2, Durations
  <2>4. Registration \in Nat
    BY Durations
  <2> HIDE DEF top
  <2> QED BY <2>3, <2>4, CappedType
<1>5. epoch_seed(chain[n]) \in Nat
  <2>1. valid_chain_length(Len(chain[n])) \in 1..Len(chain[n])
    <3>1. Len(chain[n]) \in Nat \ {0}
      BY <1>1
    <3> QED BY <3>1, ConfirmedLengthRange
  <2>2. chain[n][valid_chain_length(Len(chain[n]))] \in Block
    BY <1>1, <2>1
  <2>3. chain[n][valid_chain_length(Len(chain[n]))].hash \in Nat
    BY <2>2 DEF Block
  <2> QED BY <2>3 DEF epoch_seed, seed_of
<1>6. n \in Account /\ staked_amt[n] \in Int /\ current_stakes[n] \in SUBSET Stake
  BY NetworkAssumption DEF NetInv, LocalOK
<1> HIDE DEF top
<1>7. /\ NewBlock(n, hash, txs, vrf).gap \in 0..Registration
      /\ NewBlock(n, hash, txs, vrf).prevHash \in Nat
  BY <1>3, <1>4 DEF NewBlock, top
<1> QED BY <1>5, <1>6, <1>7 DEF NewBlock, Block

(***************************************************************************)
(* A block that was just made is known, and so is the message it goes out  *)
(* in.                                                                     *)
(***************************************************************************)
LEMMA MadeKnown ==
  ASSUME NEW L, NEW b \in Block, b.transactions \in Seq(L), DistinctIds(b.transactions),
         ~ b.slash_creator, \E i \in DOMAIN minted' : minted'[i] = b
  PROVE  /\ b \in KnownBlock(L)' /\ BlockMsg(b) \in KnownMsg(L)'
         /\ MsgId(BlockMsg(b)) = <<"new_block", b.hash>>
<1> PICK w : w = over_the_wire(b)
  OBVIOUS
<1>1. /\ w \in Block /\ ~ w.slash_creator /\ Base(w) = Base(b)
      /\ w.transactions = b.transactions /\ w.hash = b.hash
  BY DEF Block, over_the_wire, Base
<1>2. b \in KnownBlock(L)' /\ w \in KnownBlock(L)'
  BY <1>1 DEF KnownBlock, Made
<1>3. BlockMsg(b) = [type |-> "new_block", block |-> w]
  BY DEF BlockMsg
<1>4. BlockMsg(b) \in KnownMsg(L)'
  BY <1>2, <1>3 DEF KnownMsg
<1>5. MsgId(BlockMsg(b)) = <<"new_block", b.hash>>
  BY <1>1, <1>3 DEF MsgId
<1> QED BY <1>2, <1>4, <1>5

LEMMA TwoMarks ==
  ASSUME NetInv, NEW n \in Node, NEW msgs, seen' = MarkSeen(n, msgs),
         \A msg \in msgs : MsgId(msg) \in {"new_block"} \X Nat,
         count' \in CountType, count.txs <= count'.txs
  PROVE  /\ seen' \in [Node -> SUBSET Ids] /\ SeenInv'
         /\ \A m \in Node : seen[m] \subseteq seen'[m]
<1>1. seen \in [Node -> SUBSET Ids] /\ count.txs \in Nat /\ count'.txs \in Nat
  BY DEF NetInv, LocalOK, CountType
<1> DEFINE marks == {MsgId(msg) : msg \in msgs}
<1>2. marks \subseteq Ids /\ \A mark \in marks : mark[1] # "new_tx"
  BY DEF Ids
<1>3. seen' = [seen EXCEPT ![n] = @ \cup marks]
  BY DEF MarkSeen
<1> HIDE DEF marks
<1>4. /\ seen' \in [Node -> SUBSET Ids]
      /\ \A m \in Node : seen[m] \subseteq seen'[m]
      /\ \A m \in Node : \A mark \in seen'[m] : mark \in seen[m] \/ mark \in marks
  BY <1>1, <1>2, <1>3
<1>5. ASSUME NEW m \in Node, NEW mark \in seen'[m], mark[1] = "new_tx"
      PROVE  mark[2] <= count'.txs
  <2>1. mark \in seen[m] /\ mark \in Ids
    BY <1>1, <1>2, <1>4, <1>5
  <2>2. mark[2] <= count.txs /\ mark[2] \in Nat
    BY <1>5, <2>1 DEF NetInv, SeenInv, Ids
  <2> QED BY <1>1, <2>2
<1> QED BY <1>4, <1>5 DEF SeenInv

(***************************************************************************)
(* A peer makes a block, or mal_node two, from transactions of L that are  *)
(* not in its chain.                                                       *)
(***************************************************************************)
LEMMA MintStep ==
  ASSUME NetInv, NEW K, TxInv(K), NEW n \in Node, chain[n] # << >>,
         NEW L, K \subseteq L, L \in SUBSET Tx, UniqueIds(L),
         NEW txs \in Seq(L), DistinctIds(txs),
         \A k \in DOMAIN txs : ~ transaction_exists_in_chain(chain[n], txs[k]),
         NEW vrf \in 0..(MAX_OUTPUT - 1), count' \in CountType, count.txs <= count'.txs,
         NEW b, b = NewBlock(n, Len(minted), txs, vrf),
         NEW twin, twin = NewBlock(n, Len(minted) + 1, txs, vrf),
         chain' = [chain EXCEPT ![n] = Append(@, b)],
         NEW msgs, seen' = MarkSeen(n, msgs),
         \/ /\ msgs = {BlockMsg(b)}
            /\ minted' = Append(minted, b) /\ since' = Append(since, 0)
         \/ /\ n \in Faulty
            /\ msgs = {BlockMsg(b), BlockMsg(twin)}
            /\ minted' = minted \o <<b, twin>> /\ since' = since \o <<0, 0>>
  PROVE  /\ Grows /\ ChainStep(L) /\ msgs \subseteq KnownMsg(L)'
         /\ seen' \in [Node -> SUBSET Ids] /\ SeenInv'
         /\ since' \in Seq(0..Oldest) /\ Len(since') = Len(minted')
<1>1. /\ minted \in Seq(Block) /\ Len(minted) \in Nat /\ Len(minted) + 1 \in Nat
      /\ DOMAIN minted = 1..Len(minted)
      /\ since \in Seq(0..Oldest) /\ Len(since) = Len(minted) /\ 0 \in 0..Oldest
  BY Durations DEF NetInv, MintedInOrder, TimesOK
<1>2. b \in Block /\ twin \in Block
  <2>1. txs \in Seq(Tx)
    OBVIOUS
  <2> QED BY <1>1, <2>1, NewBlockType
<1>3. /\ b.transactions = txs /\ b.creator = n /\ b.hash = Len(minted)
      /\ b.prevHash = lastBlock(chain[n]).hash /\ ~ b.slash_creator
  BY DEF NewBlock
<1>4. /\ twin.transactions = txs /\ twin.creator = n /\ twin.hash = Len(minted) + 1
      /\ twin.prevHash = lastBlock(chain[n]).hash /\ ~ twin.slash_creator
  BY DEF NewBlock
<1>5. /\ DOMAIN minted \subseteq DOMAIN minted'
      /\ \A i \in DOMAIN minted : minted'[i] = minted[i]
      /\ Len(minted) + 1 \in DOMAIN minted' /\ minted'[Len(minted) + 1] = b
      /\ minted' = minted \o <<b, twin>> =>
           Len(minted) + 2 \in DOMAIN minted' /\ minted'[Len(minted) + 2] = twin
      /\ since' \in Seq(0..Oldest) /\ Len(since') = Len(minted')
  <2>1. CASE minted' = Append(minted, b) /\ since' = Append(since, 0)
    <3>1. /\ DOMAIN minted' = DOMAIN minted \cup {Len(minted) + 1}
          /\ minted'[Len(minted) + 1] = b
          /\ \A i \in DOMAIN minted : minted'[i] = minted[i]
      BY <1>1, <2>1, AppendFacts
    <3>2. since' \in Seq(0..Oldest) /\ Len(since') = Len(minted')
      BY <1>1, <1>2, <2>1
    <3>3. minted' # minted \o <<b, twin>>
      <4>1. Len(minted') = Len(minted) + 1 /\ Len(minted \o <<b, twin>>) = Len(minted) + 2
        BY <1>1, <1>2, <2>1
      <4> QED BY <1>1, <4>1
    <3> QED BY <3>1, <3>2, <3>3
  <2>2. CASE minted' = minted \o <<b, twin>> /\ since' = since \o <<0, 0>>
    <3>1. <<b, twin>> \in Seq(Block) /\ Len(<<b, twin>>) = 2
      BY <1>2
    <3>2. /\ Len(minted') = Len(minted) + 2
          /\ DOMAIN minted' = 1..(Len(minted) + 2)
          /\ minted'[Len(minted) + 1] = b /\ minted'[Len(minted) + 2] = twin
          /\ \A i \in DOMAIN minted : minted'[i] = minted[i]
      BY <1>1, <1>2, <2>2, <3>1
    <3>3. <<0, 0>> \in Seq(0..Oldest) /\ Len(<<0, 0>>) = 2
      BY <1>1
    <3>4. since' \in Seq(0..Oldest) /\ Len(since') = Len(since) + 2
      BY <1>1, <2>2, <3>3
    <3> QED BY <1>1, <3>2, <3>4
  <2> QED BY <2>1, <2>2
<1>6. /\ b \in KnownBlock(L)' /\ BlockMsg(b) \in KnownMsg(L)'
      /\ MsgId(BlockMsg(b)) \in {"new_block"} \X Nat
  <2>1. /\ b \in KnownBlock(L)' /\ BlockMsg(b) \in KnownMsg(L)'
        /\ MsgId(BlockMsg(b)) = <<"new_block", b.hash>>
    <3>1. /\ b.transactions \in Seq(L) /\ DistinctIds(b.transactions) /\ ~ b.slash_creator
          /\ \E i \in DOMAIN minted' : minted'[i] = b
      BY <1>3, <1>5
    <3> QED BY <1>2, <3>1, MadeKnown
  <2> QED BY <1>1, <1>3, <2>1
<1>7. ASSUME minted' = minted \o <<b, twin>>
      PROVE  /\ BlockMsg(twin) \in KnownMsg(L)'
             /\ MsgId(BlockMsg(twin)) \in {"new_block"} \X Nat
  <2>1. /\ BlockMsg(twin) \in KnownMsg(L)'
        /\ MsgId(BlockMsg(twin)) = <<"new_block", twin.hash>>
    <3>1. /\ twin.transactions \in Seq(L) /\ DistinctIds(twin.transactions)
          /\ ~ twin.slash_creator /\ \E i \in DOMAIN minted' : minted'[i] = twin
      BY <1>4, <1>5, <1>7
    <3> QED BY <1>2, <3>1, MadeKnown
  <2> QED BY <1>1, <1>4, <2>1
<1>8. msgs \subseteq KnownMsg(L)' /\ \A msg \in msgs : MsgId(msg) \in {"new_block"} \X Nat
  BY <1>6, <1>7
<1>9. /\ seen' \in [Node -> SUBSET Ids] /\ SeenInv'
      /\ \A m \in Node : seen[m] \subseteq seen'[m]
  BY <1>8, TwoMarks
<1>10. Grows
  BY <1>5, <1>9 DEF Grows
<1>11. OnTop(n, b)
  <2>1. chain[n] \in KnownChain(K)
    BY DEF TxInv
  <2>2. \A i \in DOMAIN chain[n] : chain[n][i].transactions \in Seq(L)
    <3>1. \A i \in DOMAIN chain[n] : chain[n][i].transactions \in Seq(K)
      BY <2>1, ChainFacts DEF KnownBlock
    <3>2. Seq(K) \subseteq Seq(L)
      OBVIOUS
    <3> QED BY <3>1, <3>2
  <2>3. Fresh(chain[n], b)
    BY <1>3, <2>2, FreshOnTop
  <2> QED BY <1>3, <2>3 DEF OnTop
<1>12. Mints(L, n)
  BY <1>2, <1>3, <1>4, <1>6, <1>11 DEF Mints
<1>13. ChainStep(L)
  BY <1>12 DEF ChainStep
<1> QED BY <1>5, <1>8, <1>9, <1>10, <1>13

(***************************************************************************)
(* Whatever made the block, the rest of the step.                          *)
(***************************************************************************)
LEMMA WinStep ==
  ASSUME NetInv, NEW K, TxInv(K), NEW n \in Node, NEW L, K \subseteq L, L \in SUBSET Tx,
         UniqueIds(L), \A t \in L : t.id <= count'.txs, count' \in CountType,
         Grows, ChainStep(L), seen' \in [Node -> SUBSET Ids], SeenInv',
         since' \in Seq(0..Oldest), Len(since') = Len(minted'),
         inbox' \in [Conn -> [Node -> Seq(KnownMsg(L)')]],
         NEW gone, mem_pool' = [mem_pool EXCEPT ![n] = Sweep(@, gone).kept],
         tasks' \in [Node -> Seq(0..EPOCH_TIME)],
         \A m \in Node : chain[m] = << >> => tasks'[m] = tasks[m],
         age' = [age EXCEPT ![n] = 0], ForgetStakes(n),
         UNCHANGED <<asked, restart_in, request_in, up>>
  PROVE  StepOK(L)
<1>1. up' \in SUBSET Conn /\ PoolInv /\ mem_pool \in [Node -> Seq(L)]
  BY SentGrows DEF NetInv, LocalOK, TxInv
<1>2. LocalOK' /\ TimesOK' /\ StakeCounted'
  BY <1>1, ForgottenStep
<1>3. \A m \in Node : seen[m] \subseteq seen'[m]
  BY DEF Grows
<1>4. mem_pool' \in [Node -> Seq(L)] /\ PoolInv'
  BY <1>1, <1>3, PoolSwept
<1>5. Sent(L)'
  BY <1>4 DEF Sent
<1>6. \A m \in Node : chain[m] = << >> /\ Idle(m) => Idle(m)'
  BY DEF Idle
<1> QED BY <1>2, <1>4, <1>5, <1>6 DEF StepOK

LEMMA WinBlockStep ==
  ASSUME NetInv, NEW K, TxInv(K), NEW n \in Node, chain[n] # << >>,
         NEW vrf \in 0..(MAX_OUTPUT - 1), WinBlock(n, vrf),
         tasks' \in [Node -> Seq(0..EPOCH_TIME)],
         \A m \in Node : chain[m] = << >> => tasks'[m] = tasks[m],
         age' = [age EXCEPT ![n] = 0], ForgetStakes(n),
         UNCHANGED <<asked, restart_in, request_in, up>>
  PROVE  StepOK(K)
<1> PICK txs : txs = PendingTransactions(n)
  OBVIOUS
<1> PICK b : b = NewBlock(n, Len(minted), txs, vrf)
  OBVIOUS
<1> PICK msgs : msgs = {BlockMsg(b)}
  OBVIOUS
<1> PICK twin : twin = NewBlock(n, Len(minted) + 1, txs, vrf)
  OBVIOUS
<1>1. /\ chain' = [chain EXCEPT ![n] = Append(@, b)]
      /\ minted' = Append(minted, b) /\ since' = Append(since, 0)
      /\ seen' = MarkSeen(n, msgs)
      /\ mem_pool' = [mem_pool EXCEPT ![n] = Sweep(@, InBlock(@, b)).kept]
      /\ inbox' = broadcast_message(n, BlockMsg(b), inbox)
      /\ count' = [count EXCEPT !.blocks = @ + 1]
  BY DEF WinBlock
<1>2. /\ txs \in Seq(K) /\ DistinctIds(txs)
      /\ \A k \in DOMAIN txs : ~ transaction_exists_in_chain(chain[n], txs[k])
  BY PendingKnown
<1>3. count \in CountType /\ count.txs \in Nat
  BY DEF NetInv, LocalOK, CountType
<1>4. count' \in CountType /\ count'.txs = count.txs /\ count.txs <= count'.txs
  BY <1>1, <1>3, CountUp
<1>5. K \in SUBSET Tx /\ UniqueIds(K) /\ \A t \in K : t.id <= count'.txs
  BY <1>4 DEF TxInv
<1>6. /\ Grows /\ ChainStep(K) /\ msgs \subseteq KnownMsg(K)'
      /\ seen' \in [Node -> SUBSET Ids] /\ SeenInv'
      /\ since' \in Seq(0..Oldest) /\ Len(since') = Len(minted')
  BY <1>1, <1>2, <1>4, <1>5, MintStep
<1>7. inbox' \in [Conn -> [Node -> Seq(KnownMsg(K)')]]
  <2> PICK W : W = KnownMsg(K)'
    OBVIOUS
  <2>1. inbox \in [Conn -> [Node -> Seq(W)]] /\ BlockMsg(b) \in W
    BY <1>6, SentGrows DEF TxInv
  <2> QED BY <1>1, <2>1, BroadcastType
<1> PICK gone : gone = InBlock(mem_pool[n], b)
  OBVIOUS
<1>8. mem_pool' = [mem_pool EXCEPT ![n] = Sweep(@, gone).kept]
  BY <1>1
<1> QED BY <1>4, <1>5, <1>6, <1>7, <1>8, WinStep

(***************************************************************************)
(* The payment that mal_node puts on top of what is in its pool.           *)
(***************************************************************************)
LEMMA BaitType ==
  ASSUME NetInv, NEW K, TxInv(K), NEW n \in Node, n \in Faulty, chain[n] # << >>
  PROVE  [id |-> count.txs + 1, sender |-> n, amount |-> (3 * balance(n, n)) \div 4,
          receiver |-> CHOOSE pk \in Account \ {n} : TRUE] \in Tx
<1>1. balance(n, n) \in Int
  <2>1. chain[n] \in Seq(Block)
    <3>1. chain[n] \in Seq(KnownBlock(K))
      BY ChainFacts DEF TxInv
    <3>2. KnownBlock(K) \subseteq Block
      BY DEF KnownBlock
    <3> QED BY <3>1, <3>2
  <2>2. mem_pool[n] \in Seq(Tx)
    <3>1. mem_pool[n] \in Seq(K) /\ K \subseteq Tx
      BY DEF TxInv, Sent
    <3> QED BY <3>1
  <2>3. current_stakes[n] \in SUBSET Stake /\ IsFiniteSet(current_stakes[n])
    BY DEF NetInv, LocalOK
  <2> QED BY <2>1, <2>2, <2>3, BalanceType DEF balance
<1>2. (3 * balance(n, n)) \div 4 \in Int
  BY <1>1
<1>3. (CHOOSE pk \in Account \ {n} : TRUE) \in Account
  <2>1. Cardinality(Account) > 2 /\ n \in Account
    BY NetworkAssumption
  <2>2. ASSUME Account \ {n} = {} PROVE FALSE
    <3>1. Account = {n}
      BY <2>1, <2>2
    <3>2. Cardinality(Account) = 1
      BY <3>1, FS_Singleton
    <3> QED BY <2>1, <3>2
  <2> QED BY <2>2
<1>4. count.txs + 1 \in Nat /\ n \in Account
  BY NetworkAssumption DEF NetInv, LocalOK
<1> QED BY <1>2, <1>3, <1>4 DEF Tx

\* Two messages sent over two sets of connections.
LEMMA SendTwice ==
  ASSUME NEW M, NEW msg1 \in M, NEW msg2 \in M, NEW n \in Node, NEW over1, NEW over2,
         inbox \in [Conn -> [Node -> Seq(M)]],
         inbox' = send_over(n, over2, msg2, send_over(n, over1, msg1, inbox))
  PROVE  inbox' \in [Conn -> [Node -> Seq(M)]]
<1>1. send_over(n, over1, msg1, inbox) \in [Conn -> [Node -> Seq(M)]]
  BY SendType
<1> QED BY <1>1, SendType

LEMMA DoubleSignStep ==
  ASSUME NetInv, NEW K, TxInv(K), NEW n \in Node, n \in Faulty, chain[n] # << >>,
         NEW vrf \in 0..(MAX_OUTPUT - 1), DoubleSign(n, vrf),
         tasks' \in [Node -> Seq(0..EPOCH_TIME)],
         \A m \in Node : chain[m] = << >> => tasks'[m] = tasks[m],
         age' = [age EXCEPT ![n] = 0], ForgetStakes(n),
         UNCHANGED <<asked, restart_in, request_in, up>>
  PROVE  \E L : K \subseteq L /\ StepOK(L)
<1>a. PICK bait : bait = [id |-> count.txs + 1, sender |-> n,
                        amount |-> (3 * balance(n, n)) \div 4,
                        receiver |-> CHOOSE pk \in Account \ {n} : TRUE]
  OBVIOUS
<1>p. PICK pending : pending = PendingTransactions(n)
  OBVIOUS
<1>t. PICK txs : txs = Append(pending, bait)
  OBVIOUS
<1>b. PICK b : b = NewBlock(n, Len(minted), txs, vrf)
  OBVIOUS
<1>w. PICK twin : twin = NewBlock(n, Len(minted) + 1, txs, vrf)
  OBVIOUS
<1>m. PICK msgs : msgs = {BlockMsg(b), BlockMsg(twin)}
  OBVIOUS
<1>l. PICK L : L = K \cup {bait}
  OBVIOUS
<1>1. /\ chain' = [chain EXCEPT ![n] = Append(@, b)]
      /\ minted' = minted \o <<b, twin>> /\ since' = since \o <<0, 0>>
      /\ seen' = MarkSeen(n, msgs)
      /\ mem_pool' = [mem_pool EXCEPT ![n] = Sweep(@, InBlock(@, b)).kept]
      /\ \E over1, over2 : inbox' = send_over(n, over2, BlockMsg(twin),
                                      send_over(n, over1, BlockMsg(b), inbox))
      /\ count' = [count EXCEPT !.blocks = @ + 1, !.txs = @ + 1]
  BY <1>a, <1>p, <1>t, <1>b, <1>w, <1>m DEF DoubleSign
<1>2. /\ pending \in Seq(K) /\ DistinctIds(pending)
      /\ \A k \in DOMAIN pending : ~ transaction_exists_in_chain(chain[n], pending[k])
  BY <1>p, PendingKnown
<1>3. count \in CountType /\ count.txs \in Nat
  BY DEF NetInv, LocalOK, CountType
<1>4. count' \in CountType /\ count'.txs = count.txs + 1 /\ count.txs <= count'.txs
  BY <1>1, <1>3, CountUp
<1>5. bait \in Tx /\ bait.id = count.txs + 1
  BY <1>a, BaitType
<1>6. K \subseteq L /\ bait \in L /\ L \in SUBSET Tx /\ UniqueIds(L)
      /\ \A t \in L : t.id <= count'.txs
  <2>1. /\ K \cup {bait} \in SUBSET Tx /\ UniqueIds(K \cup {bait})
        /\ \A t \in K \cup {bait} : t.id <= count'.txs
    BY <1>4, <1>5, NextTx
  <2> QED BY <1>l, <2>1
<1>7. \A t \in K : t.id # bait.id
  <2>1. \A t \in K : t.id <= count.txs /\ t.id \in Nat
    BY DEF TxInv, Tx
  <2> QED BY <1>3, <1>5, <2>1
<1>8. /\ DOMAIN txs = DOMAIN pending \cup {Len(pending) + 1}
      /\ Len(pending) + 1 \notin DOMAIN pending
      /\ txs[Len(pending) + 1] = bait
      /\ \A k \in DOMAIN pending : txs[k] = pending[k]
  BY <1>2, <1>t, AppendFacts
<1>9. \A k \in DOMAIN pending : pending[k] \in K
  BY <1>2
<1>10. txs \in Seq(L)
  <2>1. pending \in Seq(L)
    BY <1>2, <1>6
  <2> QED BY <1>6, <1>t, <2>1
<1>11. DistinctIds(txs)
  BY <1>2, <1>7, <1>8, <1>9 DEF DistinctIds
<1>12. ~ transaction_exists_in_chain(chain[n], bait)
  <2>1. ASSUME NEW i \in DOMAIN chain[n], NEW k \in DOMAIN chain[n][i].transactions,
               chain[n][i].transactions[k] = bait
        PROVE  FALSE
    <3>1. chain[n][i].transactions \in Seq(K)
      <4>1. chain[n] \in KnownChain(K)
        BY DEF TxInv
      <4> QED BY <4>1, ChainFacts DEF KnownBlock
    <3>2. bait \in K
      BY <2>1, <3>1
    <3> QED BY <1>7, <3>2
  <2> QED BY <2>1 DEF transaction_exists_in_chain, transaction_exists_in_block
<1>13. \A k \in DOMAIN txs : ~ transaction_exists_in_chain(chain[n], txs[k])
  BY <1>2, <1>8, <1>12
<1>14. /\ Grows /\ ChainStep(L) /\ msgs \subseteq KnownMsg(L)'
       /\ seen' \in [Node -> SUBSET Ids] /\ SeenInv'
       /\ since' \in Seq(0..Oldest) /\ Len(since') = Len(minted')
  BY <1>1, <1>4, <1>6, <1>10, <1>11, <1>13, <1>b, <1>w, <1>m, MintStep
<1>15. inbox' \in [Conn -> [Node -> Seq(KnownMsg(L)')]]
  <2> PICK W : W = KnownMsg(L)'
    OBVIOUS
  <2> PICK over1, over2 : inbox' = send_over(n, over2, BlockMsg(twin),
                                      send_over(n, over1, BlockMsg(b), inbox))
    BY <1>1
  <2>1. inbox \in [Conn -> [Node -> Seq(W)]] /\ BlockMsg(b) \in W /\ BlockMsg(twin) \in W
    BY <1>6, <1>14, <1>m, SentGrows DEF TxInv
  <2> QED BY <2>1, SendTwice
<1> PICK gone : gone = InBlock(mem_pool[n], b)
  OBVIOUS
<1>16. mem_pool' = [mem_pool EXCEPT ![n] = Sweep(@, gone).kept]
  BY <1>1
<1>17. StepOK(L)
  BY <1>4, <1>6, <1>14, <1>15, <1>16, WinStep
<1> QED BY <1>6, <1>17

\* The rest of a sequence without its i-th element.
LEMMA RemoveType ==
  ASSUME NEW S, NEW s \in Seq(S), NEW i \in 1..Len(s)
  PROVE  RemoveAt(s, i) \in Seq(S)
<1>1. Len(s) \in Nat /\ \A j \in 1..Len(s) : s[j] \in S
  OBVIOUS
<1>2. SubSeq(s, 1, i - 1) \in Seq(S)
  BY <1>1
<1>3. SubSeq(s, i + 1, Len(s)) \in Seq(S)
  BY <1>1
<1> QED BY <1>2, <1>3 DEF RemoveAt

LEMMA TaskDone ==
  ASSUME NetInv, NEW n \in Node, NEW i \in DOMAIN tasks[n],
         tasks' = [tasks EXCEPT ![n] = RemoveAt(@, i)]
  PROVE  /\ chain[n] # << >>
         /\ tasks' \in [Node -> Seq(0..EPOCH_TIME)]
         /\ \A m \in Node : chain[m] = << >> => tasks'[m] = tasks[m]
<1>1. tasks \in [Node -> Seq(0..EPOCH_TIME)]
  BY DEF NetInv, TimesOK
<1>2. tasks[n] # << >>
  OBVIOUS
<1>3. chain[n] # << >>
  BY <1>2 DEF NetInv, IdleInv, Idle
<1>4. RemoveAt(tasks[n], i) \in Seq(0..EPOCH_TIME)
  <2> PICK S : S = 0..EPOCH_TIME
    OBVIOUS
  <2>1. tasks[n] \in Seq(S) /\ i \in 1..Len(tasks[n])
    BY <1>1
  <2> QED BY <2>1, RemoveType
<1> QED BY <1>1, <1>3, <1>4

\* A draw that makes no block.
LEMMA NoBlockStep ==
  ASSUME NetInv, NEW K, TxInv(K), NEW n \in Node,
         tasks' \in [Node -> Seq(0..EPOCH_TIME)],
         \A m \in Node : chain[m] = << >> => tasks'[m] = tasks[m],
         age' = [age EXCEPT ![n] = 0] \/ UNCHANGED age,
         ForgetStakes(n) \/ ForgetOwnStake(n),
         UNCHANGED <<peer_vars, inbox, block_vars, count, asked, restart_in, request_in, up>>
  PROVE  StepOK(K)
<1>1. LocalOK /\ TimesOK /\ StakeCounted
  BY DEF NetInv
<1>2. /\ K \in SUBSET Tx /\ UniqueIds(K) /\ \A t \in K : t.id <= count'.txs
      /\ Grows /\ ChainStep(K) /\ PoolInv' /\ SeenInv' /\ Sent(K)'
  BY Unseen DEF block_vars
<1>3. age' \in [Node -> 0..(Reset + 1)]
  <2>1. age \in [Node -> 0..(Reset + 1)] /\ 0 \in 0..(Reset + 1)
    BY <1>1, Durations DEF TimesOK
  <2> QED BY <2>1
<1>4. TimesOK'
  BY <1>1, <1>3 DEF TimesOK, block_vars
<1>5. /\ current_stakes' \in [Node -> SUBSET Stake]
      /\ \A m \in Node : IsFiniteSet(current_stakes'[m])
      /\ current_stakers' \in [Node -> [Account -> Int]]
      /\ staked_amt' \in [Node -> Int]
      /\ StakeCounted'
  <2>1. CASE ForgetStakes(n)
    BY <1>1, <2>1, StakesForgotten
  <2>2. CASE ForgetOwnStake(n)
    BY <1>1, <2>2, OwnStakeForgotten DEF LocalOK
  <2> QED BY <2>1, <2>2
<1>6. LocalOK'
  BY <1>1, <1>5 DEF LocalOK, peer_vars
<1>7. \A m \in Node : chain[m] = << >> /\ Idle(m) => Idle(m)'
  BY DEF Idle
<1> QED BY <1>2, <1>4, <1>5, <1>6, <1>7 DEF StepOK

LEMMA CreateBlocksStep ==
  ASSUME NetInv, NEW K, TxInv(K), NEW n \in Node, NEW i \in DOMAIN tasks[n],
         create_blocks(n, i)
  PROVE  \E L : K \subseteq L /\ StepOK(L)
<1>1. /\ UNCHANGED <<asked, restart_in, request_in, up>>
      /\ tasks' = [tasks EXCEPT ![n] = RemoveAt(@, i)]
  BY DEF create_blocks
<1>2. /\ chain[n] # << >>
      /\ tasks' \in [Node -> Seq(0..EPOCH_TIME)]
      /\ \A m \in Node : chain[m] = << >> => tasks'[m] = tasks[m]
  BY <1>1, TaskDone
<1>3. \/ /\ age' = [age EXCEPT ![n] = 0] \/ UNCHANGED age
         /\ ForgetStakes(n) \/ ForgetOwnStake(n)
         /\ UNCHANGED <<peer_vars, inbox, block_vars, count>>
      \/ \E vrf \in 0..(MAX_OUTPUT - 1) :
           /\ IF n \in Faulty THEN DoubleSign(n, vrf) ELSE WinBlock(n, vrf)
           /\ age' = [age EXCEPT ![n] = 0]
           /\ ForgetStakes(n)
  BY DEF create_blocks
<1>4. CASE /\ age' = [age EXCEPT ![n] = 0] \/ UNCHANGED age
           /\ ForgetStakes(n) \/ ForgetOwnStake(n)
           /\ UNCHANGED <<peer_vars, inbox, block_vars, count>>
  <2>1. StepOK(K)
    BY <1>1, <1>2, <1>4, NoBlockStep
  <2> QED BY <2>1
<1>5. CASE \E vrf \in 0..(MAX_OUTPUT - 1) :
             /\ IF n \in Faulty THEN DoubleSign(n, vrf) ELSE WinBlock(n, vrf)
             /\ age' = [age EXCEPT ![n] = 0]
             /\ ForgetStakes(n)
  <2>1. PICK vrf \in 0..(MAX_OUTPUT - 1) :
             /\ IF n \in Faulty THEN DoubleSign(n, vrf) ELSE WinBlock(n, vrf)
             /\ age' = [age EXCEPT ![n] = 0]
             /\ ForgetStakes(n)
    BY <1>5
  <2>2. CASE n \in Faulty
    BY <1>1, <1>2, <2>1, <2>2, DoubleSignStep
  <2>3. CASE n \notin Faulty
    <3>1. WinBlock(n, vrf)
      BY <2>1, <2>3
    <3>2. StepOK(K)
      BY <1>1, <1>2, <2>1, <3>1, WinBlockStep
    <3> QED BY <3>2
  <2> QED BY <2>2, <2>3
<1> QED BY <1>3, <1>4, <1>5

-----------------------------------------------------------------------------
(***************************************************************************)
(* Every step keeps the invariant; the first state has it.                 *)
(***************************************************************************)
LEMMA AnyStep ==
  ASSUME NetInv, NEW K, TxInv(K), Next
  PROVE  \E L : K \subseteq L /\ StepOK(L)
<1>1. ASSUME StepOK(K)
      PROVE  \E L : K \subseteq L /\ StepOK(L)
  BY <1>1
<1>2. CASE Tick
  BY <1>1, <1>2, TickStep
<1>3. ASSUME NEW n \in Node,
             \/ \E rec \in Account \ {n}, amt \in Amount : create_and_broadcast_tx(n, rec, amt)
             \/ OpenStake(n)
             \/ \E amt \in StakeAmount : SubmitStake(n, amt)
             \/ restart_epoch(n)
             \/ \E i \in DOMAIN tasks[n] : create_blocks(n, i)
             \/ find_longest_chain(n)
      PROVE  \E L : K \subseteq L /\ StepOK(L)
  <2>1. CASE \E rec \in Account \ {n}, amt \in Amount : create_and_broadcast_tx(n, rec, amt)
    BY <2>1, CreateStep
  <2>2. CASE OpenStake(n)
    BY <1>1, <2>2, OpenStakeStep
  <2>3. CASE \E amt \in StakeAmount : SubmitStake(n, amt)
    BY <1>1, <2>3, SubmitStakeStep
  <2>4. CASE restart_epoch(n)
    BY <1>1, <2>4, RestartStep
  <2>5. CASE \E i \in DOMAIN tasks[n] : create_blocks(n, i)
    BY <2>5, CreateBlocksStep
  <2>6. CASE find_longest_chain(n)
    BY <1>1, <2>6, FindLongestChainStep
  <2> QED BY <1>3, <2>1, <2>2, <2>3, <2>4, <2>5, <2>6
<1>4. ASSUME NEW c \in Conn, NEW n \in Ends(c), HandleMessage(c, n)
      PROVE  StepOK(K)
  <2>1. CASE HandleNewTx(c, n)
    BY <2>1, HandleNewTxStep
  <2>2. CASE HandleStake(c, n)
    BY <2>2, HandleStakeStep
  <2>3. CASE HandleNewBlock(c, n)
    BY <2>3, HandleNewBlockStep
  <2>4. CASE HandleChainRequest(c, n)
    BY <2>4, HandleChainRequestStep
  <2>5. CASE HandleChain(c, n)
    BY <2>5, HandleChainStep
  <2>6. CASE HandleSlash(c, n)
    BY <2>6, HandleSlashStep
  <2> QED BY <1>4, <2>1, <2>2, <2>3, <2>4, <2>5, <2>6 DEF HandleMessage
<1>5. ASSUME NEW c \in Conn, connect_to_peer(c)
      PROVE  StepOK(K)
  BY <1>5, ConnectStep
<1> QED BY <1>1, <1>2, <1>3, <1>4, <1>5 DEF Next

LEMMA NetStep ==
  ASSUME NetInv, [Next]_vars
  PROVE  NetInv'
<1>1. PICK K \in SUBSET Tx : TxInv(K)
  BY DEF NetInv
<1>2. CASE Next
  <2>1. PICK L : K \subseteq L /\ StepOK(L)
    BY <1>1, <1>2, AnyStep
  <2>2. /\ chain' \in [Node -> KnownChain(L)']
        /\ MintedInOrder' /\ LinkedInv' /\ \E H : Heights(H)'
        /\ \A m \in Node : chain'[m] = << >> => chain[m] = << >>
    <3>1. chain \in [Node -> KnownChain(K)] /\ Grows /\ ChainStep(L)
      BY <1>1, <2>1 DEF TxInv, StepOK
    <3>2. MintedInOrder /\ LinkedInv /\ \E H : Heights(H)
      BY DEF NetInv
    <3> QED BY <2>1, <3>1, <3>2, ChainKept
  <2>3. IdleInv'
    <3>1. ASSUME NEW m \in Node, chain'[m] = << >> PROVE Idle(m)'
      <4>1. chain[m] = << >> /\ Idle(m)
        BY <2>2, <3>1 DEF NetInv, IdleInv
      <4> QED BY <2>1, <4>1 DEF StepOK
    <3> QED BY <3>1 DEF IdleInv
  <2>4. TxInv(L)' /\ L \in SUBSET Tx
    BY <2>1, <2>2 DEF StepOK, TxInv
  <2>5. \E L0 \in SUBSET Tx : TxInv(L0)'
    BY <2>4
  <2>6. LocalOK' /\ TimesOK' /\ SeenInv' /\ PoolInv' /\ StakeCounted'
    BY <2>1 DEF StepOK
  <2> QED BY <2>2, <2>3, <2>5, <2>6 DEF NetInv
<1>3. CASE UNCHANGED vars
  <2>1. UNCHANGED <<peer_vars, epoch_vars, asked, timer_vars, net_vars, block_vars, count>>
    BY <1>3 DEF vars
  <2>2. /\ LocalOK' /\ TimesOK' /\ IdleInv' /\ MintedInOrder' /\ SeenInv' /\ PoolInv' /\ LinkedInv'
        /\ StakeCounted'
    BY <2>1 DEF NetInv, LocalOK, TimesOK, IdleInv, Idle, MintedInOrder, SeenInv, PoolInv,
                LinkedInv, Links, StakeCounted, Header, FirstHeader,
                peer_vars, epoch_vars, timer_vars, net_vars, block_vars
  <2>3. \E H : Heights(H)'
    <3>1. PICK H : Heights(H)
      BY DEF NetInv
    <3>2. Heights(H)'
      BY <2>1, <3>1 DEF Heights, peer_vars, block_vars
    <3> QED BY <3>2
  <2>4. TxInv(K)'
    <3>1. KnownMsg(K)' = KnownMsg(K) /\ KnownChain(K)' = KnownChain(K)
      BY <2>1 DEF KnownMsg, KnownChain, KnownBlock, Made, KnownStake, Evidence,
                  peer_vars, block_vars
    <3> QED BY <1>1, <2>1, <3>1 DEF TxInv, Sent, peer_vars, net_vars
  <2>5. \E L0 \in SUBSET Tx : TxInv(L0)'
    BY <1>1, <2>4
  <2> QED BY <2>2, <2>3, <2>5 DEF NetInv
<1> QED BY <1>2, <1>3

LEMMA EnumerationType ==
  ASSUME NEW S, IsFiniteSet(S)
  PROVE  SetToSeq(S) \in [1..Cardinality(S) -> S] /\ Cardinality(S) \in Nat
<1>1. Cardinality(S) \in Nat /\ ExistsBijection(1..Cardinality(S), S)
  BY FS_CardinalityType
<1>2. \E f \in [1..Cardinality(S) -> S] : IsInjective(f)
  BY <1>1 DEF ExistsBijection, Bijection, Injection
<1> QED BY <1>1, <1>2 DEF SetToSeq

(***************************************************************************)
(* The chain at the beginning, with K the transactions in it.              *)
(***************************************************************************)
FirstPaid == {k \in DOMAIN lastBlock(FirstChain).transactions :
                lastBlock(FirstChain).transactions[k].sender # Genesis}

FirstOK(K) ==
  /\ K \in SUBSET Tx /\ UniqueIds(K)
  /\ FirstChain \in Seq(Block) /\ Len(FirstChain) \in 1..2
  /\ Header(FirstChain[1]) = FirstHeader
  /\ \A i \in 1..Len(FirstChain) :
       /\ FirstChain[i].hash = i - 1 /\ FirstChain[i].creator = Founder
       /\ ~ FirstChain[i].slash_creator
       /\ FirstChain[i].transactions \in Seq(K) /\ DistinctIds(FirstChain[i].transactions)
       /\ i # 1 => FirstChain[i].prevHash = i - 2
  /\ Apart(FirstChain)
  /\ Cardinality(FirstPaid) \in Nat /\ \A t \in K : t.id <= Cardinality(FirstPaid)
  /\ Cardinality(lastBlock(FirstChain).stakers) \in Nat

LEMMA GenesisType ==
  /\ Founder \in Node /\ Founder \in Account
  /\ genesis_block(Founder) \in Block
  /\ genesis_block(Founder).transactions[1] \in Tx
  /\ Header(genesis_block(Founder)) = FirstHeader
<1>1. Founder \in Node /\ Founder \in Account
  BY NetworkAssumption
<1>2. [id |-> 0, sender |-> Genesis, receiver |-> Founder, amount |-> GenesisGrant] \in Tx
  BY <1>1 DEF Tx, GenesisGrant
<1>3. 0 \in 0..(MAX_OUTPUT - 1) /\ 0 \in 0..Registration
  BY OutputAssumption, Durations
<1>4. << [id |-> 0, sender |-> Genesis, receiver |-> Founder, amount |-> GenesisGrant] >>
        \in Seq(Tx)
  BY <1>2
<1>5. genesis_block(Founder) \in Block
  BY <1>1, <1>3, <1>4 DEF genesis_block, Block
<1> QED BY <1>1, <1>2, <1>5 DEF genesis_block, Header, FirstHeader

LEMMA FirstAlone ==
  ASSUME Opening = 0
  PROVE  \E K : FirstOK(K)
<1>g. PICK g : g = genesis_block(Founder)
  OBVIOUS
<1>t. PICK tx : tx = g.transactions[1]
  OBVIOUS
<1>1. FirstChain = <<g>> /\ g \in Block /\ tx \in Tx /\ Header(g) = FirstHeader
  BY <1>g, <1>t, GenesisType DEF FirstChain
<1>2. /\ g.transactions = <<tx>> /\ tx.id = 0 /\ tx.sender = Genesis
      /\ g.hash = 0 /\ g.creator = Founder /\ ~ g.slash_creator /\ g.stakers = {}
  BY <1>g, <1>t DEF genesis_block
<1>3. FirstChain \in Seq(Block) /\ Len(FirstChain) = 1 /\ FirstChain[1] = g
      /\ DOMAIN FirstChain = {1} /\ lastBlock(FirstChain) = g
  BY <1>1 DEF lastBlock
<1>4. <<tx>> \in Seq({tx}) /\ DistinctIds(<<tx>>) /\ DOMAIN <<tx>> = {1}
  BY DEF DistinctIds
<1>5. Apart(FirstChain)
  BY <1>3 DEF Apart
<1>6. FirstPaid = {}
  BY <1>2, <1>3, <1>4 DEF FirstPaid
<1>7. Cardinality({}) = 0
  BY FS_EmptySet
<1>8. FirstOK({tx})
  <2>1. UniqueIds({tx}) /\ {tx} \in SUBSET Tx /\ \A t \in {tx} : t.id <= 0
    BY <1>1, <1>2 DEF UniqueIds
  <2>2. \A i \in 1..Len(FirstChain) : i = 1 /\ FirstChain[i] = g
    BY <1>3
  <2>3. \A i \in 1..Len(FirstChain) :
          /\ FirstChain[i].hash = i - 1 /\ FirstChain[i].creator = Founder
          /\ ~ FirstChain[i].slash_creator
          /\ FirstChain[i].transactions \in Seq({tx})
          /\ DistinctIds(FirstChain[i].transactions)
          /\ i # 1 => FirstChain[i].prevHash = i - 2
    <3>1. /\ g.hash = 1 - 1 /\ g.creator = Founder /\ ~ g.slash_creator
          /\ g.transactions \in Seq({tx}) /\ DistinctIds(g.transactions)
      BY <1>2, <1>4
    <3> QED BY <2>2, <3>1
  <2>4. /\ Header(FirstChain[1]) = FirstHeader
        /\ Cardinality(FirstPaid) \in Nat /\ \A t \in {tx} : t.id <= Cardinality(FirstPaid)
        /\ Cardinality(lastBlock(FirstChain).stakers) \in Nat
    BY <1>1, <1>2, <1>3, <1>6, <1>7, <2>1
  <2>5. Len(FirstChain) \in 1..2
    BY <1>3
  <2> QED BY <1>3, <1>5, <2>1, <2>3, <2>4, <2>5 DEF FirstOK
<1> QED BY <1>8

LEMMA FirstWithOpening ==
  ASSUME Opening # 0
  PROVE  \E K : FirstOK(K)
<1>g. PICK g : g = genesis_block(Founder)
  OBVIOUS
<1>t. PICK tx : tx = g.transactions[1]
  OBVIOUS
<1>o. PICK others : others = SetToSeq(Node \ {Founder})
  OBVIOUS
<1>n. PICK N : N = Cardinality(Node \ {Founder})
  OBVIOUS
<1>p. PICK paid : paid = [k \in DOMAIN others |-> [id |-> k, sender |-> Founder,
                                       receiver |-> others[k], amount |-> Opening]]
  OBVIOUS
<1>b. PICK b : b = FirstBlock
  OBVIOUS
<1>s. PICK stake : stake = [id |-> 1, staker |-> Founder, amt |-> 1, sign |-> TRUE]
  OBVIOUS
<1>1. FirstChain = <<g, b>> /\ g \in Block /\ tx \in Tx /\ Header(g) = FirstHeader
      /\ Founder \in Account
  BY <1>g, <1>t, <1>b, GenesisType DEF FirstChain
<1>2. /\ g.transactions = <<tx>> /\ tx.id = 0 /\ tx.sender = Genesis
      /\ g.hash = 0 /\ g.creator = Founder /\ ~ g.slash_creator
  BY <1>g, <1>t DEF genesis_block
<1>3. b = [hash |-> 1, prevHash |-> 0, transactions |-> paid, creator |-> Founder,
           staked_amt |-> 1, seed |-> 0, vrf |-> 0, gap |-> Registration,
           stakers |-> {stake}, is_valid |-> TRUE, slash_creator |-> FALSE]
  BY <1>o, <1>p, <1>b, <1>s DEF FirstBlock
<1>4. others \in [1..N -> Node \ {Founder}] /\ N \in Nat
  <2>1. IsFiniteSet(Node \ {Founder})
    BY NetworkAssumption, FS_Subset
  <2> QED BY <1>o, <1>n, <2>1, EnumerationType
<1>5. /\ DOMAIN paid = 1..N
      /\ \A k \in 1..N : paid[k] \in Tx /\ paid[k].id = k /\ paid[k].sender = Founder
  <2>1. \A k \in 1..N : others[k] \in Account /\ k \in Nat
    <3>1. \A k \in 1..N : others[k] \in Node /\ k \in Nat
      BY <1>4
    <3> QED BY <3>1, NetworkAssumption
  <2>2. DOMAIN paid = 1..N /\ \A k \in 1..N :
          paid[k] = [id |-> k, sender |-> Founder, receiver |-> others[k], amount |-> Opening]
    BY <1>4, <1>p
  <2>3. Opening \in Int
    BY NetworkAssumption
  <2> QED BY <1>1, <2>1, <2>2, <2>3 DEF Tx
<1>6. paid \in Seq(Tx)
  <2>1. paid = [k \in 1..N |-> paid[k]]
    BY <1>5, <1>p
  <2> QED BY <1>4, <1>5, <2>1
<1>7. b \in Block
  <2>1. stake \in Stake
    BY <1>1, <1>s DEF Stake
  <2>2. 0 \in 0..(MAX_OUTPUT - 1) /\ Registration \in 0..Registration
    BY OutputAssumption, Durations
  <2> QED BY <1>1, <1>3, <1>6, <2>1, <2>2 DEF Block
<1>8. FirstChain \in Seq(Block) /\ Len(FirstChain) = 2 /\ DOMAIN FirstChain = {1, 2}
      /\ FirstChain[1] = g /\ FirstChain[2] = b /\ lastBlock(FirstChain) = b
  BY <1>1, <1>7 DEF lastBlock
<1>k. PICK K : K = {tx} \cup {paid[k] : k \in 1..N}
  OBVIOUS
<1>9. K \in SUBSET Tx /\ UniqueIds(K) /\ \A t \in K : t.id <= N
  <2>1. K \in SUBSET Tx
    BY <1>1, <1>5, <1>k
  <2>2. \A t \in K : (t = tx /\ t.id = 0) \/ \E k \in 1..N : t = paid[k] /\ t.id = k
    BY <1>2, <1>5, <1>k
  <2>3. UniqueIds(K)
    BY <1>4, <2>2 DEF UniqueIds
  <2>4. \A t \in K : t.id <= N
    BY <1>4, <2>2
  <2> QED BY <2>1, <2>3, <2>4
<1>10. <<tx>> \in Seq(K) /\ DistinctIds(<<tx>>) /\ DOMAIN <<tx>> = {1}
  BY <1>k DEF DistinctIds
<1>11. paid \in Seq(K) /\ DistinctIds(paid)
  <2>1. paid = [k \in 1..N |-> paid[k]] /\ \A k \in 1..N : paid[k] \in K
    BY <1>5, <1>k, <1>p
  <2>2. paid \in Seq(K)
    BY <1>4, <2>1
  <2> QED BY <1>5, <2>2 DEF DistinctIds
<1>12. Apart(FirstChain)
  <2>1. \A k \in DOMAIN <<tx>> : \A l \in DOMAIN paid : <<tx>>[k].id # paid[l].id
    BY <1>2, <1>5, <1>10
  <2>2. g.transactions = <<tx>> /\ b.transactions = paid
    BY <1>2, <1>3
  <2> QED BY <1>8, <2>1, <2>2 DEF Apart
<1>13. Cardinality(FirstPaid) = N
  <2>1. FirstPaid = 1..N
    <3>1. Founder # Genesis
      BY <1>1, LedgerAssumption
    <3>2. lastBlock(FirstChain).transactions = paid
      BY <1>3, <1>8
    <3> QED BY <1>5, <3>1, <3>2 DEF FirstPaid
  <2>2. Cardinality(1..N) = N
    <3>1. 1 \in Int /\ N \in Int
      BY <1>4
    <3>2. Cardinality(1..N) = IF 1 > N THEN 0 ELSE N - 1 + 1
      BY <3>1, FS_Interval
    <3> QED BY <1>4, <3>2
  <2> QED BY <2>1, <2>2
<1>14. Cardinality(lastBlock(FirstChain).stakers) \in Nat
  <2>1. lastBlock(FirstChain).stakers = {stake}
    BY <1>3, <1>8
  <2>2. Cardinality({stake}) = 1
    BY FS_Singleton
  <2> QED BY <2>1, <2>2
<1>15. FirstOK(K)
  <2>1. ASSUME NEW i \in 1..Len(FirstChain)
        PROVE  /\ FirstChain[i].hash = i - 1 /\ FirstChain[i].creator = Founder
               /\ ~ FirstChain[i].slash_creator
               /\ FirstChain[i].transactions \in Seq(K)
               /\ DistinctIds(FirstChain[i].transactions)
               /\ i # 1 => FirstChain[i].prevHash = i - 2
    <3>1. i = 1 \/ i = 2
      BY <1>8
    <3>2. CASE i = 1
      BY <1>2, <1>8, <1>10, <3>2
    <3>3. CASE i = 2
      BY <1>3, <1>8, <1>11, <3>3
    <3> QED BY <3>1, <3>2, <3>3
  <2>2. /\ Header(FirstChain[1]) = FirstHeader
        /\ Cardinality(FirstPaid) \in Nat /\ \A t \in K : t.id <= Cardinality(FirstPaid)
    BY <1>1, <1>4, <1>8, <1>9, <1>13
  <2>3. Len(FirstChain) \in 1..2
    BY <1>8
  <2> QED BY <1>8, <1>9, <1>12, <1>14, <2>1, <2>2, <2>3 DEF FirstOK
<1> QED BY <1>15

LEMMA NetInit ==
  ASSUME Init
  PROVE  NetInv
<1>1. PICK K : FirstOK(K)
  BY FirstAlone, FirstWithOpening
<1> PICK F : F = FirstChain
  OBVIOUS
<1>2. /\ K \in SUBSET Tx /\ UniqueIds(K) /\ F \in Seq(Block) /\ Len(F) \in 1..2
      /\ Header(F[1]) = FirstHeader /\ Apart(F)
      /\ \A i \in 1..Len(F) :
           /\ F[i].hash = i - 1 /\ F[i].creator = Founder /\ ~ F[i].slash_creator
           /\ F[i].transactions \in Seq(K) /\ DistinctIds(F[i].transactions)
           /\ i # 1 => F[i].prevHash = i - 2
  BY <1>1 DEF FirstOK
<1>3. /\ minted = F
      /\ chain = [n \in Node |-> IF n \in Joined THEN F ELSE << >>]
      /\ DOMAIN F = 1..Len(F) /\ F # << >> /\ \A i \in 1..Len(F) : F[i] \in Block
  BY <1>2 DEF Init
<1>4. Founder \in Node /\ Founder \in Joined /\ Joined \subseteq Node
  BY NetworkAssumption
<1>5. LocalOK
  <2>1. Nobody \in [Account -> Int]
    BY DEF Nobody
  <2>2. count.txs \in Nat /\ count.stakes \in Nat /\ count \in CountType
    <3>1. /\ Cardinality(FirstPaid) \in Nat
          /\ Cardinality(lastBlock(FirstChain).stakers) \in Nat
      BY <1>1 DEF FirstOK
    <3> QED BY <3>1 DEF Init, CountType, FirstPaid
  <2>3. IsFiniteSet({})
    BY FS_EmptySet
  <2> QED BY <2>1, <2>2, <2>3 DEF Init, LocalOK, CountType
<1>6. TimesOK
  <2>1. /\ age \in [Node -> 0..(Reset + 1)]
        /\ restart_in \in [Node -> 0..(EPOCH_TIME \div 2)]
        /\ request_in \in [Node -> 0..EPOCH_TIME]
    <3>1. Start \in [Node -> 0..5] /\ \A n \in Node : Start[n] \in 0..5
      BY Durations, NetworkAssumption
    <3>2. age \in [Node -> 0..(Reset + 1)]
      <4>1. PICK S : S = 0..5
        OBVIOUS
      <4>2. PICK T : T = 0..(Reset + 1)
        OBVIOUS
      <4>3. S \subseteq T
        BY <4>1, <4>2, Durations
      <4>4. age = Start
        BY DEF Init
      <4>5. age \in [Node -> S]
        BY <3>1, <4>1, <4>4
      <4>6. age \in [Node -> T]
        BY <4>3, <4>5
      <4> QED BY <4>2, <4>6
    <3>3. \A n \in Node : 3 - (Start[n] % 3) \in 0..3
      BY <3>1
    <3>4. restart_in \in [Node -> 0..(EPOCH_TIME \div 2)]
      BY <3>3, Durations DEF Init
    <3>5. \A n \in Node : (IF Start[n] = 0 THEN 0 ELSE 6 - Start[n]) \in 0..6
      BY <3>1
    <3>6. request_in \in [Node -> 0..EPOCH_TIME]
      BY <3>5, Durations DEF Init
    <3> QED BY <3>2, <3>4, <3>6
  <2>2. since \in Seq(0..Oldest) /\ Len(since) = Len(minted)
    <3>1. since = [i \in 1..Len(F) |-> IF i = Len(F) THEN Start[Founder] ELSE Oldest]
      BY <1>3 DEF Init
    <3>2. Start[Founder] \in 0..Oldest /\ Oldest \in 0..Oldest
      <4>1. Start[Founder] \in 0..5
        BY <1>4, Durations, NetworkAssumption
      <4> QED BY <4>1, Durations
    <3>3. Len(F) \in Nat
      BY <1>2
    <3> PICK S : S = 0..Oldest
      OBVIOUS
    <3>4. \A i \in 1..Len(F) : (IF i = Len(F) THEN Start[Founder] ELSE Oldest) \in S
      BY <3>2
    <3>5. since \in Seq(S) /\ Len(since) = Len(F)
      BY <3>1, <3>3, <3>4
    <3> QED BY <1>3, <3>5
  <2>3. tasks \in [Node -> Seq(0..EPOCH_TIME)]
    BY DEF Init
  <2> QED BY <2>1, <2>2, <2>3 DEF TimesOK
<1>7. IdleInv /\ SeenInv /\ StakeCounted
  BY DEF Init, IdleInv, Idle, SeenInv, StakeCounted
<1>8. PoolInv
  <2>1. \A n \in Node : mem_pool[n] = << >>
    BY DEF Init
  <2>2. DistinctIds(<< >>) /\ DOMAIN << >> = {}
    BY DEF DistinctIds
  <2> QED BY <2>1, <2>2 DEF PoolInv
<1>9. MintedInOrder
  BY <1>2, <1>3, <1>4 DEF MintedInOrder, Header, FirstHeader
<1>10. Links(F) /\ Links(<< >>)
  <2>1. ASSUME NEW i \in 2..Len(F) PROVE F[i].prevHash = F[i-1].hash
    <3>1. i \in 1..Len(F) /\ i - 1 \in 1..Len(F) /\ i # 1
      BY <1>2
    <3> QED BY <1>2, <3>1
  <2> QED BY <2>1 DEF Links
<1>11. LinkedInv
  BY <1>3, <1>10 DEF LinkedInv
<1>12. \E H : Heights(H)
  <2> PICK H : H = [i \in DOMAIN minted |-> i]
    OBVIOUS
  <2>1. H \in [DOMAIN minted -> Nat] /\ \A i \in 1..Len(F) : H[i] = i
    BY <1>2, <1>3
  <2>2. \A i \in DOMAIN minted \ {1} :
          /\ minted[i].prevHash + 1 \in DOMAIN minted
          /\ minted[i].prevHash \in Nat
          /\ H[i] = H[minted[i].prevHash + 1] + 1
    BY <1>2, <1>3, <2>1
  <2>3. \A i \in DOMAIN minted : /\ minted[i].creator = Founder
                                 /\ H[i] <= Len(chain[minted[i].creator])
    <3>1. chain[Founder] = F
      BY <1>3, <1>4
    <3> QED BY <1>2, <1>3, <2>1, <3>1
  <2>4. H[1] = 1
    BY <1>2, <2>1
  <2>5. \A i, j \in DOMAIN minted : H[i] = H[j] => i = j
    BY <1>3, <2>1
  <2>6. Heights(H)
    BY <2>1, <2>2, <2>3, <2>4, <2>5 DEF Heights
  <2> QED BY <2>6
<1>13. TxInv(K)
  <2>1. \A t \in K : t.id <= count.txs
    BY <1>1 DEF Init, FirstOK, FirstPaid
  <2>2. \A i \in 1..Len(F) : F[i] \in KnownBlock(K)
    BY <1>2, <1>3 DEF KnownBlock, Made
  <2>3. F \in KnownChain(K) /\ << >> \in KnownChain(K)
    <3>1. F \in Seq(KnownBlock(K))
      <4>1. F = [i \in 1..Len(F) |-> F[i]] /\ Len(F) \in Nat
        BY <1>2
      <4> QED BY <2>2, <4>1
    <3>2. Apart(<< >>)
      BY DEF Apart
    <3> QED BY <1>2, <3>1, <3>2 DEF KnownChain
  <2>4. chain \in [Node -> KnownChain(K)]
    BY <1>3, <2>3
  <2>5. Sent(K)
    BY DEF Init, Sent
  <2> QED BY <1>2, <2>1, <2>4, <2>5 DEF TxInv
<1> QED BY <1>2, <1>5, <1>6, <1>7, <1>8, <1>9, <1>11, <1>12, <1>13 DEF NetInv

(***************************************************************************)
(* The inductive invariant holds in every state.                           *)
(***************************************************************************)
THEOREM NetInvariant == Spec => []NetInv
<1>1. Init => NetInv
  BY NetInit
<1>2. NetInv /\ [Next]_vars => NetInv'
  BY NetStep
<1> QED BY <1>1, <1>2, PTL DEF Spec

(***************************************************************************)
(* Chains, pools, stakes, timers and messages always hold what the code    *)
(* puts into them.                                                         *)
(***************************************************************************)
THEOREM PosTypeOK == Spec => []TypeOK
<1>1. ASSUME NetInv PROVE TypeOK
  <2>1. PICK K \in SUBSET Tx : TxInv(K)
    BY <1>1 DEF NetInv
  <2>2. KnownBlock(K) \subseteq Block
    BY DEF KnownBlock
  <2>3. Seq(KnownBlock(K)) \subseteq Seq(Block) /\ Seq(K) \subseteq Seq(Tx)
    BY <2>2
  <2>4. KnownChain(K) \subseteq Seq(Block)
    BY <2>3 DEF KnownChain
  <2>5. chain \in [Node -> Seq(Block)] /\ mem_pool \in [Node -> Seq(Tx)]
    BY <2>1, <2>3, <2>4 DEF TxInv, Sent
  <2>6. Evidence \subseteq Nat
    <3>1. \A j \in DOMAIN minted : minted[j].hash = j - 1 /\ j \in Nat /\ minted[j] \in Block
      BY <1>1 DEF NetInv, MintedInOrder
    <3>2. \A j \in DOMAIN minted : minted[j].hash \in Nat
      BY <3>1 DEF Block
    <3> QED BY <3>2 DEF Evidence
  <2>7. KnownMsg(K) \subseteq Msg
    <3>1. KnownStake \subseteq Stake /\ K \subseteq Tx /\ SUBSET Evidence \subseteq SUBSET Nat
      BY <2>6 DEF KnownStake
    <3> QED BY <2>2, <2>4, <3>1 DEF KnownMsg, Msg
  <2>8. inbox \in [Conn -> [Node -> Seq(Msg)]]
    <3>1. Seq(KnownMsg(K)) \subseteq Seq(Msg)
      BY <2>7
    <3> QED BY <2>1, <3>1 DEF TxInv, Sent
  <2> QED BY <1>1, <2>5, <2>8 DEF NetInv, LocalOK, TimesOK, MintedInOrder, TypeOK
<1> QED BY <1>1, NetInvariant, PTL

(***************************************************************************)
(* What a peer has staked is always among the stakes it draws with, signed *)
(* and in the same amount.                                                 *)
(***************************************************************************)
THEOREM PosStakeCounted == Spec => []StakeCounted
<1>1. NetInv => StakeCounted
  BY DEF NetInv
<1> QED BY <1>1, NetInvariant, PTL

(***************************************************************************)
(* No chain ever holds a transaction twice, in one block or in two.        *)
(***************************************************************************)
THEOREM PosNoDuplicateTx == Spec => []NoDuplicateTx
<1>1. ASSUME NetInv PROVE NoDuplicateTx
  <2>1. PICK K \in SUBSET Tx : TxInv(K)
    BY <1>1 DEF NetInv
  <2>2. ASSUME NEW n \in Node, NEW i \in DOMAIN chain[n], NEW j \in DOMAIN chain[n],
               NEW k \in DOMAIN chain[n][i].transactions,
               NEW l \in DOMAIN chain[n][j].transactions,
               chain[n][i].transactions[k].id = chain[n][j].transactions[l].id
        PROVE  i = j /\ k = l
    <3>1. chain[n] \in KnownChain(K)
      BY <2>1 DEF TxInv
    <3>2. Apart(chain[n]) /\ chain[n][i] \in KnownBlock(K)
      BY <3>1, ChainFacts
    <3>3. i = j
      BY <2>2, <3>2 DEF Apart
    <3>4. DistinctIds(chain[n][i].transactions)
      BY <3>2 DEF KnownBlock
    <3> QED BY <2>2, <3>3, <3>4 DEF DistinctIds
  <2> QED BY <2>2 DEF NoDuplicateTx
<1> QED BY <1>1, NetInvariant, PTL

(***************************************************************************)
(* A peer that does not sign two blocks is marked as slashed in no chain.  *)
(***************************************************************************)
THEOREM PosOnlyDoubleSignersSlashed == Spec => []OnlyDoubleSignersSlashed
<1>1. ASSUME NetInv PROVE OnlyDoubleSignersSlashed
  <2>1. PICK K \in SUBSET Tx : TxInv(K)
    BY <1>1 DEF NetInv
  <2>2. ASSUME NEW n \in Node, NEW i \in DOMAIN chain[n], chain[n][i].slash_creator
        PROVE  chain[n][i].creator \in Faulty
    <3>1. chain[n] \in KnownChain(K)
      BY <2>1 DEF TxInv
    <3>2. chain[n][i] \in KnownBlock(K)
      BY <3>1, ChainFacts
    <3> QED BY <2>2, <3>2 DEF KnownBlock
  <2> QED BY <2>2 DEF OnlyDoubleSignersSlashed
<1> QED BY <1>1, NetInvariant, PTL

-----------------------------------------------------------------------------
(***************************************************************************)
(* Where no peer signs two blocks, the headers of the peers' chains change *)
(* only as ChainReplica allows.                                            *)
(***************************************************************************)
mintedHeaders == {Header(minted[i]) : i \in DOMAIN minted}

LEMMA AllHeaders ==
  /\ \A b : Header(b) = HeaderOf(b)
  /\ headers = [m \in Node |-> HeadersOf(chain[m])]
  /\ headers' = [m \in Node |-> HeadersOf(chain'[m])]
BY DEF headers, HeadersOf, Header, HeaderOf

LEMMA KnownHeaders ==
  ASSUME NEW K, NEW c \in KnownChain(K)
  PROVE  /\ HeadersOf(c) \in Seq(mintedHeaders)
         /\ Len(HeadersOf(c)) = Len(c) /\ Len(c) \in Nat /\ DOMAIN c = 1..Len(c)
         /\ \A i \in DOMAIN c : /\ HeadersOf(c)[i] = Header(c[i])
                                /\ HeadersOf(c)[i].hash = c[i].hash
                                /\ HeadersOf(c)[i].prevHash = c[i].prevHash
<1>1. c \in Seq(KnownBlock(K))
  BY ChainFacts
<1>2. \A b \in KnownBlock(K) : HeaderOf(b) \in mintedHeaders
  BY DEF KnownBlock, Made, Base, mintedHeaders, Header, HeaderOf
<1> QED BY <1>1, <1>2, AllHeaders, HeadersType

\* A changed chain changes its headers and no others.
LEMMA HeadersChange ==
  ASSUME NEW S, chain \in [Node -> S], NEW n \in Node, NEW c,
         chain' = [chain EXCEPT ![n] = c]
  PROVE  /\ headers' = [headers EXCEPT ![n] = HeadersOf(c)]
         /\ headers'[n] = HeadersOf(c)
<1>1. chain'[n] = c /\ \A m \in Node : m # n => chain'[m] = chain[m]
  OBVIOUS
<1>2. \A m \in Node : headers[m] = HeadersOf(chain[m])
  BY AllHeaders
<1>3. HeadersOf(chain'[n]) = HeadersOf(c)
  BY <1>1
<1>4. \A m \in Node : m # n => HeadersOf(chain'[m]) = headers[m]
  BY <1>1, <1>2, Zenon
<1>5. headers' = [m \in Node |-> IF m = n THEN HeadersOf(c) ELSE headers[m]]
  BY <1>3, <1>4, AllHeaders
<1>6. headers = [m \in Node |-> headers[m]]
  BY AllHeaders
<1> QED BY <1>5, <1>6

\* A block that goes on top of a chain brings its header.
LEMMA OnTopHeaders ==
  ASSUME NEW K, chain \in [Node -> KnownChain(K)], NEW n \in Node, NEW b, OnTop(n, b)
  PROVE  /\ headers' = [headers EXCEPT ![n] = Append(@, Header(b))]
         /\ headers[n] # << >>
         /\ Header(b).prevHash = Replica!tip(headers[n])
         /\ headers'[n] # << >> /\ Replica!tip(headers'[n]) = b.hash
<1>1. /\ chain[n] \in KnownChain(K) /\ chain[n] # << >>
      /\ headers[n] = HeadersOf(chain[n])
      /\ chain' = [chain EXCEPT ![n] = Append(chain[n], b)]
      /\ b.prevHash = lastBlock(chain[n]).hash
  BY AllHeaders DEF OnTop
<1>2. /\ chain[n] \in Seq(KnownBlock(K)) /\ Len(chain[n]) >= 1
      /\ lastBlock(chain[n]) = chain[n][Len(chain[n])]
  BY <1>1, ChainFacts
<1>3. /\ headers[n] \in Seq(mintedHeaders) /\ Len(headers[n]) = Len(chain[n])
      /\ Len(chain[n]) \in Nat /\ DOMAIN chain[n] = 1..Len(chain[n])
      /\ \A i \in DOMAIN chain[n] : headers[n][i].hash = chain[n][i].hash
  BY <1>1, KnownHeaders
<1>4. headers[n] # << >> /\ Replica!tip(headers[n]) = b.prevHash
  BY <1>1, <1>2, <1>3 DEF Replica!tip
<1>5. HeadersOf(Append(chain[n], b)) = Append(headers[n], Header(b))
  BY <1>1, <1>2, AllHeaders, HeadersAppend
<1>6. headers' = [headers EXCEPT ![n] = Append(headers[n], Header(b))]
      /\ headers'[n] = Append(headers[n], Header(b))
  BY <1>1, <1>5, HeadersChange
<1>7. headers'[n] # << >> /\ Replica!tip(headers'[n]) = b.hash
  <2>1. /\ Len(Append(headers[n], Header(b))) = Len(headers[n]) + 1
        /\ Append(headers[n], Header(b))[Len(headers[n]) + 1] = Header(b)
        /\ Append(headers[n], Header(b)) # << >>
    BY <1>3
  <2> QED BY <1>6, <2>1 DEF Replica!tip, Header
<1> QED BY <1>4, <1>6, <1>7 DEF Header

LEMMA MintsReplica ==
  ASSUME NetInv, Faulty = {}, NEW K, chain \in [Node -> KnownChain(K)],
         NEW L, NEW n \in Node, Mints(L, n)
  PROVE  Replica!Next
<1>1. PICK b : /\ OnTop(n, b) /\ b.hash = Len(minted)
               /\ minted' = Append(minted, b)
  BY DEF Mints
<1>2. /\ headers' = [headers EXCEPT ![n] = Append(@, Header(b))]
      /\ headers[n] # << >>
      /\ Header(b).prevHash = Replica!tip(headers[n])
      /\ headers'[n] # << >> /\ Replica!tip(headers'[n]) = b.hash
  BY <1>1, OnTopHeaders
<1>3. Header(b) = [hash |-> Len(minted), prevHash |-> Replica!tip(headers[n])]
  BY <1>1, <1>2 DEF Header
<1>4. /\ minted \in Seq(Block) /\ Len(minted) \in Nat /\ DOMAIN minted = 1..Len(minted)
      /\ \A i \in DOMAIN minted : minted[i].hash = i - 1
  BY DEF NetInv, MintedInOrder
<1>5. \A h \in mintedHeaders : h.hash # Len(minted)
  BY <1>4 DEF mintedHeaders, Header
<1>6. mintedHeaders' = mintedHeaders \cup {Header(b)}
  <2>1. /\ DOMAIN minted' = DOMAIN minted \cup {Len(minted) + 1}
        /\ \A i \in DOMAIN minted : minted'[i] = minted[i]
        /\ minted'[Len(minted) + 1] = b
    BY <1>1, <1>4
  <2> QED BY <2>1 DEF mintedHeaders
<1>7. Replica!Mint(n, Len(minted))
  BY <1>2, <1>3, <1>4, <1>5, <1>6 DEF Replica!Mint, mintedHeaders
<1> QED BY <1>1, <1>2, <1>7 DEF Replica!Next

LEMMA TakesReplica ==
  ASSUME NEW K, chain \in [Node -> KnownChain(K)], NEW L, NEW n \in Node, Takes(L, n)
  PROVE  Replica!Next
<1>1. PICK b \in KnownBlock(L)' : OnTop(n, b)
  BY DEF Takes
<1>2. UNCHANGED minted /\ UNCHANGED mintedHeaders
  BY DEF Takes, mintedHeaders
<1>3. Header(b) \in mintedHeaders
  BY <1>2 DEF KnownBlock, Made, Base, mintedHeaders, Header
<1>4. /\ headers' = [headers EXCEPT ![n] = Append(@, Header(b))]
      /\ headers[n] # << >>
      /\ Header(b).prevHash = Replica!tip(headers[n])
  BY <1>1, OnTopHeaders
<1>5. Replica!Accept(n)
  BY <1>2, <1>3, <1>4 DEF Replica!Accept, mintedHeaders
<1> QED BY <1>5 DEF Replica!Next

LEMMA AdoptsReplica ==
  ASSUME NEW K, chain \in [Node -> KnownChain(K)], NEW L, NEW n \in Node,
         Grows, Adopts(L, n)
  PROVE  Replica!Next
<1>1. PICK c \in KnownChain(L)' : /\ Links(c) /\ Len(c) > Len(chain[n])
                                  /\ chain' = [chain EXCEPT ![n] = c]
  BY DEF Adopts
<1>2. UNCHANGED minted /\ UNCHANGED mintedHeaders
  BY DEF Adopts, mintedHeaders
<1>3. c \in KnownChain(L)
  BY <1>2 DEF KnownChain, KnownBlock, Made
<1>4. PICK taken : taken = HeadersOf(c)
  OBVIOUS
<1>5. /\ taken \in Seq(mintedHeaders) /\ Len(taken) = Len(c)
      /\ Len(c) \in Nat /\ DOMAIN c = 1..Len(c)
      /\ \A i \in DOMAIN c : /\ taken[i] = Header(c[i])
                             /\ taken[i].hash = c[i].hash
                             /\ taken[i].prevHash = c[i].prevHash
  BY <1>3, <1>4, KnownHeaders
<1>6. /\ headers[n] = HeadersOf(chain[n])
      /\ Len(headers[n]) = Len(chain[n]) /\ Len(chain[n]) \in Nat
  <2>1. chain[n] \in KnownChain(K)
    OBVIOUS
  <2> QED BY <2>1, AllHeaders, KnownHeaders
<1>7. headers' = [headers EXCEPT ![n] = taken] /\ headers'[n] = taken
  BY <1>1, <1>4, HeadersChange
<1>8. Replica!Linked(taken)
  <2>1. Len(c) >= 1 /\ c # << >> /\ taken # << >> /\ 1 \in DOMAIN c
    BY <1>1, <1>5, <1>6
  <2>2. taken[1] = Replica!genesis
    BY <1>3, <1>5, <2>1 DEF KnownChain, FirstHeader, Replica!genesis
  <2>3. ASSUME NEW i \in 2..Len(taken) PROVE taken[i].prevHash = taken[i-1].hash
    <3>1. i \in DOMAIN c /\ i - 1 \in DOMAIN c /\ i \in 2..Len(c)
      BY <1>5
    <3>2. c[i].prevHash = c[i-1].hash
      BY <1>1, <3>1 DEF Links
    <3> QED BY <1>5, <3>1, <3>2
  <2> QED BY <2>1, <2>2, <2>3 DEF Replica!Linked
<1>9. Replica!Adopt(n, taken)
  BY <1>1, <1>2, <1>5, <1>6, <1>7, <1>8 DEF Replica!Adopt, mintedHeaders
<1> QED BY <1>7, <1>9 DEF Replica!Next

LEMMA ReplicaStep ==
  ASSUME Faulty = {}, NetInv, [Next]_vars
  PROVE  [Replica!Next]_(Replica!vars)
<1>1. ASSUME UNCHANGED <<chain, minted>> PROVE UNCHANGED Replica!vars
  BY <1>1, AllHeaders DEF Replica!vars
<1>2. CASE Next
  <2>1. PICK K \in SUBSET Tx : TxInv(K)
    BY DEF NetInv
  <2>2. PICK L : K \subseteq L /\ StepOK(L)
    BY <1>2, <2>1, AnyStep
  <2>3. chain \in [Node -> KnownChain(K)] /\ Grows /\ ChainStep(L)
    BY <2>1, <2>2 DEF TxInv, StepOK
  <2>4. ASSUME NEW n \in Node, Mints(L, n) \/ Takes(L, n) \/ Adopts(L, n) \/ Marks(n)
        PROVE  Replica!Next
    <3>1. ~ Marks(n)
      BY DEF Marks
    <3> QED BY <2>3, <2>4, <3>1, MintsReplica, TakesReplica, AdoptsReplica
  <2> QED BY <1>1, <2>3, <2>4 DEF ChainStep
<1>3. CASE UNCHANGED vars
  BY <1>1, <1>3 DEF vars, peer_vars, block_vars
<1> QED BY <1>2, <1>3

(***************************************************************************)
(* Where no peer runs mal_node.py, whatever a peer does to its chain makes *)
(* a block, takes one made on top of its own, or takes a longer chain.     *)
(***************************************************************************)
THEOREM PosReplicaSteps ==
  ASSUME Faulty = {}
  PROVE  Spec => ReplicaSteps
<1>1. NetInv /\ [Next]_vars => [Replica!Next]_(Replica!vars)
  BY ReplicaStep
<1> QED BY <1>1, NetInvariant, PTL DEF Spec, ReplicaSteps
=============================================================================
