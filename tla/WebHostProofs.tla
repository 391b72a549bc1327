--------------------------- MODULE WebHostProofs ---------------------------
(***************************************************************************)
(* Theorems about WebHost, for any kinds, ports, wallets and bounds.       *)
(***************************************************************************)
EXTENDS WebHost, LedgerProofs

-----------------------------------------------------------------------------
(***************************************************************************)
(* Chains and peers of transactions of K, in which an id names one         *)
(* transaction.  A genesis block brings the id 0 and no other block does.  *)
(***************************************************************************)
Chains(K) ==
  {c \in Seq(Block) :
     /\ Apart(c)
     /\ \A i \in DOMAIN c : DistinctIds(c[i].transactions)
     /\ \A i \in DOMAIN c \ {1} : c[i].transactions \in Seq(K)
     /\ c # << >> => \A k \in DOMAIN c[1].transactions : c[1].transactions[k].id = 0}

Marked(K, peer) == {t \in K : <<"tx", t.id>> \in peer.seen}

GoodPeer(K, chains, outs, peer) ==
  /\ peer \in Peer
  /\ "in" \in peer.links => peer.server \in {"open", "closing"}
  /\ peer.candidate # None => /\ peer.kind = "pow" /\ "mine" \in peer.tasks
                              /\ chains[peer.kind] # << >>
                              /\ peer.candidate.transactions \in Seq(K)
                              /\ DistinctIds(peer.candidate.transactions)
  /\ peer.kind # "pos" => peer.draws = 0
  /\ peer.asked => peer.links # {} /\ outs[peer.kind] # << >>
  /\ peer.mem_pool \in Seq(Marked(K, peer)) /\ DistinctIds(peer.mem_pool)
  /\ peer.mem_pool # << >> \/ peer.chain # "None" => chains[peer.kind] # << >>

TxInv(K, txs, chains, outs, known, ps) ==
  /\ K \subseteq Tx /\ UniqueIds(K) /\ \A t \in K : t.id \in 1..txs
  /\ chains \in [Kind -> Chains(K)] /\ outs \in [Kind -> Chains(K)]
  /\ known \in [Kind -> SUBSET K] /\ \A k \in Kind : IsFiniteSet(known[k])
  /\ ps \in Seq(Peer) /\ \A p \in DOMAIN ps : GoodPeer(K, chains, outs, ps[p])

Labels == Kind \cup {"", "pow"}

Counts == [txs : Nat, blocks : Nat, outside : Nat, stakes : Nat]

(***************************************************************************)
(* What the controllers hold: the running peer of each kind, whose server  *)
(* is the only one of that kind that may be open; it is closing while a    *)
(* request waits.                                                          *)
(***************************************************************************)
Controlled ==
  /\ consensus \in Labels
  /\ count \in Counts
  /\ peers \in Seq(Peer) /\ Len(peers) <= MaxStarts
  /\ running \in [Kind -> Nat]
  /\ \A k \in Kind : running[k] # 0 => running[k] \in DOMAIN peers /\ peers[running[k]].kind = k
  /\ request # None => /\ request \in [op : {"stop", "shutdown"}, kind : Kind]
                       /\ running[request.kind] # 0
                       /\ peers[running[request.kind]].server # "open"
  /\ ServersAnswered

HostInv ==
  /\ Controlled
  /\ \E K \in SUBSET Tx : TxInv(K, count.txs, instance, outside, heard, peers)

\* A chain that there is does not vanish.
Stay(chains, chains2) == \A k \in Kind : chains[k] # << >> => chains2[k] # << >>

-----------------------------------------------------------------------------
LEMMA ChainsGrow == ASSUME NEW K, NEW K2, K \subseteq K2 PROVE Chains(K) \subseteq Chains(K2)
<1>1. \A s \in Seq(K) : s \in Seq(K2)
  OBVIOUS
<1> QED BY <1>1 DEF Chains

LEMMA GoodPeerGrows ==
  ASSUME NEW K, NEW K2, K \subseteq K2, NEW chains, NEW chains2, Stay(chains, chains2),
         NEW outs, NEW outs2, Stay(outs, outs2), NEW peer, GoodPeer(K, chains, outs, peer)
  PROVE  GoodPeer(K2, chains2, outs2, peer)
<1>1. Marked(K, peer) \subseteq Marked(K2, peer)
  BY DEF Marked
<1>2. \A s \in Seq(Marked(K, peer)) : s \in Seq(Marked(K2, peer))
  BY <1>1
<1>3. \A s \in Seq(K) : s \in Seq(K2)
  OBVIOUS
<1>4. peer.kind \in Kind
  BY DEF GoodPeer, Peer
<1> HIDE DEF Marked
<1> QED BY <1>2, <1>3, <1>4 DEF GoodPeer, Stay

\* One more block, none of whose transactions is in the chain.
LEMMA ChainsAppend ==
  ASSUME NEW K, K \subseteq Tx, UniqueIds(K), \A t \in K : t.id # 0,
         NEW c \in Chains(K), c # << >>, NEW b \in Block,
         b.transactions \in Seq(K), DistinctIds(b.transactions),
         \A k \in DOMAIN b.transactions : ~ transaction_exists_in_chain(c, b.transactions[k])
  PROVE  Append(c, b) \in Chains(K) /\ Append(c, b) # << >>
<1> DEFINE d == Append(c, b)
           e == Len(c) + 1
<1>1. c \in Seq(Block) /\ Len(c) \in Nat /\ Len(c) # 0 /\ DOMAIN c = 1..Len(c)
  BY DEF Chains
<1>2. /\ d \in Seq(Block) /\ d # << >>
      /\ DOMAIN d = DOMAIN c \cup {e} /\ e \notin DOMAIN c /\ d[e] = b /\ e # 1
      /\ \A i \in DOMAIN c : d[i] = c[i]
      /\ 1 \in DOMAIN c
  BY <1>1, AppendFacts
<1>3. Fresh(c, b)
  <2>1. ASSUME NEW i \in DOMAIN c, NEW k \in DOMAIN c[i].transactions,
               NEW l \in DOMAIN b.transactions,
               c[i].transactions[k].id = b.transactions[l].id
        PROVE  FALSE
    <3>1. b.transactions[l] \in K /\ b.transactions[l].id # 0
      OBVIOUS
    <3>2. i # 1
      BY <2>1, <3>1 DEF Chains
    <3>3. c[i].transactions \in Seq(K)
      BY <3>2 DEF Chains
    <3>4. c[i].transactions[k] \in K
      BY <3>3
    <3>5. c[i].transactions[k] = b.transactions[l]
      BY <2>1, <3>1, <3>4 DEF UniqueIds
    <3>6. transaction_exists_in_chain(c, b.transactions[l])
      BY <3>5 DEF transaction_exists_in_chain, transaction_exists_in_block
    <3> QED BY <3>6
  <2> QED BY <2>1 DEF Fresh
<1>4. Apart(d)
  <2>1. Apart(c)
    BY DEF Chains
  <2> QED BY <1>1, <1>3, <2>1, ApartAppend
<1> HIDE DEF d, e
<1>5. \A i \in DOMAIN d : DistinctIds(d[i].transactions)
  BY <1>2 DEF Chains
<1>6. \A i \in DOMAIN d \ {1} : d[i].transactions \in Seq(K)
  BY <1>2 DEF Chains
<1>7. \A k \in DOMAIN d[1].transactions : d[1].transactions[k].id = 0
  <2>1. d[1] = c[1]
    BY <1>2
  <2> QED BY <1>1, <2>1 DEF Chains
<1>8. d \in Chains(K)
  BY <1>2, <1>4, <1>5, <1>6, <1>7 DEF Chains
<1> QED BY <1>2, <1>8 DEF d

LEMMA GenesisChain ==
  ASSUME NEW K, NEW pk \in Account
  PROVE  <<genesis_block(pk)>> \in Chains(K) /\ <<genesis_block(pk)>> # << >>
<1> DEFINE tx == [id |-> 0, sender |-> Genesis, receiver |-> pk, amount |-> GenesisGrant]
           b == genesis_block(pk)
<1>1. tx \in Tx /\ tx.id = 0
  BY DEF Tx, GenesisGrant
<1>2. pk \in Nat
  BY WebAssumption DEF WebAssumption
<1>3. b = [hash |-> pk, prevHash |-> None, miner |-> pk, transactions |-> <<tx>>]
  BY DEF genesis_block
<1> HIDE DEF tx, b
<1>4. b \in Block /\ b.transactions = <<tx>>
  BY <1>1, <1>2, <1>3 DEF Block
<1>5. <<b>> \in Seq(Block) /\ DOMAIN <<b>> = {1} /\ <<b>>[1] = b /\ DOMAIN <<tx>> = {1}
  BY <1>4
<1>6. DistinctIds(<<tx>>)
  BY <1>5 DEF DistinctIds
<1>7. Apart(<<b>>)
  BY <1>5 DEF Apart
<1>8. \A k \in DOMAIN b.transactions : b.transactions[k].id = 0
  BY <1>1, <1>4, <1>5
<1>9. <<b>> \in Chains(K)
  BY <1>4, <1>5, <1>6, <1>7, <1>8 DEF Chains
<1> QED BY <1>5, <1>9 DEF b

\* The last block of a chain that there is.
LEMMA LastBlock ==
  ASSUME NEW K, NEW c \in Chains(K), c # << >>
  PROVE  lastBlock(c) \in Block /\ lastBlock(c).hash \in Nat /\ 1 \in DOMAIN c
<1>1. c \in Seq(Block) /\ Len(c) \in Nat /\ Len(c) # 0 /\ DOMAIN c = 1..Len(c)
  BY DEF Chains
<1>2. lastBlock(c) \in Block
  BY <1>1 DEF lastBlock
<1> QED BY <1>1, <1>2 DEF Block

LEMMA NewBlockType ==
  ASSUME Controlled, NEW K, K \subseteq Tx, NEW c \in Chains(K), c # << >>, NEW pk \in Account,
         NEW txs \in Seq(K)
  PROVE  NewBlock(c, pk, txs) \in Block /\ NewBlock(c, pk, txs).transactions = txs
<1>1. count.blocks \in Nat /\ MaxStarts \in Nat
  BY WebAssumption DEF Controlled, Counts, WebAssumption
<1>2. txs \in Seq(Tx)
  OBVIOUS
<1> QED BY <1>1, <1>2, LastBlock DEF NewBlock, Block

\* A set of transactions, in some order.
LEMMA EnumerationDistinct ==
  ASSUME NEW K, UniqueIds(K), NEW S \in SUBSET K, IsFiniteSet(S)
  PROVE  /\ SetToSeq(S) \in Seq(K) /\ DistinctIds(SetToSeq(S))
         /\ \A i \in DOMAIN SetToSeq(S) : SetToSeq(S)[i] \in S
<1>1. Cardinality(S) \in Nat /\ ExistsBijection(1..Cardinality(S), S)
  BY FS_CardinalityType
<1>2. \E f \in [1..Cardinality(S) -> S] : IsInjective(f)
  BY <1>1 DEF ExistsBijection, Bijection, Injection
<1> DEFINE s == SetToSeq(S)
<1>3. s \in [1..Cardinality(S) -> S] /\ IsInjective(s)
  BY <1>2 DEF SetToSeq
<1> HIDE DEF s
<1>4. s \in Seq(S)
  BY <1>1, <1>3
<1>5. s \in Seq(K) /\ DOMAIN s = 1..Cardinality(S) /\ \A i \in DOMAIN s : s[i] \in S
  BY <1>3, <1>4
<1>6. DistinctIds(s)
  BY <1>3, <1>5 DEF DistinctIds, IsInjective, UniqueIds
<1> QED BY <1>5, <1>6 DEF s

\* Whatever sweeps or purges a pool.
LEMMA PoolSwept ==
  ASSUME NEW S, NEW pool \in Seq(S), DistinctIds(pool), NEW gone
  PROVE  /\ Sweep(pool, gone).kept \in Seq(S) /\ DistinctIds(Sweep(pool, gone).kept)
         /\ Sweep(pool, gone).taken \in Seq(S) /\ DistinctIds(Sweep(pool, gone).taken)
         /\ Without(pool, gone) \in Seq(S) /\ DistinctIds(Without(pool, gone))
         /\ pool = << >> => Sweep(pool, gone).kept = << >> /\ Without(pool, gone) = << >>
<1>1. /\ Sweep(pool, gone).kept \in Seq(S) /\ DistinctIds(Sweep(pool, gone).kept)
      /\ Sweep(pool, gone).taken \in Seq(S) /\ DistinctIds(Sweep(pool, gone).taken)
      /\ Without(pool, gone) \in Seq(S) /\ DistinctIds(Without(pool, gone))
  BY SweepType, SweepDistinct, WithoutType
<1>2. ASSUME pool = << >>
      PROVE  Sweep(pool, gone).kept = << >> /\ Without(pool, gone) = << >>
  <2>1. PICK scan : Sweeps(scan, S, pool, gone)
    BY SweepLoop
  <2>2. PICK rest : Purges(rest, S, pool, gone)
    BY WithoutLoop
  <2>3. Len(pool) = 0
    BY <1>2
  <2> QED BY <2>1, <2>2, <2>3 DEF Sweeps, Purges, Swept
<1> QED BY <1>1, <1>2

-----------------------------------------------------------------------------
(***************************************************************************)
(* One peer takes a turn.                                                  *)
(***************************************************************************)
LEMMA OneChanged ==
  ASSUME NEW S, NEW q \in Seq(S), NEW p \in DOMAIN q, NEW x \in S
  PROVE  /\ [q EXCEPT ![p] = x] \in Seq(S)
         /\ DOMAIN [q EXCEPT ![p] = x] = DOMAIN q
         /\ Len([q EXCEPT ![p] = x]) = Len(q)
         /\ [q EXCEPT ![p] = x][p] = x
         /\ \A r \in DOMAIN q \ {p} : [q EXCEPT ![p] = x][r] = q[r]
OBVIOUS

LEMMA ControlsTurn ==
  ASSUME Controlled, UNCHANGED web_vars, count' \in Counts,
         NEW p \in DOMAIN peers, NEW peer \in Peer,
         peer.kind = peers[p].kind, peer.server = peers[p].server,
         peers' = [peers EXCEPT ![p] = peer]
  PROVE  Controlled'
<1>1. peers \in Seq(Peer)
  BY DEF Controlled
<1>2. /\ peers' \in Seq(Peer) /\ DOMAIN peers' = DOMAIN peers /\ Len(peers') = Len(peers)
      /\ \A q \in DOMAIN peers : /\ peers'[q].kind = peers[q].kind
                                 /\ peers'[q].server = peers[q].server
  BY <1>1, OneChanged
<1>3. consensus' = consensus /\ running' = running /\ request' = request
  BY DEF web_vars
<1>4. ServersAnswered'
  BY <1>2, <1>3 DEF Controlled, ServersAnswered
<1>5. \A k \in Kind : running'[k] # 0 => /\ running'[k] \in DOMAIN peers'
                                         /\ peers'[running'[k]].kind = k
  BY <1>2, <1>3 DEF Controlled
<1>6. request' # None => /\ request' \in [op : {"stop", "shutdown"}, kind : Kind]
                         /\ running'[request'.kind] # 0
                         /\ peers'[running'[request'.kind]].server # "open"
  <2>1. SUFFICES ASSUME request # None
                 PROVE  /\ request \in [op : {"stop", "shutdown"}, kind : Kind]
                        /\ running[request.kind] # 0
                        /\ peers'[running[request.kind]].server # "open"
    BY <1>3
  <2>2. /\ request \in [op : {"stop", "shutdown"}, kind : Kind]
        /\ running[request.kind] # 0
        /\ peers[running[request.kind]].server # "open"
    BY <2>1 DEF Controlled
  <2>3. running[request.kind] \in DOMAIN peers
    BY <2>2 DEF Controlled
  <2> QED BY <1>2, <2>2, <2>3
<1> QED BY <1>2, <1>3, <1>4, <1>5, <1>6 DEF Controlled

LEMMA ControlsRest ==
  ASSUME Controlled, UNCHANGED <<web_vars, peers>>, count' \in Counts
  PROVE  Controlled'
BY DEF Controlled, web_vars, ServersAnswered

LEMMA TxTurn ==
  ASSUME NEW K, NEW n, NEW chains, NEW outs, NEW known, NEW ps,
         TxInv(K, n, chains, outs, known, ps),
         NEW chains2 \in [Kind -> Chains(K)], Stay(chains, chains2),
         NEW outs2 \in [Kind -> Chains(K)], Stay(outs, outs2),
         NEW p \in DOMAIN ps, NEW peer, GoodPeer(K, chains2, outs2, peer)
  PROVE  TxInv(K, n, chains2, outs2, known, [ps EXCEPT ![p] = peer])
<1> DEFINE ps2 == [ps EXCEPT ![p] = peer]
<1>1. ps \in Seq(Peer) /\ peer \in Peer
  BY DEF TxInv, GoodPeer
<1>2. /\ ps2 \in Seq(Peer) /\ DOMAIN ps2 = DOMAIN ps /\ ps2[p] = peer
      /\ \A q \in DOMAIN ps \ {p} : ps2[q] = ps[q]
  BY <1>1, OneChanged
<1> HIDE DEF ps2
<1>3. ASSUME NEW q \in DOMAIN ps2 PROVE GoodPeer(K, chains2, outs2, ps2[q])
  <2>1. CASE q = p
    BY <1>2, <2>1
  <2>2. CASE q # p
    <3>1. q \in DOMAIN ps \ {p} /\ ps2[q] = ps[q]
      BY <1>2, <2>2
    <3>2. GoodPeer(K, chains, outs, ps[q])
      BY <3>1 DEF TxInv
    <3>3. GoodPeer(K, chains2, outs2, ps[q])
      BY <3>2, GoodPeerGrows
    <3> QED BY <3>1, <3>3
  <2> QED BY <2>1, <2>2
<1>4. TxInv(K, n, chains2, outs2, known, ps2)
  BY <1>2, <1>3 DEF TxInv
<1> QED BY <1>4 DEF ps2

LEMMA PeerTurn ==
  ASSUME Controlled, NEW K \in SUBSET Tx,
         TxInv(K, count.txs, instance, outside, heard, peers),
         UNCHANGED <<web_vars, heard>>, count' \in Counts, count'.txs = count.txs,
         NEW p \in DOMAIN peers, NEW peer,
         peer.kind = peers[p].kind, peer.server = peers[p].server,
         peers' = [peers EXCEPT ![p] = peer],
         instance' \in [Kind -> Chains(K)], Stay(instance, instance'),
         outside' \in [Kind -> Chains(K)], Stay(outside, outside'),
         GoodPeer(K, instance', outside', peer)
  PROVE  HostInv'
<1>1. peer \in Peer
  BY DEF GoodPeer
<1>2. Controlled'
  BY <1>1, ControlsTurn
<1>3. TxInv(K, count.txs, instance', outside', heard, peers')
  BY TxTurn
<1>4. TxInv(K, count'.txs, instance', outside', heard', peers')
  BY <1>3
<1> QED BY <1>2, <1>4 DEF HostInv

\* A turn that leaves the chains alone.
LEMMA PeerAlone ==
  ASSUME Controlled, NEW K \in SUBSET Tx,
         TxInv(K, count.txs, instance, outside, heard, peers),
         UNCHANGED <<web_vars, instance, net_vars>>, count' \in Counts, count'.txs = count.txs,
         NEW p \in DOMAIN peers, NEW peer,
         peer.kind = peers[p].kind, peer.server = peers[p].server,
         peers' = [peers EXCEPT ![p] = peer],
         GoodPeer(K, instance, outside, peer)
  PROVE  HostInv'
<1>1. UNCHANGED <<web_vars, heard>> /\ instance' = instance /\ outside' = outside
  BY DEF net_vars
<1>2. instance' \in [Kind -> Chains(K)] /\ outside' \in [Kind -> Chains(K)]
  BY <1>1 DEF TxInv
<1>3. Stay(instance, instance') /\ Stay(outside, outside')
  BY <1>1 DEF Stay
<1>4. GoodPeer(K, instance', outside', peer)
  BY <1>1
<1> QED BY <1>1, <1>2, <1>3, <1>4, PeerTurn

LEMMA HostNow ==
  ASSUME HostInv
  PROVE  /\ Controlled /\ count \in Counts /\ MaxStarts \in Nat
         /\ \E K \in SUBSET Tx : /\ TxInv(K, count.txs, instance, outside, heard, peers)
                                 /\ UniqueIds(K) /\ \A t \in K : t.id \in Nat /\ t.id # 0
                                 /\ \A p \in DOMAIN peers :
                                      GoodPeer(K, instance, outside, peers[p])
<1>1. MaxStarts \in Nat
  BY WebAssumption DEF WebAssumption
<1>2. Controlled /\ count \in Counts /\ count.txs \in Nat
  BY DEF HostInv, Controlled, Counts
<1>3. PICK K \in SUBSET Tx : TxInv(K, count.txs, instance, outside, heard, peers)
  BY DEF HostInv
<1>4. \A t \in K : t.id \in Nat /\ t.id # 0
  BY <1>2, <1>3 DEF TxInv
<1>5. UniqueIds(K) /\ \A p \in DOMAIN peers : GoodPeer(K, instance, outside, peers[p])
  BY <1>3 DEF TxInv
<1> QED BY <1>1, <1>2, <1>3, <1>4, <1>5

-----------------------------------------------------------------------------
(***************************************************************************)
(* Connections.                                                            *)
(***************************************************************************)
LEMMA TurnDiscover ==
  ASSUME HostInv, NEW p \in DOMAIN peers, discover_peers(p) PROVE HostInv'
<1>1. PICK K \in SUBSET Tx : /\ TxInv(K, count.txs, instance, outside, heard, peers)
                             /\ GoodPeer(K, instance, outside, peers[p])
  BY HostNow
<1> DEFINE peer == [peers[p] EXCEPT !.dialing = TRUE]
<1>2. GoodPeer(K, instance, outside, peer)
  BY <1>1 DEF GoodPeer, Peer, Marked
<1>3. peer.kind = peers[p].kind /\ peer.server = peers[p].server
  BY <1>1 DEF GoodPeer, Peer
<1>4. peers' = [peers EXCEPT ![p] = peer]
  BY DEF discover_peers
<1>5. UNCHANGED <<web_vars, instance, net_vars>> /\ count' = count
  BY DEF discover_peers
<1> HIDE DEF peer
<1> QED BY <1>1, <1>2, <1>3, <1>4, <1>5, HostNow, PeerAlone

LEMMA TurnConnect ==
  ASSUME HostInv, NEW p \in DOMAIN peers, connect_to_peer(p) PROVE HostInv'
<1>1. PICK K \in SUBSET Tx : /\ TxInv(K, count.txs, instance, outside, heard, peers)
                             /\ GoodPeer(K, instance, outside, peers[p])
  BY HostNow
<1> DEFINE peer == [peers[p] EXCEPT !.dialing = FALSE, !.links = @ \cup {"out"},
                                    !.knows = @ \/ IsNew(p)]
<1>2. peer \in Peer
  BY <1>1 DEF GoodPeer, Peer, IsNew
<1>3. GoodPeer(K, instance, outside, peer)
  BY <1>1, <1>2 DEF GoodPeer, Peer, Marked
<1>4. peer.kind = peers[p].kind /\ peer.server = peers[p].server
  BY <1>1 DEF GoodPeer, Peer
<1>5. peers' = [peers EXCEPT ![p] = peer]
  BY DEF connect_to_peer
<1>6. UNCHANGED <<web_vars, instance, net_vars>> /\ count' = count
  BY DEF connect_to_peer
<1> HIDE DEF peer
<1> QED BY <1>1, <1>3, <1>4, <1>5, <1>6, HostNow, PeerAlone

LEMMA TurnAccept ==
  ASSUME HostInv, NEW p \in DOMAIN peers, handle_connections(p) PROVE HostInv'
<1>1. PICK K \in SUBSET Tx : /\ TxInv(K, count.txs, instance, outside, heard, peers)
                             /\ GoodPeer(K, instance, outside, peers[p])
  BY HostNow
<1> DEFINE peer == [peers[p] EXCEPT !.links = @ \cup {"in"}, !.knows = TRUE]
<1>2. peer \in Peer
  BY <1>1 DEF GoodPeer, Peer
<1>3. peer.server = "open"
  BY <1>1 DEF handle_connections, GoodPeer, Peer
<1>4. GoodPeer(K, instance, outside, peer)
  BY <1>1, <1>2, <1>3 DEF GoodPeer, Peer, Marked
<1>5. peer.kind = peers[p].kind /\ peer.server = peers[p].server
  BY <1>1 DEF GoodPeer, Peer
<1>6. peers' = [peers EXCEPT ![p] = peer]
  BY DEF handle_connections
<1>7. UNCHANGED <<web_vars, instance, net_vars>> /\ count' = count
  BY DEF handle_connections
<1> HIDE DEF peer
<1> QED BY <1>1, <1>4, <1>5, <1>6, <1>7, HostNow, PeerAlone

LEMMA TurnFind ==
  ASSUME HostInv, NEW p \in DOMAIN peers, find_longest_chain(p) PROVE HostInv'
<1>1. PICK K \in SUBSET Tx : /\ TxInv(K, count.txs, instance, outside, heard, peers)
                             /\ GoodPeer(K, instance, outside, peers[p])
  BY HostNow
<1> DEFINE peer == [peers[p] EXCEPT !.asked = TRUE]
           k == peers[p].kind
<1>2. peer \in Peer /\ k \in Kind
  BY <1>1 DEF GoodPeer, Peer
<1>3. outside[k] # << >>
  <2>1. Len(outside[k]) > Len(instance[k])
    BY DEF find_longest_chain
  <2>2. outside[k] \in Seq(Block) /\ instance[k] \in Seq(Block)
    BY <1>1, <1>2 DEF TxInv, Chains
  <2> QED BY <2>1, <2>2
<1>4. peer.links # {}
  BY <1>1 DEF find_longest_chain, Linked, GoodPeer, Peer
<1>5. GoodPeer(K, instance, outside, peer)
  BY <1>1, <1>2, <1>3, <1>4 DEF GoodPeer, Peer, Marked
<1>6. peer.kind = peers[p].kind /\ peer.server = peers[p].server
  BY <1>1 DEF GoodPeer, Peer
<1>7. peers' = [peers EXCEPT ![p] = peer]
  BY DEF find_longest_chain
<1>8. UNCHANGED <<web_vars, instance, net_vars>> /\ count' = count
  BY DEF find_longest_chain
<1> HIDE DEF peer, k
<1> QED BY <1>1, <1>5, <1>6, <1>7, <1>8, HostNow, PeerAlone

-----------------------------------------------------------------------------
(***************************************************************************)
(* Transactions.                                                           *)
(***************************************************************************)
LEMMA HandlerFailsGood ==
  ASSUME NEW K, NEW chains, NEW outs, NEW peer, GoodPeer(K, chains, outs, peer), NEW link
  PROVE  /\ GoodPeer(K, chains, outs, HandlerFails(peer, link))
         /\ HandlerFails(peer, link).kind = peer.kind
         /\ HandlerFails(peer, link).server = peer.server
<1> DEFINE after == HandlerFails(peer, link)
<1>1. peer \in Peer
  BY DEF GoodPeer
<1>2. after = [peer EXCEPT !.links = peer.links \ {link},
                           !.asked = peer.asked /\ peer.links \ {link} # {}]
  BY DEF HandlerFails
<1> HIDE DEF after
<1>3. /\ after \in Peer /\ after.kind = peer.kind /\ after.server = peer.server
      /\ after.links = peer.links \ {link} /\ after.tasks = peer.tasks
      /\ after.asked = (peer.asked /\ peer.links \ {link} # {})
      /\ after.chain = peer.chain /\ after.mem_pool = peer.mem_pool /\ after.seen = peer.seen
      /\ after.candidate = peer.candidate /\ after.draws = peer.draws
  BY <1>1, <1>2 DEF Peer
<1>4. Marked(K, after) = Marked(K, peer)
  BY <1>3 DEF Marked
<1> HIDE DEF Marked
<1>5. GoodPeer(K, chains, outs, after)
  BY <1>3, <1>4 DEF GoodPeer
<1> QED BY <1>3, <1>5 DEF after

\* A pool that gets a transaction of another id than those the peer has seen.
LEMMA PoolAdds ==
  ASSUME NEW K, NEW K2, K \subseteq K2, NEW peer \in Peer,
         peer.mem_pool \in Seq(Marked(K, peer)), DistinctIds(peer.mem_pool),
         NEW tx \in K2, \A t \in Marked(K, peer) : t.id # tx.id,
         NEW after, after.seen = peer.seen \cup {<<"tx", tx.id>>},
         after.mem_pool = Append(peer.mem_pool, tx)
  PROVE  after.mem_pool \in Seq(Marked(K2, after)) /\ DistinctIds(after.mem_pool)
<1> DEFINE pool == peer.mem_pool
           M == Marked(K, peer)
           N == Marked(K2, after)
<1>1. M \subseteq N /\ tx \in N
  BY DEF Marked
<1>2. \A t \in M : t.id # tx.id
  OBVIOUS
<1> HIDE DEF M, N
<1>3. pool \in Seq(M) /\ pool \in Seq(N)
  BY <1>1 DEF M
<1>4. Append(pool, tx) \in Seq(N)
  BY <1>1, <1>3
<1> HIDE DEF pool
<1>5. /\ DOMAIN Append(pool, tx) = DOMAIN pool \cup {Len(pool) + 1}
      /\ Append(pool, tx)[Len(pool) + 1] = tx
      /\ \A i \in DOMAIN pool : Append(pool, tx)[i] = pool[i] /\ pool[i] \in M
  BY <1>3, AppendFacts
<1>6. DistinctIds(pool)
  BY DEF pool
<1>7. DistinctIds(Append(pool, tx))
  BY <1>2, <1>5, <1>6 DEF DistinctIds
<1> QED BY <1>4, <1>7 DEF pool, N

\* Marking more does no harm.
LEMMA MarkedMore ==
  ASSUME NEW K, NEW peer, NEW after, peer.seen \subseteq after.seen,
         NEW s \in Seq(Marked(K, peer))
  PROVE  s \in Seq(Marked(K, after))
<1>1. Marked(K, peer) \subseteq Marked(K, after)
  BY DEF Marked
<1> HIDE DEF Marked
<1> QED BY <1>1

LEMMA SeenMarked ==
  ASSUME NEW peer \in Peer, NEW what \in {"tx", "block"}, NEW id \in Nat
  PROVE  peer.seen \cup {<<what, id>>} \in SUBSET ({"tx", "block"} \X Nat)
BY DEF Peer

LEMMA TurnNewTx ==
  ASSUME HostInv, NEW p \in DOMAIN peers, NEW link, NEW tx, HandleNewTx(p, link, tx)
  PROVE  HostInv'
<1> DEFINE k == peers[p].kind
           peer == [peers[p] EXCEPT !.seen = peers[p].seen \cup {<<"tx", tx.id>>}]
           full == [peer EXCEPT !.mem_pool = Append(peers[p].mem_pool, tx)]
<1>1. PICK K \in SUBSET Tx : /\ TxInv(K, count.txs, instance, outside, heard, peers)
                             /\ UniqueIds(K) /\ \A t \in K : t.id \in Nat
                             /\ GoodPeer(K, instance, outside, peers[p])
  BY HostNow
<1>2. peers[p] \in Peer /\ k \in Kind
  BY <1>1 DEF GoodPeer, Peer
<1>3. tx \in K /\ tx.id \in Nat
  BY <1>1, <1>2 DEF HandleNewTx, TxInv
<1>4. /\ peer \in Peer /\ peer.kind = k /\ peer.server = peers[p].server
      /\ peer.links = peers[p].links /\ peer.tasks = peers[p].tasks
      /\ peer.asked = peers[p].asked /\ peer.chain = peers[p].chain
      /\ peer.mem_pool = peers[p].mem_pool /\ peer.candidate = peers[p].candidate
      /\ peer.seen = peers[p].seen \cup {<<"tx", tx.id>>} /\ peer.draws = peers[p].draws
  <2>1. peers[p].seen \cup {<<"tx", tx.id>>} \in SUBSET ({"tx", "block"} \X Nat)
    BY <1>2, <1>3, SeenMarked
  <2> HIDE DEF k
  <2> QED BY <1>2, <2>1 DEF Peer, k
<1>5. GoodPeer(K, instance, outside, peer)
  <2>1. peer.mem_pool \in Seq(Marked(K, peer))
    <3>1. peers[p].mem_pool \in Seq(Marked(K, peers[p])) /\ peers[p].seen \subseteq peer.seen
      BY <1>1, <1>4 DEF GoodPeer
    <3> HIDE DEF peer, Marked
    <3>2. peers[p].mem_pool \in Seq(Marked(K, peer))
      BY <3>1, MarkedMore
    <3> QED BY <1>4, <3>2
  <2> HIDE DEF peer, Marked
  <2> QED BY <1>1, <1>4, <2>1 DEF GoodPeer
<1>6. /\ full \in Peer /\ full.kind = k /\ full.server = peers[p].server
      /\ full.links = peers[p].links /\ full.tasks = peers[p].tasks
      /\ full.asked = peers[p].asked /\ full.chain = peers[p].chain
      /\ full.mem_pool = Append(peers[p].mem_pool, tx) /\ full.candidate = peers[p].candidate
      /\ full.seen = peers[p].seen \cup {<<"tx", tx.id>>} /\ full.draws = peers[p].draws
  <2>1. Append(peers[p].mem_pool, tx) \in Seq(Tx)
    BY <1>2, <1>3 DEF Peer
  <2> HIDE DEF peer
  <2> QED BY <1>4, <2>1 DEF Peer
<1>7. /\ <<"tx", tx.id>> \notin peers[p].seen
      /\ \/ peers' = [peers EXCEPT ![p] = HandlerFails(peer, link)]
         \/ peers' = [peers EXCEPT ![p] = peer]
         \/ instance[k] # << >> /\ peers' = [peers EXCEPT ![p] = full]
  BY DEF HandleNewTx
<1>8. UNCHANGED <<web_vars, instance, net_vars>> /\ count' = count
  BY DEF HandleNewTx
<1>9. ASSUME instance[k] # << >> PROVE GoodPeer(K, instance, outside, full)
  <2>1. full.mem_pool \in Seq(Marked(K, full)) /\ DistinctIds(full.mem_pool)
    <3>1. peers[p].mem_pool \in Seq(Marked(K, peers[p])) /\ DistinctIds(peers[p].mem_pool)
      BY <1>1 DEF GoodPeer
    <3> HIDE DEF full, peer, k
    <3>2. \A t \in Marked(K, peers[p]) : t.id # tx.id
      BY <1>7 DEF Marked
    <3> HIDE DEF Marked
    <3> QED BY <1>1, <1>2, <1>3, <1>6, <3>1, <3>2, PoolAdds
  <2> HIDE DEF full, peer, Marked
  <2> QED BY <1>1, <1>6, <1>9, <2>1 DEF GoodPeer
<1>10. /\ GoodPeer(K, instance, outside, HandlerFails(peer, link))
       /\ HandlerFails(peer, link).kind = k
       /\ HandlerFails(peer, link).server = peers[p].server
  <2> HIDE DEF peer
  <2> QED BY <1>4, <1>5, HandlerFailsGood
<1> HIDE DEF full, peer
<1>11. CASE peers' = [peers EXCEPT ![p] = HandlerFails(peer, link)]
  BY <1>1, <1>8, <1>10, <1>11, HostNow, PeerAlone
<1>12. CASE peers' = [peers EXCEPT ![p] = peer]
  BY <1>1, <1>4, <1>5, <1>8, <1>12, HostNow, PeerAlone
<1>13. CASE instance[k] # << >> /\ peers' = [peers EXCEPT ![p] = full]
  BY <1>1, <1>6, <1>8, <1>9, <1>13, HostNow, PeerAlone
<1> QED BY <1>7, <1>11, <1>12, <1>13

\* One more transaction, whose id is the next one.
LEMMA TxAdds ==
  ASSUME NEW K \in SUBSET Tx, NEW n \in Nat, NEW chains, NEW outs, NEW known, NEW ps,
         TxInv(K, n, chains, outs, known, ps), NEW tx \in Tx, tx.id = n + 1,
         NEW known2 \in [Kind -> SUBSET (K \cup {tx})], \A k \in Kind : IsFiniteSet(known2[k])
  PROVE  TxInv(K \cup {tx}, n + 1, chains, outs, known2, ps)
<1> DEFINE K2 == K \cup {tx}
<1>1. K2 \subseteq Tx /\ K \subseteq K2
  OBVIOUS
<1>2. \A t \in K2 : t.id \in 1..(n + 1)
  BY DEF TxInv
<1>3. UniqueIds(K2)
  <2>1. UniqueIds(K) /\ \A t \in K : t.id # n + 1
    BY DEF TxInv
  <2> QED BY <2>1 DEF UniqueIds
<1>4. chains \in [Kind -> Chains(K2)] /\ outs \in [Kind -> Chains(K2)]
  BY <1>1, ChainsGrow DEF TxInv
<1>5. Stay(chains, chains) /\ Stay(outs, outs)
  BY DEF Stay
<1>6. \A p \in DOMAIN ps : GoodPeer(K2, chains, outs, ps[p])
  <2>1. \A p \in DOMAIN ps : GoodPeer(K, chains, outs, ps[p])
    BY DEF TxInv
  <2> QED BY <1>1, <1>5, <2>1, GoodPeerGrows
<1>7. known2 \in [Kind -> SUBSET K2] /\ ps \in Seq(Peer)
  BY DEF TxInv
<1> HIDE DEF K2
<1>8. TxInv(K2, n + 1, chains, outs, known2, ps)
  BY <1>1, <1>2, <1>3, <1>4, <1>6, <1>7 DEF TxInv
<1> QED BY <1>8 DEF K2

LEMMA NewTxType ==
  ASSUME HostInv, NEW sender \in 0..MaxStarts
  PROVE  NewTx(sender) \in Tx /\ NewTx(sender).id = count.txs + 1 /\ count.txs \in Nat
<1>1. count.txs \in Nat /\ MaxStarts \in Nat
  BY HostNow DEF Counts
<1>2. sender \in Account /\ MaxStarts + 1 \in Account
  BY <1>1, WebAssumption DEF WebAssumption
<1> QED BY <1>1, <1>2 DEF NewTx, Tx

LEMMA KnownAdds ==
  ASSUME NEW K, NEW known \in [Kind -> SUBSET K], \A k \in Kind : IsFiniteSet(known[k]), NEW tx,
         NEW k \in Kind
  PROVE  /\ known \in [Kind -> SUBSET (K \cup {tx})]
         /\ [known EXCEPT ![k] = known[k] \cup {tx}] \in [Kind -> SUBSET (K \cup {tx})]
         /\ \A j \in Kind : IsFiniteSet([known EXCEPT ![k] = known[k] \cup {tx}][j])
<1>1. IsFiniteSet(known[k] \cup {tx})
  BY FS_AddElement
<1> QED BY <1>1

LEMMA TurnSends ==
  ASSUME HostInv, NEW k \in Kind, OutsideSends(k) PROVE HostInv'
<1> DEFINE tx == NewTx(0)
<1>1. PICK K \in SUBSET Tx : TxInv(K, count.txs, instance, outside, heard, peers)
  BY HostNow
<1>2. 0 \in 0..MaxStarts /\ count \in Counts /\ Controlled
  BY HostNow
<1>3. tx \in Tx /\ tx.id = count.txs + 1 /\ count.txs \in Nat
  BY <1>2, NewTxType
<1>4. /\ heard' = [heard EXCEPT ![k] = heard[k] \cup {tx}]
      /\ count' = [count EXCEPT !.txs = count.txs + 1]
      /\ UNCHANGED <<web_vars, peers, instance, outside>>
  BY DEF OutsideSends
<1> HIDE DEF tx
<1>5. count' \in Counts /\ count'.txs = count.txs + 1
  BY <1>2, <1>4 DEF Counts
<1>6. heard \in [Kind -> SUBSET K] /\ \A j \in Kind : IsFiniteSet(heard[j])
  BY <1>1 DEF TxInv
<1>7. /\ heard' \in [Kind -> SUBSET (K \cup {tx})]
      /\ \A j \in Kind : IsFiniteSet(heard'[j])
  BY <1>4, <1>6, KnownAdds
<1>8. TxInv(K \cup {tx}, count.txs + 1, instance, outside, heard', peers)
  BY <1>1, <1>3, <1>7, TxAdds
<1>9. TxInv(K \cup {tx}, count'.txs, instance', outside', heard', peers')
  BY <1>4, <1>5, <1>8
<1>10. Controlled'
  BY <1>2, <1>4, <1>5, ControlsRest
<1>11. K \cup {tx} \in SUBSET Tx
  BY <1>3
<1> QED BY <1>9, <1>10, <1>11 DEF HostInv

\* The running peer of a kind.
LEMMA RunningPeer ==
  ASSUME HostInv, NEW k \in Kind, running[k] # 0
  PROVE  /\ running[k] \in DOMAIN peers /\ peers[running[k]].kind = k
         /\ running[k] \in 1..MaxStarts
<1>1. Controlled /\ MaxStarts \in Nat
  BY HostNow
<1>2. /\ running[k] \in DOMAIN peers /\ peers[running[k]].kind = k
      /\ peers \in Seq(Peer) /\ Len(peers) <= MaxStarts
  BY <1>1 DEF Controlled
<1>3. DOMAIN peers = 1..Len(peers) /\ Len(peers) \in Nat
  BY <1>2
<1> QED BY <1>1, <1>2, <1>3

LEMMA TurnAdds ==
  ASSUME HostInv, NEW k \in Kind, add_transaction(k) PROVE HostInv'
<1> DEFINE p == running[k]
           tx == NewTx(p)
           peer == [peers[p] EXCEPT !.mem_pool = Append(peers[p].mem_pool, tx),
                                    !.seen = peers[p].seen \cup {<<"tx", tx.id>>}]
<1>1. p # 0 /\ peers[p].chain = "Chain"
  BY DEF add_transaction
<1>2. p \in DOMAIN peers /\ peers[p].kind = k /\ p \in 1..MaxStarts
  BY <1>1, RunningPeer
<1>3. PICK K \in SUBSET Tx : /\ TxInv(K, count.txs, instance, outside, heard, peers)
                             /\ GoodPeer(K, instance, outside, peers[p])
  BY <1>2, HostNow
<1>4. count \in Counts /\ Controlled /\ MaxStarts \in Nat
  BY HostNow
<1>5. tx \in Tx /\ tx.id = count.txs + 1 /\ count.txs \in Nat
  BY <1>2, <1>4, NewTxType
<1>6. /\ peers' = [peers EXCEPT ![p] = peer]
      /\ heard' = heard \/ heard' = [heard EXCEPT ![k] = heard[k] \cup {tx}]
      /\ count' = [count EXCEPT !.txs = count.txs + 1]
      /\ UNCHANGED <<web_vars, instance, outside>>
  BY <1>2 DEF add_transaction, TxSpreads
<1> DEFINE K2 == K \cup {tx}
<1>7. heard \in [Kind -> SUBSET K] /\ \A j \in Kind : IsFiniteSet(heard[j])
  BY <1>3 DEF TxInv
<1>8. peers[p] \in Peer
  BY <1>3 DEF GoodPeer
<1>9. /\ peer \in Peer /\ peer.kind = k /\ peer.server = peers[p].server
      /\ peer.links = peers[p].links /\ peer.tasks = peers[p].tasks
      /\ peer.asked = peers[p].asked /\ peer.chain = peers[p].chain
      /\ peer.mem_pool = Append(peers[p].mem_pool, tx) /\ peer.candidate = peers[p].candidate
      /\ peer.seen = peers[p].seen \cup {<<"tx", tx.id>>} /\ peer.draws = peers[p].draws
  <2>1. peers[p].seen \cup {<<"tx", tx.id>>} \in SUBSET ({"tx", "block"} \X Nat)
    BY <1>5, <1>8, SeenMarked
  <2> HIDE DEF tx
  <2>2. Append(peers[p].mem_pool, tx) \in Seq(Tx)
    BY <1>5, <1>8 DEF Peer
  <2> HIDE DEF p
  <2> QED BY <1>2, <1>8, <2>1, <2>2 DEF Peer
<1> HIDE DEF tx, peer, p
<1>10. count' \in Counts /\ count'.txs = count.txs + 1
  BY <1>4, <1>6 DEF Counts
<1>11. heard' \in [Kind -> SUBSET K2] /\ \A j \in Kind : IsFiniteSet(heard'[j])
  <2>1. CASE heard' = heard
    <3>1. heard \in [Kind -> SUBSET K2]
      BY <1>7, KnownAdds DEF K2
    <3> QED BY <1>7, <2>1, <3>1
  <2>2. CASE heard' = [heard EXCEPT ![k] = heard[k] \cup {tx}]
    BY <1>7, <2>2, KnownAdds DEF K2
  <2> QED BY <1>6, <2>1, <2>2
<1>12. TxInv(K2, count.txs + 1, instance, outside, heard', peers)
  BY <1>3, <1>5, <1>11, TxAdds
<1>13. peer.mem_pool \in Seq(Marked(K2, peer)) /\ DistinctIds(peer.mem_pool)
  <2>1. peers[p].mem_pool \in Seq(Marked(K, peers[p])) /\ DistinctIds(peers[p].mem_pool)
    BY <1>3 DEF GoodPeer
  <2>2. \A t \in Marked(K, peers[p]) : t.id # tx.id
    BY <1>3, <1>5 DEF Marked, TxInv
  <2> HIDE DEF Marked
  <2>3. K \subseteq K2 /\ tx \in K2
    OBVIOUS
  <2> HIDE DEF K2
  <2> QED BY <1>8, <1>9, <2>1, <2>2, <2>3, PoolAdds
<1>14. GoodPeer(K2, instance, outside, peers[p])
  BY <1>2, <1>12 DEF TxInv
<1>15. instance[k] # << >>
  BY <1>1, <1>2, <1>3 DEF GoodPeer
<1> HIDE DEF K2, Marked
<1>16. GoodPeer(K2, instance, outside, peer)
  BY <1>2, <1>9, <1>13, <1>14, <1>15 DEF GoodPeer
<1>17. TxInv(K2, count.txs + 1, instance, outside, heard', peers')
  <2>1. instance \in [Kind -> Chains(K2)] /\ outside \in [Kind -> Chains(K2)]
    BY <1>12 DEF TxInv
  <2>2. Stay(instance, instance) /\ Stay(outside, outside)
    BY DEF Stay
  <2> QED BY <1>2, <1>6, <1>12, <1>16, <2>1, <2>2, TxTurn
<1>18. TxInv(K2, count'.txs, instance', outside', heard', peers')
  BY <1>6, <1>10, <1>17
<1>19. Controlled'
  BY <1>2, <1>4, <1>6, <1>9, <1>10, ControlsTurn
<1>20. K2 \in SUBSET Tx
  BY <1>5 DEF K2
<1> QED BY <1>18, <1>19, <1>20 DEF HostInv

-----------------------------------------------------------------------------
(***************************************************************************)
(* Making blocks.                                                          *)
(***************************************************************************)
LEMMA GoodStays ==
  ASSUME NEW K, NEW chains, NEW outs, NEW peer, GoodPeer(K, chains, outs, peer),
         NEW after \in Peer, after.kind = peer.kind, after.server = peer.server,
         after.links = peer.links, after.asked => peer.asked,
         after.candidate # None => after.candidate = peer.candidate /\ "mine" \in after.tasks,
         after.draws = peer.draws \/ after.kind = "pos", peer.seen \subseteq after.seen,
         after.mem_pool \in Seq(Marked(K, peer)), DistinctIds(after.mem_pool),
         after.mem_pool # << >> \/ after.chain # "None" => chains[peer.kind] # << >>
  PROVE  GoodPeer(K, chains, outs, after)
<1>1. after.mem_pool \in Seq(Marked(K, after))
  BY MarkedMore
<1> HIDE DEF Marked
<1> QED BY <1>1 DEF GoodPeer

LEMMA BlockSpread ==
  ASSUME NEW K, K \subseteq Tx, UniqueIds(K), \A t \in K : t.id # 0,
         NEW p \in DOMAIN peers, peers[p].kind \in Kind, outside \in [Kind -> Chains(K)],
         NEW block \in Block, block.transactions \in Seq(K), DistinctIds(block.transactions),
         BlockSpreads(p, block)
  PROVE  outside' \in [Kind -> Chains(K)] /\ Stay(outside, outside')
<1> DEFINE k == peers[p].kind
           more == Append(outside[k], block)
<1>1. CASE outside' = outside
  BY <1>1 DEF Stay
<1>2. CASE /\ outside[k] # << >> /\ isValidBlock(outside[k], block)
           /\ outside' = [outside EXCEPT ![k] = more]
  <2>1. \A i \in DOMAIN block.transactions :
          ~ transaction_exists_in_chain(outside[k], block.transactions[i])
    BY <1>2 DEF isValidBlock
  <2> HIDE DEF k
  <2>2. k \in Kind /\ outside[k] \in Chains(K)
    BY DEF k
  <2>3. more \in Chains(K) /\ more # << >>
    BY <1>2, <2>1, <2>2, ChainsAppend
  <2> HIDE DEF more
  <2> QED BY <1>2, <2>2, <2>3 DEF Stay
<1> QED BY <1>1, <1>2 DEF BlockSpreads, poa_isValidBlock

LEMMA TurnAppends ==
  ASSUME Controlled, NEW K \in SUBSET Tx,
         TxInv(K, count.txs, instance, outside, heard, peers), \A t \in K : t.id # 0,
         NEW p \in DOMAIN peers,
         NEW peer, GoodPeer(K, instance, outside, peer),
         peer.kind = peers[p].kind, peer.server = peers[p].server,
         instance[peers[p].kind] # << >>,
         NEW block \in Block, block.transactions \in Seq(K), DistinctIds(block.transactions),
         \A i \in DOMAIN block.transactions :
           ~ transaction_exists_in_chain(instance[peers[p].kind], block.transactions[i]),
         Appends(p, block, peer)
  PROVE  HostInv'
<1> DEFINE k == peers[p].kind
           pool == Sweep(peer.mem_pool, InBlock(peer.mem_pool, block)).kept
           after == [peer EXCEPT !.mem_pool = pool,
                                 !.seen = peer.seen \cup {<<"block", block.hash>>}]
           more == Append(instance[k], block)
<1>1. peer \in Peer /\ k \in Kind
  BY DEF GoodPeer, Peer
<1>2. /\ peers' = [peers EXCEPT ![p] = after]
      /\ instance' = [instance EXCEPT ![k] = more]
      /\ count' = [count EXCEPT !.blocks = count.blocks + 1]
      /\ BlockSpreads(p, block)
      /\ UNCHANGED <<web_vars, heard>>
  BY DEF Appends
<1>3. peer.mem_pool \in Seq(Marked(K, peer)) /\ DistinctIds(peer.mem_pool)
  BY DEF GoodPeer
<1>4. /\ pool \in Seq(Marked(K, peer)) /\ DistinctIds(pool)
      /\ peer.mem_pool = << >> => pool = << >>
  BY <1>3, PoolSwept
<1> HIDE DEF pool
<1>5. after \in Peer
  <2>1. pool \in Seq(Tx)
    <3>1. Marked(K, peer) \subseteq Tx
      BY DEF Marked
    <3> HIDE DEF Marked
    <3> QED BY <1>4, <3>1
  <2>2. block.hash \in Nat
    BY DEF Block
  <2>3. peer.seen \cup {<<"block", block.hash>>} \in SUBSET ({"tx", "block"} \X Nat)
    BY <1>1, <2>2, SeenMarked
  <2> QED BY <1>1, <2>1, <2>3 DEF Peer
<1>6. /\ after.kind = peer.kind /\ after.server = peer.server
      /\ after.links = peer.links /\ after.tasks = peer.tasks
      /\ after.asked = peer.asked /\ after.chain = peer.chain
      /\ after.mem_pool = pool /\ after.candidate = peer.candidate
      /\ peer.seen \subseteq after.seen /\ after.draws = peer.draws
  BY <1>1 DEF Peer
<1> HIDE DEF after
<1>7. after.candidate # None => "mine" \in after.tasks
  BY <1>6 DEF GoodPeer
<1>8. GoodPeer(K, instance, outside, after)
  BY <1>4, <1>5, <1>6, <1>7, GoodStays
<1>9. instance[k] \in Chains(K) /\ instance \in [Kind -> Chains(K)]
      /\ outside \in [Kind -> Chains(K)] /\ UniqueIds(K)
  BY <1>1 DEF TxInv
<1>10. more \in Chains(K) /\ more # << >>
  BY <1>9, ChainsAppend
<1> HIDE DEF more
<1>11. instance' \in [Kind -> Chains(K)] /\ Stay(instance, instance')
  BY <1>1, <1>2, <1>9, <1>10 DEF Stay
<1>12. outside' \in [Kind -> Chains(K)] /\ Stay(outside, outside')
  BY <1>1, <1>2, <1>9, BlockSpread
<1>13. GoodPeer(K, instance', outside', after)
  BY <1>8, <1>11, <1>12, GoodPeerGrows
<1>14. count' \in Counts /\ count'.txs = count.txs
  <2>1. count \in Counts
    BY DEF Controlled
  <2>2. count' = [count EXCEPT !.blocks = count.blocks + 1]
    BY <1>2
  <2> QED BY <2>1, <2>2 DEF Counts
<1>15. UNCHANGED <<web_vars, heard>>
  BY <1>2
<1> HIDE DEF k
<1> QED BY <1>2, <1>6, <1>11, <1>12, <1>13, <1>14, <1>15, PeerTurn

\* The account of a peer.
LEMMA PeerAccount ==
  ASSUME Controlled, NEW p \in DOMAIN peers
  PROVE  p \in Account /\ p \in 1..MaxStarts
<1>1. peers \in Seq(Peer) /\ Len(peers) <= MaxStarts
  BY DEF Controlled
<1>2. MaxStarts \in Nat /\ Account = 0..(MaxStarts + 1)
  BY WebAssumption DEF WebAssumption
<1> QED BY <1>1, <1>2

LEMMA TurnStartMining ==
  ASSUME HostInv, NEW p \in DOMAIN peers, pow_StartMining(p) PROVE HostInv'
<1> DEFINE pool == Sweep(peers[p].mem_pool, InChain(peers[p].mem_pool, instance["pow"]))
           chain == instance["pow"]
           block == NewBlock(chain, p, pool.taken)
           found == IF pool.taken = << >> THEN None ELSE block
           peer == [peers[p] EXCEPT !.mem_pool = pool.kept, !.candidate = found]
<1>1. PICK K \in SUBSET Tx : /\ TxInv(K, count.txs, instance, outside, heard, peers)
                             /\ GoodPeer(K, instance, outside, peers[p])
  BY HostNow
<1>2. /\ peers[p].kind = "pow" /\ "mine" \in peers[p].tasks /\ peers[p].mem_pool # << >>
      /\ peers' = [peers EXCEPT ![p] = peer]
      /\ UNCHANGED <<web_vars, instance, net_vars>> /\ count' = count
  BY DEF pow_StartMining
<1>3. /\ peers[p] \in Peer /\ "pow" \in Kind
      /\ peers[p].mem_pool \in Seq(Marked(K, peers[p])) /\ DistinctIds(peers[p].mem_pool)
      /\ chain # << >>
  BY <1>1, <1>2 DEF GoodPeer, Peer
<1>4. chain \in Chains(K)
  BY <1>1, <1>3 DEF TxInv
<1>5. /\ pool.kept \in Seq(Marked(K, peers[p])) /\ DistinctIds(pool.kept)
      /\ pool.taken \in Seq(Marked(K, peers[p])) /\ DistinctIds(pool.taken)
  BY <1>3, PoolSwept
<1>6. Controlled /\ p \in Account
  BY HostNow, PeerAccount
<1> HIDE DEF pool, chain
<1>7. pool.taken \in Seq(K) /\ pool.kept \in Seq(Tx)
  <2>1. Marked(K, peers[p]) \subseteq K /\ K \subseteq Tx
    BY DEF Marked
  <2> HIDE DEF Marked
  <2> QED BY <1>5, <2>1
<1>8. block \in Block /\ block.transactions = pool.taken
  BY <1>3, <1>4, <1>6, <1>7, NewBlockType
<1> HIDE DEF block
<1>9. /\ peer \in Peer /\ peer.kind = "pow" /\ peer.server = peers[p].server
      /\ peer.links = peers[p].links /\ peer.tasks = peers[p].tasks
      /\ peer.asked = peers[p].asked /\ peer.chain = peers[p].chain
      /\ peer.mem_pool = pool.kept /\ peer.candidate = found
      /\ peer.seen = peers[p].seen /\ peer.draws = peers[p].draws
  BY <1>2, <1>3, <1>7, <1>8 DEF Peer
<1> HIDE DEF peer
<1>10. peer.candidate # None => /\ peer.candidate.transactions \in Seq(K)
                                /\ DistinctIds(peer.candidate.transactions)
  BY <1>5, <1>7, <1>8, <1>9
<1> HIDE DEF found
<1>11. Marked(K, peer) = Marked(K, peers[p])
  BY <1>9 DEF Marked
<1> HIDE DEF Marked
<1>12. GoodPeer(K, instance, outside, peer)
  <2>1. "in" \in peers[p].links => peers[p].server \in {"open", "closing"}
    BY <1>1 DEF GoodPeer
  <2>2. peers[p].asked => peers[p].links # {} /\ outside["pow"] # << >>
    BY <1>1, <1>2 DEF GoodPeer
  <2>3. instance["pow"] # << >>
    BY <1>3 DEF chain
  <2>4. peer.draws = 0
    BY <1>1, <1>2, <1>9 DEF GoodPeer
  <2> QED BY <1>2, <1>5, <1>9, <1>10, <1>11, <2>1, <2>2, <2>3, <2>4 DEF GoodPeer
<1>13. peer.kind = peers[p].kind /\ peer.server = peers[p].server /\ count' \in Counts
       /\ count'.txs = count.txs
  BY <1>2, <1>9, HostNow
<1> QED BY <1>1, <1>2, <1>6, <1>12, <1>13, PeerAlone

LEMMA TurnFinishMining ==
  ASSUME HostInv, NEW p \in DOMAIN peers, pow_FinishMining(p) PROVE HostInv'
<1> DEFINE peer == [peers[p] EXCEPT !.candidate = None]
           found == peers[p].candidate
           block == [found EXCEPT !.hash = MaxStarts + 1 + count.blocks]
<1>1. PICK K \in SUBSET Tx : /\ TxInv(K, count.txs, instance, outside, heard, peers)
                             /\ \A t \in K : t.id # 0
                             /\ GoodPeer(K, instance, outside, peers[p])
  BY HostNow
<1>2. /\ found # None
      /\ \/ isValidBlock(instance["pow"], found) /\ Appends(p, block, peer)
         \/ /\ peers' = [peers EXCEPT ![p] = peer]
            /\ UNCHANGED <<web_vars, instance, net_vars>> /\ count' = count
  BY DEF pow_FinishMining
<1>3. /\ peers[p] \in Peer /\ peers[p].kind = "pow" /\ "pow" \in Kind
      /\ found \in Block /\ found.transactions \in Seq(K) /\ DistinctIds(found.transactions)
  BY <1>1, <1>2 DEF GoodPeer, Peer
<1>4. Controlled /\ count \in Counts /\ MaxStarts \in Nat
  BY HostNow
<1> HIDE DEF found
<1>5. block \in Block /\ block.transactions = found.transactions
  BY <1>3, <1>4 DEF Block, Counts
<1>6. /\ peer \in Peer /\ peer.kind = peers[p].kind /\ peer.server = peers[p].server
      /\ peer.links = peers[p].links /\ peer.tasks = peers[p].tasks
      /\ peer.asked = peers[p].asked /\ peer.chain = peers[p].chain
      /\ peer.mem_pool = peers[p].mem_pool /\ peer.candidate = None
      /\ peer.seen = peers[p].seen /\ peer.draws = peers[p].draws
  BY <1>3 DEF Peer
<1> HIDE DEF peer, block
<1>7. /\ peers[p].mem_pool \in Seq(Marked(K, peers[p])) /\ DistinctIds(peers[p].mem_pool)
      /\ peers[p].mem_pool # << >> \/ peers[p].chain # "None" => instance[peers[p].kind] # << >>
  BY <1>1 DEF GoodPeer
<1> HIDE DEF Marked
<1>8. GoodPeer(K, instance, outside, peer)
  BY <1>1, <1>6, <1>7, GoodStays
<1>9. CASE isValidBlock(instance["pow"], found) /\ Appends(p, block, peer)
  <2>1. \A i \in DOMAIN found.transactions :
          ~ transaction_exists_in_chain(instance["pow"], found.transactions[i])
    BY <1>9 DEF isValidBlock
  <2>2. instance["pow"] # << >>
    BY <1>1, <1>2, <1>3 DEF GoodPeer, found
  <2> QED BY <1>1, <1>3, <1>4, <1>5, <1>6, <1>8, <1>9, <2>1, <2>2, TurnAppends
<1>10. CASE /\ peers' = [peers EXCEPT ![p] = peer]
            /\ UNCHANGED <<web_vars, instance, net_vars>> /\ count' = count
  BY <1>1, <1>4, <1>6, <1>8, <1>10, PeerAlone
<1> QED BY <1>2, <1>9, <1>10

LEMMA TurnMinesPoa ==
  ASSUME HostInv, NEW p \in DOMAIN peers, poa_mine_blocks(p) PROVE HostInv'
<1> DEFINE pool == Sweep(peers[p].mem_pool, InChain(peers[p].mem_pool, instance["poa"]))
           chain == instance["poa"]
           block == NewBlock(chain, p, pool.taken)
           swept == [peers[p] EXCEPT !.mem_pool = pool.kept]
           peer == [peers[p] EXCEPT !.mem_pool = pool.kept, !.tasks = peers[p].tasks \cup {"round"}]
<1>1. PICK K \in SUBSET Tx : /\ TxInv(K, count.txs, instance, outside, heard, peers)
                             /\ \A t \in K : t.id # 0
                             /\ GoodPeer(K, instance, outside, peers[p])
  BY HostNow
<1>2. /\ peers[p].kind = "poa" /\ peers[p].mem_pool # << >>
      /\ \/ isValidBlock(chain, block) /\ Appends(p, block, peer)
         \/ /\ peers' = [peers EXCEPT ![p].mem_pool = pool.kept]
            /\ UNCHANGED <<web_vars, instance, net_vars>> /\ count' = count
  BY DEF poa_mine_blocks, poa_isValidBlock
<1>3. /\ peers[p] \in Peer /\ "poa" \in Kind
      /\ peers[p].mem_pool \in Seq(Marked(K, peers[p])) /\ DistinctIds(peers[p].mem_pool)
      /\ chain # << >>
  BY <1>1, <1>2 DEF GoodPeer, Peer
<1>4. chain \in Chains(K)
  BY <1>1, <1>3 DEF TxInv
<1>5. /\ pool.kept \in Seq(Marked(K, peers[p])) /\ DistinctIds(pool.kept)
      /\ pool.taken \in Seq(Marked(K, peers[p])) /\ DistinctIds(pool.taken)
  BY <1>3, PoolSwept
<1>6. Controlled /\ p \in Account /\ count \in Counts
  BY HostNow, PeerAccount
<1> HIDE DEF pool, chain
<1>7. pool.taken \in Seq(K) /\ pool.kept \in Seq(Tx)
  <2>1. Marked(K, peers[p]) \subseteq K /\ K \subseteq Tx
    BY DEF Marked
  <2> HIDE DEF Marked
  <2> QED BY <1>5, <2>1
<1>8. block \in Block /\ block.transactions = pool.taken
  BY <1>3, <1>4, <1>6, <1>7, NewBlockType
<1> HIDE DEF block
<1>9. /\ peer \in Peer /\ peer.kind = peers[p].kind /\ peer.server = peers[p].server
      /\ peer.links = peers[p].links /\ peer.tasks = peers[p].tasks \cup {"round"}
      /\ peer.asked = peers[p].asked /\ peer.chain = peers[p].chain
      /\ peer.mem_pool = pool.kept /\ peer.candidate = peers[p].candidate
      /\ peer.seen = peers[p].seen /\ peer.draws = peers[p].draws
  BY <1>3, <1>7 DEF Peer
<1>10. /\ swept \in Peer /\ swept.kind = peers[p].kind /\ swept.server = peers[p].server
       /\ swept.links = peers[p].links /\ swept.tasks = peers[p].tasks
       /\ swept.asked = peers[p].asked /\ swept.chain = peers[p].chain
       /\ swept.mem_pool = pool.kept /\ swept.candidate = peers[p].candidate
       /\ swept.seen = peers[p].seen /\ swept.draws = peers[p].draws
  BY <1>3, <1>7 DEF Peer
<1>11. peers[p].candidate = None
  BY <1>1, <1>2 DEF GoodPeer
<1>12. [peers EXCEPT ![p].mem_pool = pool.kept] = [peers EXCEPT ![p] = swept]
  BY DEF swept
<1> HIDE DEF peer, swept, Marked
<1>13. GoodPeer(K, instance, outside, peer)
  BY <1>1, <1>2, <1>3, <1>5, <1>9, <1>11, GoodStays DEF chain
<1>14. GoodPeer(K, instance, outside, swept)
  BY <1>1, <1>2, <1>3, <1>5, <1>10, <1>11, GoodStays DEF chain
<1>15. CASE isValidBlock(chain, block) /\ Appends(p, block, peer)
  <2>1. \A i \in DOMAIN block.transactions :
          ~ transaction_exists_in_chain(chain, block.transactions[i])
    BY <1>15 DEF isValidBlock
  <2>2. DistinctIds(block.transactions) /\ block.transactions \in Seq(K)
    BY <1>5, <1>7, <1>8
  <2>3. /\ instance[peers[p].kind] # << >>
        /\ \A i \in DOMAIN block.transactions :
             ~ transaction_exists_in_chain(instance[peers[p].kind], block.transactions[i])
    BY <1>2, <1>3, <2>1 DEF chain
  <2> QED BY <1>1, <1>6, <1>8, <1>9, <1>13, <1>15, <2>2, <2>3, TurnAppends
<1>16. CASE /\ peers' = [peers EXCEPT ![p].mem_pool = pool.kept]
            /\ UNCHANGED <<web_vars, instance, net_vars>> /\ count' = count
  BY <1>1, <1>6, <1>10, <1>12, <1>14, <1>16, PeerAlone
<1> QED BY <1>2, <1>15, <1>16

LEMMA TurnStakes ==
  ASSUME HostInv, "pos" \in Kind, stake PROVE HostInv'
<1> DEFINE p == running["pos"]
           peer == [peers[p] EXCEPT !.staked = TRUE, !.draws = peers[p].draws + 1]
<1>1. /\ p # 0 /\ peers' = [peers EXCEPT ![p] = peer]
      /\ count' = [count EXCEPT !.stakes = count.stakes + 1]
      /\ UNCHANGED <<web_vars, instance, net_vars>>
  BY DEF stake
<1>2. p \in DOMAIN peers /\ peers[p].kind = "pos"
  BY <1>1, RunningPeer
<1> HIDE DEF p
<1>3. PICK K \in SUBSET Tx : /\ TxInv(K, count.txs, instance, outside, heard, peers)
                             /\ GoodPeer(K, instance, outside, peers[p])
  BY <1>2, HostNow
<1>4. /\ peer.kind = peers[p].kind /\ peer.server = peers[p].server /\ peer \in Peer
      /\ peer.links = peers[p].links /\ peer.tasks = peers[p].tasks
      /\ peer.asked = peers[p].asked /\ peer.chain = peers[p].chain
      /\ peer.mem_pool = peers[p].mem_pool /\ peer.candidate = peers[p].candidate
      /\ peer.seen = peers[p].seen
  <2>1. peers[p] \in Peer /\ peers[p].draws + 1 \in Nat
    BY <1>3 DEF GoodPeer, Peer
  <2> QED BY <2>1 DEF Peer
<1> HIDE DEF peer
<1>5. Marked(K, peer) = Marked(K, peers[p])
  BY <1>4 DEF Marked
<1> HIDE DEF Marked
<1>6. GoodPeer(K, instance, outside, peer)
  BY <1>2, <1>3, <1>4, <1>5 DEF GoodPeer
<1>7. Controlled /\ count \in Counts
  BY HostNow
<1>8. count' \in Counts /\ count'.txs = count.txs
  BY <1>1, <1>7 DEF Counts
<1> QED BY <1>1, <1>2, <1>3, <1>4, <1>6, <1>7, <1>8, PeerAlone

LEMMA TurnDraws ==
  ASSUME HostInv, NEW p \in DOMAIN peers, pos_create_blocks(p) PROVE HostInv'
<1> DEFINE peer == [peers[p] EXCEPT !.draws = peers[p].draws - 1, !.staked = FALSE]
           chain == instance["pos"]
           pending == Without(peer.mem_pool, InChain(peer.mem_pool, chain))
           block == NewBlock(chain, p, pending)
<1>1. PICK K \in SUBSET Tx : /\ TxInv(K, count.txs, instance, outside, heard, peers)
                             /\ \A t \in K : t.id # 0
                             /\ GoodPeer(K, instance, outside, peers[p])
  BY HostNow
<1>2. /\ peers[p].draws > 0
      /\ \/ /\ peers' = [peers EXCEPT ![p] = peer]
            /\ UNCHANGED <<web_vars, instance, net_vars>> /\ count' = count
         \/ peers[p].staked /\ pending # << >> /\ Appends(p, block, peer)
  BY DEF pos_create_blocks
<1>3. /\ peer.kind = peers[p].kind /\ peer.server = peers[p].server /\ peer \in Peer
      /\ peer.links = peers[p].links /\ peer.tasks = peers[p].tasks
      /\ peer.asked = peers[p].asked /\ peer.chain = peers[p].chain
      /\ peer.mem_pool = peers[p].mem_pool /\ peer.candidate = peers[p].candidate
      /\ peer.seen = peers[p].seen
  <2>1. peers[p] \in Peer /\ peers[p].draws - 1 \in Nat
    BY <1>1, <1>2 DEF GoodPeer, Peer
  <2> QED BY <2>1 DEF Peer
<1> HIDE DEF peer
<1>4. peers[p].kind = "pos"
  BY <1>1, <1>2 DEF GoodPeer
<1>5. GoodPeer(K, instance, outside, peer)
  <2>1. Marked(K, peer) = Marked(K, peers[p])
    BY <1>3 DEF Marked
  <2> HIDE DEF Marked
  <2> QED BY <1>1, <1>3, <1>4, <2>1 DEF GoodPeer
<1>6. Controlled /\ count \in Counts /\ p \in Account
  BY HostNow, PeerAccount
<1>7. CASE /\ peers' = [peers EXCEPT ![p] = peer]
           /\ UNCHANGED <<web_vars, instance, net_vars>> /\ count' = count
  BY <1>1, <1>3, <1>5, <1>6, <1>7, PeerAlone
<1>8. CASE peers[p].staked /\ pending # << >> /\ Appends(p, block, peer)
  <2>1. /\ peers[p].mem_pool \in Seq(Marked(K, peers[p])) /\ DistinctIds(peers[p].mem_pool)
        /\ Marked(K, peers[p]) \subseteq K
    BY <1>1 DEF GoodPeer, Marked
  <2>2. /\ pending \in Seq(Marked(K, peers[p])) /\ DistinctIds(pending)
        /\ \A i \in DOMAIN pending :
             /\ pending[i] \notin InChain(peers[p].mem_pool, chain)
             /\ \E j \in DOMAIN peers[p].mem_pool : pending[i] = peers[p].mem_pool[j]
    BY <1>3, <2>1, WithoutType
  <2> HIDE DEF pending
  <2>3. \A i \in DOMAIN pending : ~ transaction_exists_in_chain(chain, pending[i])
    BY <2>2 DEF InChain
  <2>4. pending \in Seq(K)
    BY <2>1, <2>2
  <2>5. peers[p].mem_pool # << >>
    BY <1>8, <2>2
  <2>6. chain # << >> /\ "pos" \in Kind
    BY <1>1, <1>4, <2>5 DEF GoodPeer, Peer
  <2>7. chain \in Chains(K)
    BY <1>1, <2>6 DEF TxInv
  <2>8. block \in Block /\ block.transactions = pending
    BY <1>6, <2>4, <2>6, <2>7, NewBlockType
  <2> HIDE DEF block
  <2> QED BY <1>1, <1>3, <1>4, <1>5, <1>6, <1>8, <2>2, <2>3, <2>4, <2>6, <2>8, TurnAppends
<1> QED BY <1>2, <1>7, <1>8

-----------------------------------------------------------------------------
(***************************************************************************)
(* Blocks and chains from elsewhere.                                       *)
(***************************************************************************)
LEMMA TxOutside ==
  ASSUME NEW K, NEW n, NEW chains, NEW outs, NEW known, NEW ps,
         TxInv(K, n, chains, outs, known, ps),
         NEW outs2 \in [Kind -> Chains(K)], Stay(outs, outs2)
  PROVE  TxInv(K, n, chains, outs2, known, ps)
<1>1. Stay(chains, chains)
  BY DEF Stay
<1>2. \A p \in DOMAIN ps : GoodPeer(K, chains, outs2, ps[p])
  <2>1. \A p \in DOMAIN ps : GoodPeer(K, chains, outs, ps[p])
    BY DEF TxInv
  <2> QED BY <1>1, <2>1, GoodPeerGrows
<1> QED BY <1>2 DEF TxInv

LEMMA TurnMakesOutside ==
  ASSUME HostInv, NEW k \in Kind, OutsideMakesBlock(k) PROVE HostInv'
<1> DEFINE chain == outside[k]
           news == {t \in heard[k] : ~ transaction_exists_in_chain(chain, t)}
           txs == SetToSeq(news)
           block == NewBlock(chain, 0, txs)
           more == Append(chain, block)
<1>1. PICK K \in SUBSET Tx : /\ TxInv(K, count.txs, instance, outside, heard, peers)
                             /\ UniqueIds(K) /\ \A t \in K : t.id # 0
  BY HostNow
<1>2. Controlled /\ count \in Counts /\ MaxStarts \in Nat
  BY HostNow
<1>3. /\ chain # << >> /\ outside' = [outside EXCEPT ![k] = more]
      /\ count' = [count EXCEPT !.blocks = count.blocks + 1, !.outside = count.outside + 1]
      /\ UNCHANGED <<web_vars, peers, instance, heard>>
  BY DEF OutsideMakesBlock
<1>4. chain \in Chains(K) /\ heard[k] \subseteq K /\ IsFiniteSet(heard[k])
  BY <1>1 DEF TxInv
<1>5. news \in SUBSET K /\ IsFiniteSet(news)
  BY <1>4, FS_Subset
<1>6. /\ txs \in Seq(K) /\ DistinctIds(txs)
      /\ \A i \in DOMAIN txs : ~ transaction_exists_in_chain(chain, txs[i])
  <2>1. /\ txs \in Seq(K) /\ DistinctIds(txs)
        /\ \A i \in DOMAIN txs : txs[i] \in news
    <3> HIDE DEF news
    <3> QED BY <1>1, <1>5, EnumerationDistinct
  <2> HIDE DEF txs
  <2> QED BY <2>1
<1>7. 0 \in Account
  BY <1>2, WebAssumption DEF WebAssumption
<1> HIDE DEF txs, news, chain
<1>8. block \in Block /\ block.transactions = txs
  BY <1>2, <1>3, <1>4, <1>6, <1>7, NewBlockType
<1> HIDE DEF block
<1>9. more \in Chains(K) /\ more # << >>
  BY <1>1, <1>3, <1>4, <1>6, <1>8, ChainsAppend
<1> HIDE DEF more
<1>10. outside' \in [Kind -> Chains(K)] /\ Stay(outside, outside')
  BY <1>1, <1>3, <1>9 DEF TxInv, Stay
<1>11. TxInv(K, count.txs, instance, outside', heard, peers)
  BY <1>1, <1>10, TxOutside
<1>12. count' \in Counts /\ count'.txs = count.txs
  <2>1. count' = [count EXCEPT !.blocks = count.blocks + 1, !.outside = count.outside + 1]
    BY <1>3
  <2>2. count \in Counts /\ count.blocks + 1 \in Nat /\ count.outside + 1 \in Nat
    BY <1>2 DEF Counts
  <2>3. [count EXCEPT !.blocks = count.blocks + 1, !.outside = count.outside + 1] \in Counts
    BY <2>2 DEF Counts
  <2>4. [count EXCEPT !.blocks = count.blocks + 1, !.outside = count.outside + 1].txs = count.txs
    BY <2>2 DEF Counts
  <2> QED BY <2>1, <2>3, <2>4
<1>13. TxInv(K, count'.txs, instance', outside', heard', peers')
  BY <1>3, <1>11, <1>12
<1>14. Controlled'
  BY <1>2, <1>3, <1>12, ControlsRest
<1> QED BY <1>13, <1>14 DEF HostInv

LEMMA HearsGood ==
  ASSUME NEW K \in SUBSET Tx, NEW chains, NEW outs, NEW peer, GoodPeer(K, chains, outs, peer),
         NEW block
  PROVE  /\ GoodPeer(K, chains, outs, Hears(peer, block))
         /\ Hears(peer, block).kind = peer.kind
         /\ Hears(peer, block).server = peer.server
<1> DEFINE pool == Sweep(peer.mem_pool, InBlock(peer.mem_pool, block)).kept
           swept == [peer EXCEPT !.mem_pool = pool]
           after == Hears(peer, block)
<1>1. /\ peer \in Peer /\ peer.kind \in {"pow", "poa", "pos"}
      /\ peer.mem_pool \in Seq(Marked(K, peer)) /\ DistinctIds(peer.mem_pool)
      /\ peer.candidate # None => peer.kind = "pow" /\ "mine" \in peer.tasks
      /\ peer.mem_pool # << >> \/ peer.chain # "None" => chains[peer.kind] # << >>
  BY WebAssumption DEF GoodPeer, Peer, WebAssumption
<1>2. /\ pool \in Seq(Marked(K, peer)) /\ DistinctIds(pool)
      /\ peer.mem_pool = << >> => pool = << >>
  BY <1>1, PoolSwept
<1>3. pool \in Seq(Tx)
  <2>1. Marked(K, peer) \subseteq Tx
    BY DEF Marked
  <2> HIDE DEF Marked, pool
  <2> QED BY <1>2, <2>1
<1>4. after = CASE peer.kind = "pow" -> pow_Hears(swept, block)
                [] peer.kind = "poa" -> poa_Hears(swept, block)
                [] peer.kind = "pos" -> pos_Hears(swept, block)
  <2>1. swept.kind = peer.kind
    BY <1>1 DEF Peer
  <2> QED BY <2>1 DEF Hears
<1> HIDE DEF pool, after
<1>5. /\ swept \in Peer /\ swept.kind = peer.kind /\ swept.server = peer.server
      /\ swept.links = peer.links /\ swept.asked = peer.asked /\ swept.chain = peer.chain
      /\ swept.candidate = peer.candidate /\ swept.seen = peer.seen
      /\ swept.mem_pool = pool /\ swept.draws = peer.draws /\ swept.tasks = peer.tasks
  BY <1>1, <1>3 DEF Peer
<1> HIDE DEF swept
<1>6. /\ after \in Peer /\ after.kind = swept.kind /\ after.server = swept.server
      /\ after.links = swept.links /\ after.asked = swept.asked /\ after.chain = swept.chain
      /\ after.seen = swept.seen /\ after.mem_pool = swept.mem_pool /\ after.draws = swept.draws
      /\ after.candidate # None => after.candidate = swept.candidate /\ peer.kind # "pow"
  <2>1. CASE peer.kind = "pow"
    <3>1. after = [swept EXCEPT !.candidate = None,
                                !.tasks = IF swept.miner THEN swept.tasks \cup {"mine"}
                                                         ELSE swept.tasks]
      BY <1>4, <2>1 DEF pow_Hears
    <3> QED BY <1>5, <3>1 DEF Peer
  <2>2. CASE peer.kind = "poa"
    <3>1. after = [swept EXCEPT !.tasks = (swept.tasks \cup {"round"}) \ {"mine"},
                                !.miner = FALSE]
      BY <1>4, <2>2 DEF poa_Hears
    <3> QED BY <1>5, <2>2, <3>1 DEF Peer
  <2>3. CASE peer.kind = "pos"
    <3>1. after = [swept EXCEPT !.staked = FALSE]
      BY <1>4, <2>3 DEF pos_Hears
    <3> QED BY <1>5, <2>3, <3>1 DEF Peer
  <2> QED BY <1>1, <2>1, <2>2, <2>3
<1> HIDE DEF Marked
<1>7. GoodPeer(K, chains, outs, after)
  BY <1>1, <1>2, <1>5, <1>6, GoodStays
<1> QED BY <1>5, <1>6, <1>7 DEF after

LEMMA TurnNewBlock ==
  ASSUME HostInv, NEW p \in DOMAIN peers, NEW link, NEW block, HandleNewBlock(p, link, block)
  PROVE  HostInv'
<1> DEFINE k == peers[p].kind
           chain == instance[k]
           more == Append(chain, block)
           peer == [peers[p] EXCEPT !.seen = peers[p].seen \cup {<<"block", block.hash>>}]
<1>1. PICK K \in SUBSET Tx : /\ TxInv(K, count.txs, instance, outside, heard, peers)
                             /\ UniqueIds(K) /\ \A t \in K : t.id # 0
                             /\ GoodPeer(K, instance, outside, peers[p])
  BY HostNow
<1>2. Controlled /\ count \in Counts
  BY HostNow
<1>3. peers[p] \in Peer /\ k \in Kind
  BY <1>1 DEF GoodPeer, Peer
<1>4. instance[k] \in Chains(K) /\ outside[k] \in Chains(K)
  BY <1>1, <1>3 DEF TxInv
<1>5. /\ block \in Block /\ block.transactions \in Seq(K) /\ DistinctIds(block.transactions)
      /\ block.hash \in Nat
  <2>1. PICK i \in 2..Len(outside[k]) : outside[k][i] = block
    BY DEF HandleNewBlock
  <2>2. outside[k] \in Seq(Block)
    BY <1>4 DEF Chains
  <2>3. i \in DOMAIN outside[k] \ {1} /\ i \in DOMAIN outside[k]
    BY <2>2
  <2>4. block \in Block /\ block.transactions \in Seq(K) /\ DistinctIds(block.transactions)
    BY <1>4, <2>1, <2>2, <2>3 DEF Chains
  <2> QED BY <2>4 DEF Block
<1>6. /\ peer \in Peer /\ peer.kind = k /\ peer.server = peers[p].server
      /\ peer.links = peers[p].links /\ peer.tasks = peers[p].tasks
      /\ peer.asked = peers[p].asked /\ peer.chain = peers[p].chain
      /\ peer.mem_pool = peers[p].mem_pool /\ peer.candidate = peers[p].candidate
      /\ peers[p].seen \subseteq peer.seen /\ peer.draws = peers[p].draws
  <2>1. peers[p].seen \cup {<<"block", block.hash>>} \in SUBSET ({"tx", "block"} \X Nat)
    BY <1>3, <1>5, SeenMarked
  <2> HIDE DEF k
  <2> QED BY <1>3, <2>1 DEF Peer, k
<1>7. \/ /\ peers' = [peers EXCEPT ![p] = HandlerFails(peer, link)]
         /\ instance' = instance
      \/ /\ chain # << >> /\ isValidBlock(chain, block)
         /\ instance' = [instance EXCEPT ![k] = more]
         /\ peers' = [peers EXCEPT ![p] = Hears(peer, block)]
      \/ instance' = instance /\ peers' = [peers EXCEPT ![p] = peer]
  <2>1. CASE chain = << >>
    BY <2>1 DEF HandleNewBlock
  <2>2. CASE chain # << >>
    <3>1. PICK taken \in Verdicts(k, chain, block) :
            /\ instance' = IF taken THEN [instance EXCEPT ![k] = more] ELSE instance
            /\ peers' = [peers EXCEPT ![p] = IF taken THEN Hears(peer, block) ELSE peer]
      BY <2>2 DEF HandleNewBlock
    <3>2. k \in {"pow", "poa", "pos"}
      BY <1>3, WebAssumption DEF WebAssumption
    <3> HIDE DEF k, chain, peer, more
    <3>3. taken \in BOOLEAN /\ taken => isValidBlock(chain, block)
      BY <3>1, <3>2 DEF Verdicts, pow_Verdicts, poa_Verdicts, pos_Verdicts, poa_isValidBlock
    <3> QED BY <2>2, <3>1, <3>3
  <2> QED BY <2>1, <2>2
<1>8. UNCHANGED <<web_vars, net_vars>> /\ count' = count
  BY DEF HandleNewBlock
<1> HIDE DEF peer
<1>9. GoodPeer(K, instance, outside, peer)
  <2>1. /\ peers[p].mem_pool \in Seq(Marked(K, peers[p])) /\ DistinctIds(peers[p].mem_pool)
        /\ peers[p].mem_pool # << >> \/ peers[p].chain # "None" => instance[peers[p].kind] # << >>
        /\ peers[p].candidate # None => "mine" \in peers[p].tasks
    BY <1>1 DEF GoodPeer
  <2> HIDE DEF Marked
  <2> QED BY <1>1, <1>6, <2>1, GoodStays
<1>10. CASE /\ peers' = [peers EXCEPT ![p] = HandlerFails(peer, link)]
            /\ instance' = instance
  <2>1. /\ GoodPeer(K, instance, outside, HandlerFails(peer, link))
        /\ HandlerFails(peer, link).kind = k
        /\ HandlerFails(peer, link).server = peers[p].server
    BY <1>6, <1>9, HandlerFailsGood
  <2> QED BY <1>1, <1>2, <1>8, <1>10, <2>1, PeerAlone
<1>11. CASE instance' = instance /\ peers' = [peers EXCEPT ![p] = peer]
  BY <1>1, <1>2, <1>6, <1>8, <1>9, <1>11, PeerAlone
<1>12. CASE /\ chain # << >> /\ isValidBlock(chain, block)
            /\ instance' = [instance EXCEPT ![k] = more]
            /\ peers' = [peers EXCEPT ![p] = Hears(peer, block)]
  <2> DEFINE after == Hears(peer, block)
  <2>1. GoodPeer(K, instance, outside, after) /\ after.kind = k /\ after.server = peers[p].server
    BY <1>6, <1>9, HearsGood
  <2> HIDE DEF after
  <2>2. \A i \in DOMAIN block.transactions :
          ~ transaction_exists_in_chain(chain, block.transactions[i])
    BY <1>12 DEF isValidBlock
  <2>3. more \in Chains(K) /\ more # << >>
    BY <1>1, <1>4, <1>5, <1>12, <2>2, ChainsAppend
  <2>4. instance \in [Kind -> Chains(K)] /\ outside \in [Kind -> Chains(K)]
    BY <1>1 DEF TxInv
  <2> HIDE DEF more, chain, k
  <2>5. instance' \in [Kind -> Chains(K)] /\ Stay(instance, instance')
    BY <1>3, <1>12, <2>3, <2>4 DEF Stay
  <2>6. outside' = outside /\ outside' \in [Kind -> Chains(K)] /\ Stay(outside, outside')
    BY <1>8, <2>4 DEF net_vars, Stay
  <2>7. GoodPeer(K, instance', outside', after)
    BY <2>1, <2>5, <2>6, GoodPeerGrows
  <2>8. UNCHANGED <<web_vars, heard>> /\ peers' = [peers EXCEPT ![p] = after]
        /\ after.kind = peers[p].kind
    BY <1>8, <1>12, <2>1 DEF net_vars, after, k
  <2> QED BY <1>1, <1>2, <1>8, <2>1, <2>5, <2>6, <2>7, <2>8, PeerTurn
<1> QED BY <1>7, <1>10, <1>11, <1>12

\* Whichever program purges the pool.
LEMMA PurgedPool ==
  ASSUME NEW S, NEW pool \in Seq(S), DistinctIds(pool), NEW kind \in {"pow", "poa", "pos"},
         NEW chain, NEW assigned, NEW longer
  PROVE  /\ Purged(kind, pool, chain, assigned, longer) \in Seq(S)
         /\ DistinctIds(Purged(kind, pool, chain, assigned, longer))
<1> DEFINE gone == InChain(pool, chain)
<1>1. \/ Purged(kind, pool, chain, assigned, longer) = pool
      \/ Purged(kind, pool, chain, assigned, longer) = Sweep(pool, gone).kept
      \/ Purged(kind, pool, chain, assigned, longer) = Without(pool, gone)
  BY DEF Purged, pow_Purged, poa_Purged, pos_Purged
<1> HIDE DEF gone
<1>2. /\ Sweep(pool, gone).kept \in Seq(S) /\ DistinctIds(Sweep(pool, gone).kept)
      /\ Without(pool, gone) \in Seq(S) /\ DistinctIds(Without(pool, gone))
  BY PoolSwept
<1> QED BY <1>1, <1>2

LEMMA TurnChain ==
  ASSUME HostInv, NEW p \in DOMAIN peers, NEW link, HandleChain(p, link) PROVE HostInv'
<1> DEFINE k == peers[p].kind
           list == outside[k]
           peer == [peers[p] EXCEPT !.asked = FALSE]
           assigned == Assigns(peer)
           chains == IF assigned THEN Chain(k, list)
                                 ELSE [instance EXCEPT ![k] = rewrite_chain(instance[k], list)]
           longer == Len(instance[k]) < Len(list)
           object == IF assigned THEN ChainObject(k) ELSE peers[p].chain
           pool == Purged(k, peers[p].mem_pool, chains[k], assigned, longer)
           after == [peer EXCEPT !.chain = object, !.mem_pool = pool]
<1>1. PICK K \in SUBSET Tx : /\ TxInv(K, count.txs, instance, outside, heard, peers)
                             /\ GoodPeer(K, instance, outside, peers[p])
  BY HostNow
<1>2. Controlled /\ count \in Counts
  BY HostNow
<1>3. /\ peers[p] \in Peer /\ k \in Kind /\ k \in {"pow", "poa", "pos"}
      /\ peers[p].chain \in {"None", "Chain", "Blank"}
  BY <1>1, WebAssumption DEF GoodPeer, Peer, WebAssumption
<1>4. /\ instance \in [Kind -> Chains(K)] /\ outside \in [Kind -> Chains(K)]
      /\ list \in Chains(K) /\ instance[k] \in Chains(K)
  BY <1>1, <1>3 DEF TxInv
<1>5. peers[p].asked /\ list # << >>
  BY <1>1 DEF HandleChain, GoodPeer
<1>6. /\ peer \in Peer /\ peer.kind = k /\ peer.server = peers[p].server
      /\ peer.links = peers[p].links /\ peer.tasks = peers[p].tasks
      /\ ~ peer.asked /\ peer.chain = peers[p].chain
      /\ peer.mem_pool = peers[p].mem_pool /\ peer.candidate = peers[p].candidate
      /\ peer.seen = peers[p].seen /\ peer.draws = peers[p].draws
  BY <1>3 DEF Peer
<1>7. \/ /\ peers' = [peers EXCEPT ![p] = HandlerFails(peer, link)]
         /\ instance' = instance
      \/ instance' = chains /\ peers' = [peers EXCEPT ![p] = after]
  <2>1. after = [peer EXCEPT !.chain = IF assigned THEN ChainObject(k) ELSE peer.chain,
                             !.mem_pool = Purged(k, peer.mem_pool, chains[k], assigned, longer)]
    <3> HIDE DEF assigned, chains, longer, k, peer
    <3> QED BY <1>6 DEF k
  <2> HIDE DEF after
  <2> QED BY <2>1 DEF HandleChain
<1>8. UNCHANGED <<web_vars, net_vars>> /\ count' = count
  BY DEF HandleChain
<1>9. /\ peers[p].mem_pool \in Seq(Marked(K, peers[p])) /\ DistinctIds(peers[p].mem_pool)
      /\ peers[p].mem_pool # << >> \/ peers[p].chain # "None" => instance[peers[p].kind] # << >>
      /\ peers[p].candidate # None => "mine" \in peers[p].tasks
  BY <1>1 DEF GoodPeer
<1>10. GoodPeer(K, instance, outside, peer)
  <2> HIDE DEF Marked, peer
  <2> QED BY <1>1, <1>6, <1>9, GoodStays
<1>11. chains \in [Kind -> Chains(K)] /\ Stay(instance, chains) /\ chains[k] # << >>
  <2>1. (chains = instance /\ instance[k] # << >>) \/ chains = [instance EXCEPT ![k] = list]
    <3>1. CASE assigned
      BY <3>1 DEF Chain
    <3>2. CASE ~ assigned /\ Len(instance[k]) >= Len(list)
      <4>1. instance[k] # << >>
        BY <1>4, <1>5, <3>2 DEF Chains
      <4>2. [instance EXCEPT ![k] = instance[k]] = instance
        BY <1>3, <1>4
      <4> QED BY <3>2, <4>1, <4>2 DEF rewrite_chain
    <3>3. CASE ~ assigned /\ ~ Len(instance[k]) >= Len(list)
      BY <3>3 DEF rewrite_chain
    <3> QED BY <3>1, <3>2, <3>3
  <2> HIDE DEF chains, list, k
  <2> QED BY <1>3, <1>4, <1>5, <2>1 DEF Stay
<1>12. /\ pool \in Seq(Marked(K, peers[p])) /\ DistinctIds(pool)
  <2> HIDE DEF chains, assigned, longer, k, Marked
  <2> QED BY <1>3, <1>9, PurgedPool
<1>13. object \in {"None", "Chain", "Blank"}
  BY <1>3 DEF ChainObject
<1>14. pool \in Seq(Tx)
  <2>1. Marked(K, peers[p]) \subseteq Tx
    BY DEF Marked
  <2> HIDE DEF Marked, pool
  <2> QED BY <1>12, <2>1
<1> HIDE DEF pool, object, peer, chains
<1>15. /\ after \in Peer /\ after.kind = k /\ after.server = peers[p].server
       /\ after.links = peers[p].links /\ after.tasks = peers[p].tasks
       /\ ~ after.asked /\ after.chain = object
       /\ after.mem_pool = pool /\ after.candidate = peers[p].candidate
       /\ after.seen = peers[p].seen /\ after.draws = peers[p].draws
  <2> HIDE DEF k
  <2> QED BY <1>6, <1>13, <1>14 DEF Peer
<1> HIDE DEF after
<1>16. Stay(outside, outside)
  BY DEF Stay
<1>17. GoodPeer(K, chains, outside, after)
  <2>1. GoodPeer(K, chains, outside, peers[p])
    BY <1>1, <1>11, <1>16, GoodPeerGrows
  <2> HIDE DEF Marked
  <2> QED BY <1>9, <1>11, <1>12, <1>15, <2>1, GoodStays
<1>18. CASE /\ peers' = [peers EXCEPT ![p] = HandlerFails(peer, link)]
            /\ instance' = instance
  <2>1. /\ GoodPeer(K, instance, outside, HandlerFails(peer, link))
        /\ HandlerFails(peer, link).kind = k
        /\ HandlerFails(peer, link).server = peers[p].server
    BY <1>6, <1>10, HandlerFailsGood
  <2> QED BY <1>1, <1>2, <1>8, <1>18, <2>1, PeerAlone
<1>19. CASE instance' = chains /\ peers' = [peers EXCEPT ![p] = after]
  <2>1. /\ outside' = outside /\ UNCHANGED <<web_vars, heard>>
        /\ count' \in Counts /\ count'.txs = count.txs
    BY <1>2, <1>8 DEF net_vars
  <2>2. instance' \in [Kind -> Chains(K)] /\ Stay(instance, instance')
    BY <1>11, <1>19
  <2>3. outside' \in [Kind -> Chains(K)] /\ Stay(outside, outside')
    BY <1>4, <1>16, <2>1
  <2>4. GoodPeer(K, instance', outside', after)
    BY <1>17, <1>19, <2>1
  <2>5. peers' = [peers EXCEPT ![p] = after]
    BY <1>19
  <2> QED BY <1>1, <1>2, <1>15, <2>1, <2>2, <2>3, <2>4, <2>5, PeerTurn
<1> QED BY <1>7, <1>18, <1>19

LEMMA TurnChainRequest ==
  ASSUME HostInv, NEW p \in DOMAIN peers, NEW link, HandleChainRequest(p, link) PROVE HostInv'
<1> DEFINE k == peers[p].kind
           list == instance[k]
<1>1. PICK K \in SUBSET Tx : /\ TxInv(K, count.txs, instance, outside, heard, peers)
                             /\ GoodPeer(K, instance, outside, peers[p])
  BY HostNow
<1>2. Controlled /\ count \in Counts
  BY HostNow
<1>3. peers[p] \in Peer /\ k \in Kind
  BY <1>1 DEF GoodPeer, Peer
<1>4. /\ instance \in [Kind -> Chains(K)] /\ outside \in [Kind -> Chains(K)]
      /\ list \in Chains(K) /\ outside[k] \in Chains(K)
  BY <1>1, <1>3 DEF TxInv
<1>5. /\ Len(list) > Len(outside[k])
      /\ \/ peers' = [peers EXCEPT ![p] = HandlerFails(peers[p], link)] /\ outside' = outside
         \/ outside' = [outside EXCEPT ![k] = list] /\ peers' = peers
      /\ UNCHANGED <<web_vars, instance, heard, count>>
  BY DEF HandleChainRequest
<1>6. CASE peers' = [peers EXCEPT ![p] = HandlerFails(peers[p], link)] /\ outside' = outside
  <2>1. /\ GoodPeer(K, instance, outside, HandlerFails(peers[p], link))
        /\ HandlerFails(peers[p], link).kind = peers[p].kind
        /\ HandlerFails(peers[p], link).server = peers[p].server
    BY <1>1, HandlerFailsGood
  <2>2. UNCHANGED <<web_vars, instance, net_vars>> /\ count' = count
    BY <1>5, <1>6 DEF net_vars
  <2> QED BY <1>1, <1>2, <1>6, <2>1, <2>2, PeerAlone
<1>7. CASE outside' = [outside EXCEPT ![k] = list] /\ peers' = peers
  <2>1. list # << >>
    <3>1. Len(outside[k]) \in Nat
      BY <1>4 DEF Chains
    <3> QED BY <1>5, <3>1
  <2> HIDE DEF list, k
  <2>2. outside' \in [Kind -> Chains(K)] /\ Stay(outside, outside')
    BY <1>3, <1>4, <1>7, <2>1 DEF Stay
  <2>3. TxInv(K, count.txs, instance, outside', heard, peers)
    BY <1>1, <2>2, TxOutside
  <2>4. UNCHANGED <<web_vars, peers>> /\ count' \in Counts
    BY <1>2, <1>5, <1>7
  <2>5. TxInv(K, count'.txs, instance', outside', heard', peers')
    BY <1>5, <1>7, <2>3
  <2>6. Controlled'
    BY <1>2, <2>4, ControlsRest
  <2> QED BY <2>5, <2>6 DEF HostInv
<1> QED BY <1>5, <1>6, <1>7

-----------------------------------------------------------------------------
(***************************************************************************)
(* Starting and connecting.                                                *)
(***************************************************************************)
LEMMA FreshGood ==
  ASSUME NEW K, NEW chains, NEW outs, NEW peer \in Peer, peer.links = {}, ~ peer.asked,
         peer.mem_pool = << >>, peer.candidate = None, peer.draws = 0,
         peer.chain # "None" => chains[peer.kind] # << >>
  PROVE  GoodPeer(K, chains, outs, peer)
<1>1. << >> \in Seq(Marked(K, peer))
  OBVIOUS
<1>2. DistinctIds(<< >>)
  BY DEF DistinctIds
<1> HIDE DEF Marked
<1> QED BY <1>1, <1>2 DEF GoodPeer

LEMMA ControlsBegin ==
  ASSUME Controlled, NEW k, MayBegin(k), NEW peer \in Peer, peer.kind = k,
         NEW label \in Labels, NEW chains, Begins(peer, label, chains)
  PROVE  Controlled'
<1>1. /\ k \in Kind /\ request = None /\ running[k] = 0 /\ Len(peers) < MaxStarts
      /\ peers' = Append(peers, peer) /\ running' = [running EXCEPT ![k] = New]
      /\ consensus' = label /\ request' = request /\ count' = count
  BY DEF MayBegin, Begins
<1>2. /\ peers \in Seq(Peer) /\ Len(peers) \in Nat /\ DOMAIN peers = 1..Len(peers)
      /\ running \in [Kind -> Nat] /\ MaxStarts \in Nat
  <2>1. peers \in Seq(Peer) /\ running \in [Kind -> Nat]
    BY DEF Controlled
  <2>2. MaxStarts \in Nat
    BY WebAssumption DEF WebAssumption
  <2>3. Len(peers) \in Nat /\ DOMAIN peers = 1..Len(peers)
    BY <2>1
  <2> QED BY <2>1, <2>2, <2>3
<1>3. /\ peers' \in Seq(Peer) /\ Len(peers') = Len(peers) + 1
      /\ DOMAIN peers' = DOMAIN peers \cup {New} /\ peers'[New] = peer
      /\ New \in Nat /\ New # 0 /\ New \notin DOMAIN peers
      /\ \A q \in DOMAIN peers : peers'[q] = peers[q] /\ q # 0
  <2>1. peers \in Seq(Peer) /\ peers' = Append(peers, peer)
    BY <1>1, <1>2
  <2>2. peers' \in Seq(Peer) /\ Len(peers') = Len(peers) + 1
    BY <2>1
  <2>3. /\ DOMAIN peers' = DOMAIN peers \cup {New} /\ peers'[New] = peer
        /\ New \notin DOMAIN peers /\ \A q \in DOMAIN peers : peers'[q] = peers[q]
    BY <2>1, AppendFacts DEF New
  <2>4. New \in Nat /\ New # 0 /\ \A q \in DOMAIN peers : q # 0
    BY <1>2 DEF New
  <2> QED BY <2>2, <2>3, <2>4
<1> HIDE DEF New
<1>4. Len(peers') <= MaxStarts
  <2>1. Len(peers') = Len(peers) + 1 /\ Len(peers) < MaxStarts /\ Len(peers) \in Nat
        /\ MaxStarts \in Nat
    BY <1>1, <1>2, <1>3
  <2> QED BY <2>1
<1>5. running' \in [Kind -> Nat]
  BY <1>1, <1>2, <1>3
<1>6. ASSUME NEW j \in Kind, running'[j] # 0
      PROVE  running'[j] \in DOMAIN peers' /\ peers'[running'[j]].kind = j
  <2>1. CASE j = k
    BY <1>1, <1>2, <1>3, <2>1
  <2>2. CASE j # k
    <3>1. running'[j] = running[j]
      BY <1>1, <1>2, <2>2
    <3>2. running[j] \in DOMAIN peers /\ peers[running[j]].kind = j
      BY <1>6, <3>1 DEF Controlled
    <3> QED BY <1>3, <3>1, <3>2
  <2> QED BY <2>1, <2>2
<1>7. ASSUME NEW q \in DOMAIN peers', peers'[q].server \in {"open", "closing"}
      PROVE  running'[peers'[q].kind] = q
  <2>1. CASE q = New
    BY <1>1, <1>2, <1>3, <2>1
  <2>2. CASE q \in DOMAIN peers
    <3>1. peers'[q] = peers[q] /\ q # 0
      BY <1>3, <2>2
    <3>2. running[peers[q].kind] = q
      BY <1>7, <2>2, <3>1 DEF Controlled, ServersAnswered
    <3>3. peers[q].kind # k
      BY <1>1, <3>1, <3>2
    <3>4. peers[q] \in Peer
      <4>1. peers \in Seq(Peer)
        BY <1>2
      <4> QED BY <2>2, <4>1
    <3>5. peers[q].kind \in Kind
      BY <3>4 DEF Peer
    <3> QED BY <1>1, <1>2, <3>1, <3>2, <3>3, <3>5
  <2> QED BY <1>3, <2>1, <2>2
<1>8. ServersAnswered'
  BY <1>7 DEF ServersAnswered
<1>9. count' \in Counts
  BY <1>1 DEF Controlled
<1> QED BY <1>1, <1>3, <1>4, <1>5, <1>6, <1>8, <1>9 DEF Controlled

LEMMA TurnBegins ==
  ASSUME HostInv, NEW K \in SUBSET Tx, TxInv(K, count.txs, instance, outside, heard, peers),
         NEW k, MayBegin(k), NEW peer, peer.kind = k,
         NEW label \in Labels,
         NEW chains \in [Kind -> Chains(K)], Stay(instance, chains),
         GoodPeer(K, chains, outside, peer), Begins(peer, label, chains)
  PROVE  HostInv'
<1>1. peer \in Peer
  BY DEF GoodPeer
<1>2. Controlled'
  BY <1>1, HostNow, ControlsBegin
<1>3. /\ peers' = Append(peers, peer) /\ instance' = chains
      /\ outside' = outside /\ heard' = heard /\ count' = count
  BY DEF Begins, net_vars
<1>4. peers \in Seq(Peer) /\ \A q \in DOMAIN peers : GoodPeer(K, instance, outside, peers[q])
  BY DEF TxInv
<1>5. /\ peers' \in Seq(Peer) /\ DOMAIN peers' = DOMAIN peers \cup {Len(peers) + 1}
      /\ peers'[Len(peers) + 1] = peer /\ \A q \in DOMAIN peers : peers'[q] = peers[q]
  <2>1. peers \in Seq(Peer) /\ peers' = Append(peers, peer)
    BY <1>3, <1>4
  <2>2. peers' \in Seq(Peer)
    BY <1>1, <2>1
  <2> QED BY <2>1, <2>2, AppendFacts
<1>6. Stay(outside, outside)
  BY DEF Stay
<1>7. \A q \in DOMAIN peers' : GoodPeer(K, chains, outside, peers'[q])
  <2>1. \A q \in DOMAIN peers : GoodPeer(K, chains, outside, peers[q])
    BY <1>4, <1>6, GoodPeerGrows
  <2> QED BY <1>5, <2>1
<1>8. TxInv(K, count.txs, chains, outside, heard, peers')
  BY <1>5, <1>7 DEF TxInv
<1>9. TxInv(K, count'.txs, instance', outside', heard', peers')
  BY <1>3, <1>8
<1> QED BY <1>2, <1>9 DEF HostInv

LEMMA ServedNew ==
  ASSUME NEW k \in Kind, NEW miner \in BOOLEAN
  PROVE  LET peer == Served(NewPeer(k, miner))
         IN  /\ peer \in Peer /\ peer.kind = k /\ peer.links = {} /\ ~ peer.asked
             /\ peer.mem_pool = << >> /\ peer.candidate = None /\ peer.draws = 0
             /\ peer.chain = "None"
<1> DEFINE new == NewPeer(k, miner)
           state == IF PortFree(k) THEN "open" ELSE "none"
<1>1. << >> \in Seq(Tx)
  OBVIOUS
<1>2. /\ new \in Peer /\ new.kind = k /\ new.links = {} /\ new.asked = FALSE
      /\ new.mem_pool = << >> /\ new.candidate = None /\ new.draws = 0
      /\ new.chain = "None"
  BY <1>1 DEF NewPeer, Peer
<1> HIDE DEF new
<1>3. Served(new) = [new EXCEPT !.server = state]
  BY <1>2 DEF Served
<1>4. state \in {"none", "open", "closing", "closed"}
  OBVIOUS
<1> HIDE DEF state
<1>5. LET peer == Served(new)
      IN  /\ peer \in Peer /\ peer.kind = k /\ peer.links = {} /\ ~ peer.asked
          /\ peer.mem_pool = << >> /\ peer.candidate = None /\ peer.draws = 0
          /\ peer.chain = "None"
  BY <1>2, <1>3, <1>4 DEF Peer
<1> QED BY <1>5 DEF new

\* The genesis block of a new peer, should the process have no chain of its kind.
LEMMA NewChain ==
  ASSUME HostInv, NEW K \in SUBSET Tx, TxInv(K, count.txs, instance, outside, heard, peers),
         NEW k, MayBegin(k)
  PROVE  /\ Chain(k, <<genesis_block(New)>>) \in [Kind -> Chains(K)]
         /\ Stay(instance, Chain(k, <<genesis_block(New)>>))
         /\ Chain(k, <<genesis_block(New)>>)[k] # << >>
         /\ k \in Kind
<1> DEFINE first == <<genesis_block(New)>>
<1>1. k \in Kind /\ Len(peers) < MaxStarts
  BY DEF MayBegin
<1>2. New \in Account
  <2>1. Len(peers) \in Nat
    BY DEF TxInv
  <2> QED BY <1>1, <2>1, HostNow, WebAssumption DEF New, WebAssumption
<1>3. first \in Chains(K) /\ first # << >>
  BY <1>2, GenesisChain
<1>4. instance \in [Kind -> Chains(K)]
  BY DEF TxInv
<1> HIDE DEF first
<1>5. /\ Chain(k, first) \in [Kind -> Chains(K)] /\ Stay(instance, Chain(k, first))
      /\ Chain(k, first)[k] # << >>
  BY <1>1, <1>3, <1>4 DEF Chain, Stay
<1> QED BY <1>1, <1>5 DEF first

LEMMA PowLabel == "pow" \in Labels /\ Kind \subseteq Labels
BY DEF Labels

LEMMA TurnStarts ==
  ASSUME HostInv,
         (\E miner \in Miner : pow_start_new_blockchain(miner))
           \/ poa_start_new_blockchain \/ pos_start_new_blockchain
  PROVE  HostInv'
<1>1. PICK K \in SUBSET Tx : TxInv(K, count.txs, instance, outside, heard, peers)
  BY HostNow
<1>2. ASSUME NEW miner \in Miner, pow_start_new_blockchain(miner) PROVE HostInv'
  <2> DEFINE k == "pow"
             base == Served(NewPeer(k, miner))
             object == ChainObject(k)
             chains == Chain(k, <<genesis_block(New)>>)
             peer == [base EXCEPT !.chain = object, !.tasks = pow_run_forever(miner)]
  <2>1. MayBegin(k) /\ Begins(peer, "pow", chains)
    BY <1>2 DEF pow_start_new_blockchain
  <2>2. chains \in [Kind -> Chains(K)] /\ Stay(instance, chains) /\ chains[k] # << >> /\ k \in Kind
    BY <1>1, <2>1, NewChain
  <2>3. miner \in BOOLEAN
    BY WebAssumption DEF WebAssumption
  <2>4. /\ base \in Peer /\ base.kind = k /\ base.links = {} /\ ~ base.asked
        /\ base.mem_pool = << >> /\ base.candidate = None /\ base.draws = 0
    BY <2>2, <2>3, ServedNew
  <2>5. object \in {"None", "Chain", "Blank"}
    BY DEF ChainObject
  <2>6. pow_run_forever(miner) \in SUBSET {"find", "disc", "mine", "round", "reset"}
    BY DEF pow_run_forever
  <2> HIDE DEF base, object, chains
  <2>7. /\ peer \in Peer /\ peer.kind = k /\ peer.links = {} /\ ~ peer.asked
        /\ peer.mem_pool = << >> /\ peer.candidate = None /\ peer.draws = 0
    BY <2>4, <2>5, <2>6 DEF Peer
  <2> HIDE DEF peer
  <2>8. GoodPeer(K, chains, outside, peer)
    BY <2>2, <2>7, FreshGood
  <2> QED BY <1>1, <2>1, <2>2, <2>7, <2>8, PowLabel, TurnBegins
<1>3. CASE poa_start_new_blockchain
  <2> DEFINE k == "poa"
             base == Served(NewPeer(k, FALSE))
             object == ChainObject(k)
             chains == Chain(k, <<genesis_block(New)>>)
             plain == [base EXCEPT !.chain = object]
             full == [plain EXCEPT !.miner = TRUE, !.tasks = poa_run_forever \cup {"mine"}]
             peer == IF plain.chain = "Blank" THEN plain ELSE full
  <2>1. MayBegin(k) /\ Begins(peer, "poa", chains)
    BY <1>3 DEF poa_start_new_blockchain
  <2>2. chains \in [Kind -> Chains(K)] /\ Stay(instance, chains) /\ chains[k] # << >> /\ k \in Kind
    BY <1>1, <2>1, NewChain
  <2>3. /\ base \in Peer /\ base.kind = k /\ base.links = {} /\ ~ base.asked
        /\ base.mem_pool = << >> /\ base.candidate = None /\ base.draws = 0
    BY <2>2, ServedNew
  <2>4. object \in {"None", "Chain", "Blank"}
    BY DEF ChainObject
  <2>5. poa_run_forever \cup {"mine"} \in SUBSET {"find", "disc", "mine", "round", "reset"}
    BY DEF poa_run_forever
  <2> HIDE DEF base, object, chains
  <2>6. /\ plain \in Peer /\ plain.kind = k /\ plain.links = {} /\ ~ plain.asked
        /\ plain.mem_pool = << >> /\ plain.candidate = None /\ plain.draws = 0
    BY <2>3, <2>4 DEF Peer
  <2> HIDE DEF plain
  <2>7. /\ full \in Peer /\ full.kind = k /\ full.links = {} /\ ~ full.asked
        /\ full.mem_pool = << >> /\ full.candidate = None /\ full.draws = 0
    BY <2>5, <2>6 DEF Peer
  <2> HIDE DEF full
  <2>8. peer = plain \/ peer = full
    OBVIOUS
  <2> HIDE DEF peer
  <2>9. GoodPeer(K, chains, outside, peer) /\ peer.kind = k
    BY <2>2, <2>6, <2>7, <2>8, FreshGood
  <2> QED BY <1>1, <2>1, <2>2, <2>9, PowLabel, TurnBegins
<1>4. CASE pos_start_new_blockchain
  <2> DEFINE k == "pos"
             base == Served(NewPeer(k, TRUE))
             object == ChainObject(k)
             chains == Chain(k, <<genesis_block(New)>>)
             peer == [base EXCEPT !.chain = object, !.tasks = pos_run_forever]
  <2>1. MayBegin(k) /\ Begins(peer, "pos", chains)
    BY <1>4 DEF pos_start_new_blockchain
  <2>2. chains \in [Kind -> Chains(K)] /\ Stay(instance, chains) /\ chains[k] # << >> /\ k \in Kind
    BY <1>1, <2>1, NewChain
  <2>3. /\ base \in Peer /\ base.kind = k /\ base.links = {} /\ ~ base.asked
        /\ base.mem_pool = << >> /\ base.candidate = None /\ base.draws = 0
    BY <2>2, ServedNew
  <2>4. object \in {"None", "Chain", "Blank"}
    BY DEF ChainObject
  <2>5. pos_run_forever \in SUBSET {"find", "disc", "mine", "round", "reset"}
    BY DEF pos_run_forever
  <2> HIDE DEF base, object, chains
  <2>6. /\ peer \in Peer /\ peer.kind = k /\ peer.links = {} /\ ~ peer.asked
        /\ peer.mem_pool = << >> /\ peer.candidate = None /\ peer.draws = 0
    BY <2>3, <2>4, <2>5 DEF Peer
  <2> HIDE DEF peer
  <2>7. GoodPeer(K, chains, outside, peer)
    BY <2>2, <2>6, FreshGood
  <2> QED BY <1>1, <2>1, <2>2, <2>6, <2>7, PowLabel, TurnBegins
<1> QED BY <1>2, <1>3, <1>4

LEMMA TurnConnects ==
  ASSUME HostInv,
         (\E miner \in Miner : pow_connect_to_blockchain(miner))
           \/ poa_connect_to_blockchain \/ pos_connect_to_blockchain
  PROVE  HostInv'
<1>1. PICK K \in SUBSET Tx : TxInv(K, count.txs, instance, outside, heard, peers)
  BY HostNow
<1>2. ASSUME NEW k, MayBegin(k), NEW miner \in BOOLEAN,
             NEW tasks \in SUBSET {"find", "disc", "mine", "round", "reset"},
             NEW label \in Labels,
             Begins([Dialing(NewPeer(k, miner)) EXCEPT !.tasks = tasks], label, instance)
      PROVE  HostInv'
  <2> DEFINE new == NewPeer(k, miner)
             base == Served(new)
             free == PortFree(new.kind)
             dial == [base EXCEPT !.dialing = free]
             peer == [dial EXCEPT !.tasks = tasks]
  <2>1. Begins(peer, label, instance)
    BY <1>2 DEF Dialing
  <2>2. k \in Kind
    BY <1>2 DEF MayBegin
  <2>3. /\ base \in Peer /\ base.kind = k /\ base.links = {} /\ ~ base.asked
        /\ base.mem_pool = << >> /\ base.candidate = None /\ base.draws = 0
        /\ base.chain = "None"
    BY <1>2, <2>2, ServedNew
  <2>4. free \in BOOLEAN
    BY DEF PortFree
  <2> HIDE DEF base, free
  <2>5. /\ peer \in Peer /\ peer.kind = k /\ peer.links = {} /\ ~ peer.asked
        /\ peer.mem_pool = << >> /\ peer.candidate = None /\ peer.draws = 0
        /\ peer.chain = "None"
    BY <1>2, <2>3, <2>4 DEF Peer
  <2> HIDE DEF peer
  <2>6. GoodPeer(K, instance, outside, peer)
    BY <2>5, FreshGood
  <2>7. instance \in [Kind -> Chains(K)] /\ Stay(instance, instance)
    BY <1>1 DEF TxInv, Stay
  <2> QED BY <1>1, <1>2, <2>1, <2>5, <2>6, <2>7, TurnBegins
<1>3. ASSUME NEW miner \in Miner, pow_connect_to_blockchain(miner) PROVE HostInv'
  <2>1. miner \in BOOLEAN
    BY WebAssumption DEF WebAssumption
  <2>2. pow_run_forever(miner) \in SUBSET {"find", "disc", "mine", "round", "reset"}
    BY DEF pow_run_forever
  <2>3. /\ MayBegin("pow")
        /\ Begins([Dialing(NewPeer("pow", miner)) EXCEPT !.tasks = pow_run_forever(miner)],
                  "pow", instance)
    BY <1>3 DEF pow_connect_to_blockchain
  <2> QED BY <1>2, <2>1, <2>2, <2>3, PowLabel
<1>4. CASE poa_connect_to_blockchain
  <2>1. poa_run_forever \in SUBSET {"find", "disc", "mine", "round", "reset"}
    BY DEF poa_run_forever
  <2>2. /\ MayBegin("poa")
        /\ Begins([Dialing(NewPeer("poa", FALSE)) EXCEPT !.tasks = poa_run_forever],
                  "poa", instance)
    BY <1>4 DEF poa_connect_to_blockchain
  <2>3. "poa" \in Labels
    BY <2>2 DEF MayBegin, Labels
  <2> QED BY <1>2, <2>1, <2>2, <2>3
<1>5. CASE pos_connect_to_blockchain
  <2>1. pos_run_forever \in SUBSET {"find", "disc", "mine", "round", "reset"}
    BY DEF pos_run_forever
  <2>2. /\ MayBegin("pos")
        /\ Begins([Dialing(NewPeer("pos", TRUE)) EXCEPT !.tasks = pos_run_forever],
                  "pow", instance)
    BY <1>5 DEF pos_connect_to_blockchain
  <2> QED BY <1>2, <2>1, <2>2, PowLabel
<1> QED BY <1>3, <1>4, <1>5

-----------------------------------------------------------------------------
(***************************************************************************)
(* Stopping.                                                               *)
(***************************************************************************)
LEMMA StopGood ==
  ASSUME NEW K, NEW chains, NEW outs, NEW peer, GoodPeer(K, chains, outs, peer)
  PROVE  /\ GoodPeer(K, chains, outs, stop(peer))
         /\ stop(peer).kind = peer.kind /\ stop(peer).server # "open"
         /\ stop(peer).server \in {"open", "closing"} => peer.server \in {"open", "closing"}
<1> DEFINE after == stop(peer)
           state == IF peer.server = "open" THEN "closing" ELSE peer.server
<1>1. /\ peer \in Peer /\ peer.kind \in {"pow", "poa", "pos"}
      /\ "in" \in peer.links => peer.server \in {"open", "closing"}
      /\ peer.mem_pool \in Seq(Marked(K, peer)) /\ DistinctIds(peer.mem_pool)
      /\ peer.candidate # None => peer.kind = "pow"
      /\ peer.asked => peer.links # {} /\ outs[peer.kind] # << >>
      /\ peer.mem_pool # << >> \/ peer.chain # "None" => chains[peer.kind] # << >>
      /\ peer.kind # "pos" => peer.draws = 0
  BY WebAssumption DEF GoodPeer, Peer, WebAssumption
<1>2. /\ state \in {"none", "closing", "closed"}
      /\ state \in {"open", "closing"} <=> peer.server \in {"open", "closing"}
  BY <1>1 DEF Peer
<1>3. /\ after \in Peer /\ after.kind = peer.kind /\ after.server = state
      /\ after.links = peer.links /\ after.asked = peer.asked /\ after.chain = peer.chain
      /\ after.seen = peer.seen /\ after.mem_pool = peer.mem_pool /\ after.draws = peer.draws
      /\ after.candidate = None
  <2>1. CASE peer.kind = "pow"
    <3>1. after = [peer EXCEPT !.tasks = peer.tasks \ {"disc", "find", "mine"},
                               !.candidate = None, !.server = state]
      BY <2>1 DEF stop, pow_stop
    <3> HIDE DEF after, state
    <3> QED BY <1>1, <1>2, <3>1 DEF Peer
  <2>2. CASE peer.kind = "poa"
    <3>1. after = [peer EXCEPT !.tasks = peer.tasks \ {"disc", "find", "round"},
                               !.server = state]
      BY <2>2 DEF stop, poa_stop
    <3>2. peer.candidate = None
      BY <1>1, <2>2
    <3> HIDE DEF after, state
    <3> QED BY <1>1, <1>2, <3>1, <3>2 DEF Peer
  <2>3. CASE peer.kind = "pos"
    <3>1. after = [peer EXCEPT !.tasks = peer.tasks \ {"disc", "find", "reset"},
                               !.server = state]
      BY <2>3 DEF stop, pos_stop
    <3>2. peer.candidate = None
      BY <1>1, <2>3
    <3> HIDE DEF after, state
    <3> QED BY <1>1, <1>2, <3>1, <3>2 DEF Peer
  <2> QED BY <1>1, <2>1, <2>2, <2>3
<1> HIDE DEF after, state
<1>4. Marked(K, after) = Marked(K, peer)
  BY <1>3 DEF Marked
<1> HIDE DEF Marked
<1>5. GoodPeer(K, chains, outs, after)
  BY <1>1, <1>2, <1>3, <1>4 DEF GoodPeer
<1>6. after.server # "open" /\ after.kind = peer.kind
      /\ (after.server \in {"open", "closing"} => peer.server \in {"open", "closing"})
  BY <1>2, <1>3
<1> QED BY <1>5, <1>6 DEF after

LEMMA StoppedGood ==
  ASSUME NEW K, NEW chains, NEW outs, NEW peer, GoodPeer(K, chains, outs, peer),
         peer.server # "open"
  PROVE  /\ GoodPeer(K, chains, outs, Stopped(peer))
         /\ Stopped(peer).kind = peer.kind
         /\ Stopped(peer).server \notin {"open", "closing"}
<1> DEFINE after == Stopped(peer)
           state == IF peer.server = "closing" THEN "closed" ELSE peer.server
           left == peer.links \ {"in"}
           ask == peer.asked /\ left # {}
           closed == [peer EXCEPT !.server = state, !.links = left, !.asked = ask]
<1>1. /\ peer \in Peer
      /\ peer.mem_pool \in Seq(Marked(K, peer)) /\ DistinctIds(peer.mem_pool)
      /\ peer.candidate # None => /\ peer.kind = "pow" /\ "mine" \in peer.tasks
                                  /\ chains[peer.kind] # << >>
                                  /\ peer.candidate.transactions \in Seq(K)
                                  /\ DistinctIds(peer.candidate.transactions)
      /\ peer.asked => peer.links # {} /\ outs[peer.kind] # << >>
      /\ peer.mem_pool # << >> \/ peer.chain # "None" => chains[peer.kind] # << >>
      /\ peer.kind # "pos" => peer.draws = 0
  BY DEF GoodPeer
<1>2. state \in {"none", "closed"}
  BY <1>1 DEF Peer
<1>3. left \in SUBSET {"in", "out"} /\ ask \in BOOLEAN /\ "in" \notin left
      /\ (ask => peer.asked /\ left # {})
  BY <1>1 DEF Peer
<1>4. after = IF peer.kind = "poa" THEN [closed EXCEPT !.miner = FALSE, !.tasks = peer.tasks \ {"mine"}]
                                   ELSE closed
  <2>1. closed.kind = peer.kind /\ closed.tasks = peer.tasks
    BY <1>1 DEF Peer
  <2>2. after = IF closed.kind = "poa"
                THEN [closed EXCEPT !.miner = FALSE, !.tasks = closed.tasks \ {"mine"}]
                ELSE closed
    <3>1. peer.kind = closed.kind
      BY <2>1
    <3> QED BY <3>1 DEF Stopped
  <2> QED BY <2>1, <2>2
<1> HIDE DEF after, state, left, ask
<1>5. /\ closed \in Peer /\ closed.kind = peer.kind /\ closed.server = state
      /\ closed.links = left /\ closed.asked = ask /\ closed.chain = peer.chain
      /\ closed.seen = peer.seen /\ closed.mem_pool = peer.mem_pool /\ closed.draws = peer.draws
      /\ closed.candidate = peer.candidate /\ closed.tasks = peer.tasks
  BY <1>1, <1>2, <1>3 DEF Peer
<1> HIDE DEF closed
<1>6. /\ after \in Peer /\ after.kind = peer.kind /\ after.server = state
      /\ after.links = left /\ after.asked = ask /\ after.chain = peer.chain
      /\ after.seen = peer.seen /\ after.mem_pool = peer.mem_pool /\ after.draws = peer.draws
      /\ after.candidate = peer.candidate /\ (peer.kind # "poa" => after.tasks = peer.tasks)
  <2>1. CASE peer.kind = "poa"
    <3>1. after = [closed EXCEPT !.miner = FALSE, !.tasks = peer.tasks \ {"mine"}]
      BY <1>4, <2>1
    <3> QED BY <1>5, <2>1, <3>1 DEF Peer
  <2>2. CASE peer.kind # "poa"
    BY <1>4, <1>5, <2>2
  <2> QED BY <2>1, <2>2
<1>7. Marked(K, after) = Marked(K, peer)
  BY <1>6 DEF Marked
<1> HIDE DEF Marked
<1>8. GoodPeer(K, chains, outs, after)
  BY <1>1, <1>3, <1>6, <1>7 DEF GoodPeer
<1>9. after.server \notin {"open", "closing"} /\ after.kind = peer.kind
  BY <1>2, <1>6
<1> QED BY <1>8, <1>9 DEF after

\* One peer's server closes.
LEMMA OneCloses ==
  ASSUME Controlled, NEW p \in DOMAIN peers, NEW peer \in Peer, peer.kind = peers[p].kind,
         peers' = [peers EXCEPT ![p] = peer]
  PROVE  /\ peers' \in Seq(Peer) /\ Len(peers') <= MaxStarts
         /\ DOMAIN peers' = DOMAIN peers /\ peers'[p] = peer
         /\ \A q \in DOMAIN peers \ {p} : peers'[q] = peers[q]
         /\ \A k \in Kind : running[k] # 0 => running[k] \in DOMAIN peers' /\ peers'[running[k]].kind = k
<1>1. peers \in Seq(Peer) /\ Len(peers) <= MaxStarts
  BY DEF Controlled
<1>2. /\ peers' \in Seq(Peer) /\ DOMAIN peers' = DOMAIN peers /\ Len(peers') = Len(peers)
      /\ peers'[p] = peer /\ \A q \in DOMAIN peers \ {p} : peers'[q] = peers[q]
  BY <1>1, OneChanged
<1>3. \A q \in DOMAIN peers : peers'[q].kind = peers[q].kind
  BY <1>2
<1>4. \A k \in Kind : running[k] # 0 => running[k] \in DOMAIN peers /\ peers[running[k]].kind = k
  BY DEF Controlled
<1> QED BY <1>1, <1>2, <1>3, <1>4

\* A request to stop the running peer, up to its wait.
LEMMA TurnStops ==
  ASSUME HostInv, NEW k \in Kind, running[k] # 0, NEW op \in {"stop", "shutdown"},
         peers' = [peers EXCEPT ![running[k]] = stop(peers[running[k]])],
         request' = Awaits(op, k),
         UNCHANGED <<consensus, running, instance, net_vars, count>>
  PROVE  HostInv'
<1> DEFINE p == running[k]
           peer == stop(peers[p])
<1>1. p \in DOMAIN peers /\ peers[p].kind = k
  BY RunningPeer
<1>2. PICK K \in SUBSET Tx : /\ TxInv(K, count.txs, instance, outside, heard, peers)
                             /\ GoodPeer(K, instance, outside, peers[p])
  BY <1>1, HostNow
<1>3. /\ GoodPeer(K, instance, outside, peer) /\ peer.kind = peers[p].kind
      /\ peer.server # "open"
      /\ peer.server \in {"open", "closing"} => peers[p].server \in {"open", "closing"}
  BY <1>1, <1>2, StopGood
<1>4. peers' = [peers EXCEPT ![p] = peer] /\ peer \in Peer /\ Controlled
  BY <1>3, HostNow DEF GoodPeer
<1>5. p = running[k]
  OBVIOUS
<1> HIDE DEF p, peer
<1>6. /\ peers' \in Seq(Peer) /\ Len(peers') <= MaxStarts
      /\ DOMAIN peers' = DOMAIN peers /\ peers'[p] = peer
      /\ \A q \in DOMAIN peers \ {p} : peers'[q] = peers[q]
      /\ \A j \in Kind : running[j] # 0 => running[j] \in DOMAIN peers' /\ peers'[running[j]].kind = j
  BY <1>1, <1>3, <1>4, OneCloses
<1>7. ServersAnswered'
  <2>1. ASSUME NEW q \in DOMAIN peers', peers'[q].server \in {"open", "closing"}
        PROVE  running'[peers'[q].kind] = q
    <3>1. peers[q].server \in {"open", "closing"} /\ peers'[q].kind = peers[q].kind
      BY <1>1, <1>3, <1>6, <2>1
    <3>2. running[peers[q].kind] = q
      BY <1>4, <1>6, <3>1 DEF Controlled, ServersAnswered
    <3> QED BY <3>1, <3>2
  <2> QED BY <2>1 DEF ServersAnswered
<1>8. /\ request' \in [op : {"stop", "shutdown"}, kind : Kind] /\ request'.kind = k
  BY DEF Awaits
<1>9. /\ running'[request'.kind] # 0 /\ peers'[running'[request'.kind]].server # "open"
  BY <1>3, <1>5, <1>6, <1>8
<1>10. Controlled'
  BY <1>4, <1>6, <1>7, <1>8, <1>9 DEF Controlled
<1>11. /\ instance' = instance /\ outside' = outside /\ heard' = heard /\ count' = count
  BY DEF net_vars
<1>12. TxInv(K, count.txs, instance, outside, heard, peers')
  <2>1. Stay(instance, instance) /\ Stay(outside, outside)
    BY DEF Stay
  <2>2. instance \in [Kind -> Chains(K)] /\ outside \in [Kind -> Chains(K)]
    BY <1>2 DEF TxInv
  <2>3. TxInv(K, count.txs, instance, outside, heard, [peers EXCEPT ![p] = peer])
    BY <1>1, <1>2, <1>3, <2>1, <2>2, TxTurn
  <2> QED BY <1>4, <2>3
<1>13. TxInv(K, count'.txs, instance', outside', heard', peers')
  BY <1>11, <1>12
<1> QED BY <1>10, <1>13 DEF HostInv

LEMMA TurnFinishStop == ASSUME HostInv, FinishStop PROVE HostInv'
<1> DEFINE k == request.kind
           p == running[k]
           peer == Stopped(peers[p])
<1>1. /\ request # None /\ request \in [op : {"stop", "shutdown"}, kind : Kind]
      /\ p # 0 /\ peers[p].server # "open" /\ Controlled
  BY HostNow DEF FinishStop, Controlled
<1>2. k \in Kind
  BY <1>1
<1>3. p \in DOMAIN peers /\ peers[p].kind = k
  BY <1>1, <1>2, RunningPeer
<1>4. PICK K \in SUBSET Tx : /\ TxInv(K, count.txs, instance, outside, heard, peers)
                             /\ GoodPeer(K, instance, outside, peers[p])
  BY <1>3, HostNow
<1>5. /\ GoodPeer(K, instance, outside, peer) /\ peer.kind = k
      /\ peer.server \notin {"open", "closing"}
  BY <1>1, <1>3, <1>4, StoppedGood
<1>6. /\ peers' = [peers EXCEPT ![p] = peer]
      /\ running' = running \/ running' = [running EXCEPT ![k] = 0]
      /\ consensus' \in Labels /\ request' = None
      /\ UNCHANGED <<instance, net_vars, count>>
  BY DEF FinishStop, Labels
<1>7. peer \in Peer
  BY <1>5 DEF GoodPeer
<1>8. p = running[k]
  OBVIOUS
<1> HIDE DEF p, peer, k
<1>9. /\ peers' \in Seq(Peer) /\ Len(peers') <= MaxStarts
      /\ DOMAIN peers' = DOMAIN peers /\ peers'[p] = peer
      /\ \A q \in DOMAIN peers \ {p} : peers'[q] = peers[q]
      /\ \A j \in Kind : running[j] # 0 => running[j] \in DOMAIN peers' /\ peers'[running[j]].kind = j
  BY <1>1, <1>3, <1>5, <1>6, <1>7, OneCloses
<1>10. running \in [Kind -> Nat]
  BY <1>1 DEF Controlled
<1>11. running' \in [Kind -> Nat] /\ \A j \in Kind : running'[j] # 0 => running'[j] = running[j]
  BY <1>2, <1>6, <1>10
<1>12. ServersAnswered'
  <2>1. ASSUME NEW q \in DOMAIN peers', peers'[q].server \in {"open", "closing"}
        PROVE  running'[peers'[q].kind] = q
    <3>1. q # p /\ q \in DOMAIN peers
      BY <1>5, <1>9, <2>1
    <3>2. peers'[q] = peers[q]
      BY <1>9, <3>1
    <3>3. running[peers[q].kind] = q
      BY <1>1, <2>1, <3>1, <3>2 DEF Controlled, ServersAnswered
    <3>4. peers[q].kind # k
      BY <1>8, <3>1, <3>3
    <3>5. peers[q].kind \in Kind
      <4>1. peers'[q] \in Peer
        BY <1>9, <2>1
      <4> QED BY <3>2, <4>1 DEF Peer
    <3>6. running'[peers[q].kind] = running[peers[q].kind]
      BY <1>6, <1>10, <3>4, <3>5
    <3> QED BY <3>2, <3>3, <3>6
  <2> QED BY <2>1 DEF ServersAnswered
<1>13. \A j \in Kind : running'[j] # 0 => running'[j] \in DOMAIN peers' /\ peers'[running'[j]].kind = j
  BY <1>9, <1>11
<1>14. count' \in Counts
  BY <1>1, <1>6 DEF Controlled
<1>15. Controlled'
  BY <1>6, <1>9, <1>11, <1>12, <1>13, <1>14 DEF Controlled
<1>16. /\ instance' = instance /\ outside' = outside /\ heard' = heard /\ count' = count
  BY <1>6 DEF net_vars
<1>17. TxInv(K, count.txs, instance, outside, heard, peers')
  <2>1. Stay(instance, instance) /\ Stay(outside, outside)
    BY DEF Stay
  <2>2. instance \in [Kind -> Chains(K)] /\ outside \in [Kind -> Chains(K)]
    BY <1>4 DEF TxInv
  <2> QED BY <1>3, <1>4, <1>5, <1>6, <2>1, <2>2, TxTurn
<1>18. TxInv(K, count'.txs, instance', outside', heard', peers')
  BY <1>16, <1>17
<1> QED BY <1>15, <1>18 DEF HostInv

-----------------------------------------------------------------------------
(***************************************************************************)
(* The invariant.                                                          *)
(***************************************************************************)
LEMMA HostStarts == Init => HostInv
<1> SUFFICES ASSUME Init PROVE HostInv
  OBVIOUS
<1>1. MaxStarts \in Nat /\ 0 \in Account
  BY WebAssumption DEF WebAssumption
<1>2. << >> \in Chains({})
  <2>1. DistinctIds(<< >>) /\ Apart(<< >>)
    BY DEF DistinctIds, Apart
  <2> QED BY <2>1 DEF Chains
<1>3. <<genesis_block(0)>> \in Chains({})
  BY <1>1, GenesisChain
<1> DEFINE first == <<genesis_block(0)>>
<1>4. /\ consensus = "" /\ running = [k \in Kind |-> 0] /\ request = None /\ peers = << >>
      /\ instance = [k \in Kind |-> << >>]
      /\ outside = [k \in Kind |-> IF k \in Elsewhere THEN first ELSE << >>]
      /\ heard = [k \in Kind |-> {}]
      /\ count = [txs |-> 0, blocks |-> 0, outside |-> 0, stakes |-> 0]
  BY DEF Init
<1>5. consensus \in Labels
  BY <1>4, Zenon DEF Labels
<1> HIDE DEF first
<1>6. instance \in [Kind -> Chains({})] /\ outside \in [Kind -> Chains({})]
  <2>1. instance = [k \in Kind |-> << >>]
    BY <1>4
  <2>2. outside = [k \in Kind |-> IF k \in Elsewhere THEN first ELSE << >>]
    BY <1>4
  <2> QED BY <1>2, <1>3, <2>1, <2>2 DEF first
<1>7. peers \in Seq(Peer) /\ DOMAIN peers = {} /\ Len(peers) = 0
  <2>1. peers = << >>
    BY <1>4
  <2> QED BY <2>1
<1>8. count \in Counts /\ count.txs = 0
  <2>1. count = [txs |-> 0, blocks |-> 0, outside |-> 0, stakes |-> 0]
    BY <1>4
  <2> QED BY <2>1 DEF Counts
<1>9. running \in [Kind -> Nat] /\ \A k \in Kind : running[k] = 0
  <2>1. running = [k \in Kind |-> 0]
    BY <1>4
  <2> QED BY <2>1
<1>10. heard \in [Kind -> SUBSET {}] /\ \A k \in Kind : IsFiniteSet(heard[k])
  <2>1. heard = [k \in Kind |-> {}]
    BY <1>4
  <2> QED BY <2>1, FS_EmptySet
<1>11. ServersAnswered
  BY <1>7 DEF ServersAnswered
<1>12. request = None
  BY <1>4
<1>13. Controlled
  BY <1>1, <1>5, <1>7, <1>8, <1>9, <1>11, <1>12 DEF Controlled
<1>14. UniqueIds({})
  BY DEF UniqueIds
<1>15. TxInv({}, count.txs, instance, outside, heard, peers)
  BY <1>6, <1>7, <1>10, <1>14 DEF TxInv
<1> QED BY <1>13, <1>15 DEF HostInv

LEMMA TurnRequests == ASSUME HostInv, Requests PROVE HostInv'
<1> USE WebAssumption
<1>1. ASSUME NEW k \in Kind, stop_peer(k) PROVE HostInv'
  BY <1>1, TurnStops DEF stop_peer
<1>2. CASE pow_Requests
  BY <1>1, <1>2, TurnStarts, TurnConnects, TurnAdds
     DEF pow_Requests, pow_stop_peer, pow_add_transaction
<1>3. CASE poa_Requests
  BY <1>1, <1>3, TurnStarts, TurnConnects, TurnAdds
     DEF poa_Requests, poa_stop_peer, poa_add_transaction
<1>4. CASE pos_Requests
  <2>1. CASE stake
    BY <2>1, TurnStakes DEF stake
  <2> QED BY <1>1, <1>4, <2>1, TurnStarts, TurnConnects, TurnAdds
          DEF pos_Requests, pos_stop_peer, pos_add_transaction
<1>5. CASE shutdown_peer
  BY <1>5, TurnStops DEF shutdown_peer
<1> QED BY <1>2, <1>3, <1>4, <1>5 DEF Requests

LEMMA HostStays == HostInv /\ [Next]_vars => HostInv'
<1> SUFFICES ASSUME HostInv, [Next]_vars PROVE HostInv'
  OBVIOUS
<1>1. CASE Requests
  BY <1>1, TurnRequests
<1>2. CASE FinishStop
  BY <1>2, TurnFinishStop
<1>3. ASSUME NEW p \in DOMAIN peers, Messages(p) PROVE HostInv'
  BY <1>3, TurnNewTx, TurnNewBlock, TurnChain, TurnChainRequest DEF Messages
<1>4. ASSUME NEW p \in DOMAIN peers, Tasks(p) PROVE HostInv'
  BY <1>4, TurnDiscover, TurnConnect, TurnAccept, TurnFind, TurnStartMining, TurnFinishMining,
     TurnMinesPoa, TurnDraws DEF Tasks, Connects, pow_mine_blocks
<1>5. ASSUME NEW k \in Kind, OutsideSends(k) \/ OutsideMakesBlock(k) PROVE HostInv'
  BY <1>5, TurnSends, TurnMakesOutside
<1>6. CASE UNCHANGED vars
  <2>1. /\ UNCHANGED <<web_vars, peers>> /\ count' = count
        /\ instance' = instance /\ outside' = outside /\ heard' = heard
    BY <1>6 DEF vars, net_vars
  <2>2. Controlled'
    BY <2>1, HostNow, ControlsRest
  <2>3. PICK K \in SUBSET Tx : TxInv(K, count.txs, instance, outside, heard, peers)
    BY HostNow
  <2>4. TxInv(K, count'.txs, instance', outside', heard', peers')
    BY <2>1, <2>3
  <2> QED BY <2>2, <2>4 DEF HostInv
<1> QED BY <1>1, <1>2, <1>3, <1>4, <1>5, <1>6 DEF Next

LEMMA HostAlways == Spec => []HostInv
<1>1. Init => HostInv
  BY HostStarts
<1>2. HostInv /\ [Next]_vars => HostInv'
  BY HostStays
<1> QED BY <1>1, <1>2, PTL DEF Spec

LEMMA HostImplies == HostInv => TypeOK /\ ServersAnswered /\ NoDuplicateTx
<1> SUFFICES ASSUME HostInv PROVE TypeOK /\ ServersAnswered /\ NoDuplicateTx
  OBVIOUS
<1>1. PICK K \in SUBSET Tx : TxInv(K, count.txs, instance, outside, heard, peers)
  BY HostNow
<1>2. Controlled
  BY HostNow
<1>3. ServersAnswered
  BY <1>2 DEF Controlled
<1>4. instance \in [Kind -> Chains(K)] /\ outside \in [Kind -> Chains(K)]
  BY <1>1 DEF TxInv
<1>5. instance \in [Kind -> Seq(Block)] /\ outside \in [Kind -> Seq(Block)]
  <2>1. Chains(K) \subseteq Seq(Block)
    BY DEF Chains
  <2> QED BY <1>4, <2>1
<1>6. heard \in [Kind -> SUBSET Tx]
  BY <1>1 DEF TxInv
<1>7. ASSUME NEW p \in DOMAIN peers
      PROVE  /\ "in" \in peers[p].links => peers[p].server \in {"open", "closing"}
             /\ peers[p].candidate # None => "mine" \in peers[p].tasks
             /\ peers[p].asked => Linked(p)
  <2>1. GoodPeer(K, instance, outside, peers[p])
    BY <1>1 DEF TxInv
  <2> QED BY <2>1 DEF GoodPeer, Linked
<1>8. TypeOK
  <2>1. consensus \in Kind \cup {"", "pow"}
    BY <1>2, Zenon DEF Controlled, Labels
  <2>2. peers \in Seq(Peer)
    BY <1>2 DEF Controlled
  <2>3. \A k \in Kind : running[k] # 0 => running[k] \in DOMAIN peers /\ peers[running[k]].kind = k
    BY <1>2 DEF Controlled
  <2> QED BY <1>5, <1>6, <1>7, <2>1, <2>2, <2>3, Zenon DEF TypeOK
<1>9. NoDuplicateTx
  <2>1. ASSUME NEW k \in Kind, NEW i \in DOMAIN instance[k], NEW j \in DOMAIN instance[k],
               NEW m \in DOMAIN instance[k][i].transactions,
               NEW n \in DOMAIN instance[k][j].transactions,
               instance[k][i].transactions[m].id = instance[k][j].transactions[n].id
        PROVE  i = j /\ m = n
    <3>1. instance[k] \in Chains(K)
      BY <1>4
    <3>2. Apart(instance[k]) /\ DistinctIds(instance[k][i].transactions)
      BY <3>1 DEF Chains
    <3>3. i = j
      BY <2>1, <3>2 DEF Apart
    <3> QED BY <2>1, <3>2, <3>3 DEF DistinctIds
  <2> QED BY <2>1 DEF NoDuplicateTx
<1> QED BY <1>3, <1>8, <1>9

(***************************************************************************)
(* The types of the process's state; a peer's fields fit each other and    *)
(* what the controllers call running is a peer of that kind, however the   *)
(* requests, the peers' tasks and what comes from elsewhere interleave.    *)
(***************************************************************************)
THEOREM WebTypeOK == Spec => []TypeOK
<1>1. HostInv => TypeOK
  BY HostImplies
<1> QED BY <1>1, HostAlways, PTL

(***************************************************************************)
(* A server that is open is the running peer's: neither stop_peer nor      *)
(* shutdown_peer, whose wait for the handlers lets everything else go on,  *)
(* leaves one behind that nobody can stop.                                 *)
(***************************************************************************)
THEOREM WebServersAnswered == Spec => []ServersAnswered
<1>1. HostInv => ServersAnswered
  BY HostImplies
<1> QED BY <1>1, HostAlways, PTL

(***************************************************************************)
(* The chain that the peers of a kind share, each mining from its own pool *)
(* and some after they were stopped, holds no transaction twice.           *)
(***************************************************************************)
THEOREM WebNoDuplicateTx == Spec => []NoDuplicateTx
<1>1. HostInv => NoDuplicateTx
  BY HostImplies
<1> QED BY <1>1, HostAlways, PTL

-----------------------------------------------------------------------------
(***************************************************************************)
(* Chains only grow.                                                       *)
(***************************************************************************)
Grown(chains, chains2) ==
  \A k \in Kind : chains2[k] # chains[k] => Len(chains2[k]) > Len(chains[k])

LEMMA GrownTo ==
  ASSUME NEW chains \in [Kind -> Seq(Block)], NEW k \in Kind, NEW list,
         list # chains[k] => Len(list) > Len(chains[k])
  PROVE  Grown(chains, [chains EXCEPT ![k] = list])
BY DEF Grown

LEMMA AppendGrows ==
  ASSUME NEW chains \in [Kind -> Seq(Block)], NEW k \in Kind, NEW block
  PROVE  Grown(chains, [chains EXCEPT ![k] = Append(chains[k], block)])
<1> DEFINE more == Append(chains[k], block)
<1>1. chains[k] \in Seq(Block)
  OBVIOUS
<1>2. Len(more) = Len(chains[k]) + 1 /\ Len(chains[k]) \in Nat
  BY <1>1
<1> HIDE DEF more
<1>3. Len(more) > Len(chains[k])
  BY <1>2
<1>4. Grown(chains, [chains EXCEPT ![k] = more])
  BY <1>3, GrownTo
<1> QED BY <1>4 DEF more

LEMMA ChainGrows ==
  ASSUME instance \in [Kind -> Seq(Block)], NEW k \in Kind, NEW list \in Seq(Block)
  PROVE  /\ Grown(instance, Chain(k, list))
         /\ Grown(instance, [instance EXCEPT ![k] = rewrite_chain(instance[k], list)])
<1>1. instance[k] \in Seq(Block) /\ Len(instance[k]) \in Nat /\ Len(list) \in Nat
  OBVIOUS
<1>2. Grown(instance, Chain(k, list))
  <2>1. CASE instance[k] = << >>
    <3>1. list # instance[k] => Len(list) > Len(instance[k])
      BY <2>1
    <3> QED BY <2>1, <3>1, GrownTo DEF Chain
  <2>2. CASE instance[k] # << >>
    BY <2>2 DEF Chain, Grown
  <2> QED BY <2>1, <2>2
<1>3. Grown(instance, [instance EXCEPT ![k] = rewrite_chain(instance[k], list)])
  <2> DEFINE next == rewrite_chain(instance[k], list)
  <2>1. next \in Seq(Block) /\ (next # instance[k] => Len(next) > Len(instance[k]))
    BY <1>1 DEF rewrite_chain
  <2> HIDE DEF next
  <2>2. Grown(instance, [instance EXCEPT ![k] = next])
    BY <2>1, GrownTo
  <2> QED BY <2>2 DEF next
<1> QED BY <1>2, <1>3

LEMMA AppendsGrow ==
  ASSUME instance \in [Kind -> Seq(Block)], NEW p \in DOMAIN peers, peers[p].kind \in Kind,
         NEW block, NEW peer, Appends(p, block, peer)
  PROVE  Grown(instance, instance')
<1>1. instance' = [instance EXCEPT ![peers[p].kind] = Append(instance[peers[p].kind], block)]
  BY DEF Appends
<1> QED BY <1>1, AppendGrows

LEMMA StepGrows == ASSUME HostInv, [Next]_vars PROVE Grown(instance, instance')
<1>1. PICK K \in SUBSET Tx : /\ TxInv(K, count.txs, instance, outside, heard, peers)
                             /\ \A p \in DOMAIN peers : GoodPeer(K, instance, outside, peers[p])
  BY HostNow
<1>2. instance \in [Kind -> Seq(Block)] /\ outside \in [Kind -> Seq(Block)]
  <2>1. Chains(K) \subseteq Seq(Block)
    BY DEF Chains
  <2>2. instance \in [Kind -> Chains(K)] /\ outside \in [Kind -> Chains(K)]
    BY <1>1 DEF TxInv
  <2> QED BY <2>1, <2>2
<1>3. \A p \in DOMAIN peers : peers[p].kind \in Kind
  BY <1>1 DEF GoodPeer, Peer
<1>4. ASSUME instance' = instance PROVE Grown(instance, instance')
  BY <1>4 DEF Grown
<1>5. ASSUME NEW k, MayBegin(k), NEW peer, NEW label,
             Begins(peer, label, Chain(k, <<genesis_block(New)>>))
      PROVE  Grown(instance, instance')
  <2>1. k \in Kind /\ instance' = Chain(k, <<genesis_block(New)>>)
    BY <1>5 DEF MayBegin, Begins
  <2>2. <<genesis_block(New)>> \in Seq(Block)
    <3>1. <<genesis_block(New)>> \in Chains(K)
      <4>1. Len(peers) \in Nat /\ Len(peers) < MaxStarts
        BY <1>1, <1>5 DEF TxInv, MayBegin
      <4>2. New \in Account
        BY <4>1, HostNow, WebAssumption DEF New, WebAssumption
      <4> QED BY <4>2, GenesisChain
    <3> QED BY <3>1 DEF Chains
  <2> QED BY <1>2, <2>1, <2>2, ChainGrows
<1>6. CASE Requests
  <2>1. ASSUME NEW k, add_transaction(k) \/ stop_peer(k) PROVE instance' = instance
    BY <2>1 DEF add_transaction, stop_peer
  <2>2. CASE pow_Requests
    <3>1. ASSUME NEW miner \in Miner, pow_start_new_blockchain(miner) PROVE Grown(instance, instance')
      BY <1>5, <3>1 DEF pow_start_new_blockchain
    <3>2. ASSUME NEW miner \in Miner, pow_connect_to_blockchain(miner) PROVE instance' = instance
      BY <3>2 DEF pow_connect_to_blockchain, Begins
    <3> QED BY <1>4, <2>1, <2>2, <3>1, <3>2 DEF pow_Requests, pow_stop_peer, pow_add_transaction
  <2>3. CASE poa_Requests
    <3>1. ASSUME poa_start_new_blockchain PROVE Grown(instance, instance')
      BY <1>5, <3>1 DEF poa_start_new_blockchain
    <3>2. ASSUME poa_connect_to_blockchain PROVE instance' = instance
      BY <3>2 DEF poa_connect_to_blockchain, Begins
    <3> QED BY <1>4, <2>1, <2>3, <3>1, <3>2 DEF poa_Requests, poa_stop_peer, poa_add_transaction
  <2>4. CASE pos_Requests
    <3>1. ASSUME pos_start_new_blockchain PROVE Grown(instance, instance')
      BY <1>5, <3>1 DEF pos_start_new_blockchain
    <3>2. ASSUME pos_connect_to_blockchain \/ stake PROVE instance' = instance
      BY <3>2 DEF pos_connect_to_blockchain, Begins, stake
    <3> QED BY <1>4, <2>1, <2>4, <3>1, <3>2 DEF pos_Requests, pos_stop_peer, pos_add_transaction
  <2>5. CASE shutdown_peer
    BY <1>4, <2>5 DEF shutdown_peer
  <2> QED BY <1>6, <2>2, <2>3, <2>4, <2>5 DEF Requests
<1>7. CASE FinishStop
  BY <1>4, <1>7 DEF FinishStop
<1>8. ASSUME NEW p \in DOMAIN peers, Messages(p) PROVE Grown(instance, instance')
  <2> DEFINE k == peers[p].kind
  <2>1. k \in Kind
    BY <1>3
  <2>2. ASSUME NEW link, NEW tx, HandleNewTx(p, link, tx) PROVE instance' = instance
    BY <2>2 DEF HandleNewTx
  <2>3. ASSUME NEW link, NEW block, HandleNewBlock(p, link, block)
        PROVE  \/ instance' = instance
               \/ instance' = [instance EXCEPT ![k] = Append(instance[k], block)]
    BY <2>3 DEF HandleNewBlock
  <2>4. ASSUME NEW link, HandleChain(p, link)
        PROVE  \/ instance' = instance
               \/ instance' = Chain(k, outside[k])
               \/ instance' = [instance EXCEPT ![k] = rewrite_chain(instance[k], outside[k])]
    BY <2>4 DEF HandleChain
  <2>5. ASSUME NEW link, HandleChainRequest(p, link) PROVE instance' = instance
    BY <2>5 DEF HandleChainRequest
  <2> HIDE DEF k
  <2>6. ASSUME NEW link, NEW block, HandleNewBlock(p, link, block) PROVE Grown(instance, instance')
    <3>1. Grown(instance, [instance EXCEPT ![k] = Append(instance[k], block)])
      BY <1>2, <2>1, AppendGrows
    <3> QED BY <1>4, <2>3, <2>6, <3>1
  <2>7. ASSUME NEW link, HandleChain(p, link) PROVE Grown(instance, instance')
    <3>1. outside[k] \in Seq(Block)
      BY <1>2, <2>1
    <3> QED BY <1>2, <1>4, <2>1, <2>4, <2>7, <3>1, ChainGrows
  <2> QED BY <1>4, <1>8, <2>2, <2>5, <2>6, <2>7 DEF Messages
<1>9. ASSUME NEW p \in DOMAIN peers, Tasks(p) PROVE Grown(instance, instance')
  <2>1. peers[p].kind \in Kind
    BY <1>3
  <2>2. ASSUME NEW block, NEW peer, Appends(p, block, peer) PROVE Grown(instance, instance')
    BY <1>2, <2>1, <2>2, AppendsGrow
  <2>3. CASE Connects(p) \/ find_longest_chain(p) \/ pow_StartMining(p)
    BY <1>4, <2>3 DEF Connects, discover_peers, connect_to_peer, handle_connections,
                      find_longest_chain, pow_StartMining
  <2>4. CASE pow_FinishMining(p)
    BY <1>4, <2>2, <2>4 DEF pow_FinishMining
  <2>5. CASE poa_mine_blocks(p)
    BY <1>4, <2>2, <2>5 DEF poa_mine_blocks
  <2>6. CASE pos_create_blocks(p)
    BY <1>4, <2>2, <2>6 DEF pos_create_blocks
  <2> QED BY <1>9, <2>3, <2>4, <2>5, <2>6 DEF Tasks, pow_mine_blocks
<1>10. ASSUME NEW k \in Kind, OutsideSends(k) \/ OutsideMakesBlock(k) PROVE Grown(instance, instance')
  BY <1>4, <1>10 DEF OutsideSends, OutsideMakesBlock
<1>11. CASE UNCHANGED vars
  BY <1>4, <1>11 DEF vars
<1> QED BY <1>6, <1>7, <1>8, <1>9, <1>10, <1>11 DEF Next

(***************************************************************************)
(* Whatever is started, stopped and connected, the process never trades    *)
(* the chain of a kind for one that is not longer.                         *)
(***************************************************************************)
THEOREM WebChainKept == Spec => ChainKept
<1>1. HostInv /\ [Next]_vars
        => [\A k \in Kind : instance'[k] # instance[k] => Len(instance'[k]) > Len(instance[k])]_vars
  BY StepGrows DEF Grown
<1> QED BY <1>1, HostAlways, PTL DEF Spec, ChainKept

=============================================================================
