-------------------------- MODULE PoaNetworkProofs --------------------------
(***************************************************************************)
(* Theorems about PoaNetwork.  For any peers, connections and bounds: its  *)
(* variables are well typed, a chain that passes isvalidChain overdraws    *)
(* nobody and every peer's chain passes it, and the peers implement        *)
(* ChainReplica.  For one schedule: no forks, and what the admin decides   *)
(* is carried out; and where everyone is connected with the admin, all     *)
(* peers come to expect the same miners.                                   *)
(***************************************************************************)
EXTENDS PoaNetwork, LedgerProofs

-----------------------------------------------------------------------------
(***************************************************************************)
(* Balances.  credit and debit are what the transactions of a block bring  *)
(* pk and cost it.                                                         *)
(***************************************************************************)
Credits(txs, pk) == [k \in DOMAIN txs |-> TxCredit(txs[k], pk)]

Debits(txs, pk) == [k \in DOMAIN txs |-> IF txs[k].sender = pk THEN txs[k].amount ELSE 0]

Balances(c, pk, i) == SumTo([j \in 1..i |-> BlockCredit(c[j], pk)], i)

LEMMA CreditType ==
  ASSUME NEW txs \in Seq(Tx), NEW pk \in Account
  PROVE  /\ \A k \in 1..Len(txs) : /\ Credits(txs, pk)[k] \in Int
                                   /\ Debits(txs, pk)[k] \in Int
         /\ \A k \in 0..Len(txs) : /\ SumTo(Credits(txs, pk), k) \in Int
                                   /\ SumTo(Debits(txs, pk), k) \in Int
         /\ Len(txs) \in Nat
<1>1. /\ Len(txs) \in Nat /\ DOMAIN txs = 1..Len(txs)
      /\ \A k \in 1..Len(txs) : txs[k].amount \in Int
  <2>1. \A k \in 1..Len(txs) : txs[k] \in Tx
    OBVIOUS
  <2> QED BY <2>1 DEF Tx
<1>2. \A k \in 1..Len(txs) : /\ Credits(txs, pk)[k] \in Int
                             /\ Debits(txs, pk)[k] \in Int
  BY <1>1 DEF Credits, Debits, TxCredit
<1>3. ASSUME NEW k \in 0..Len(txs)
      PROVE  SumTo(Credits(txs, pk), k) \in Int /\ SumTo(Debits(txs, pk), k) \in Int
  <2>1. k \in Nat /\ \A i \in 1..k : i \in 1..Len(txs)
    BY <1>1
  <2> QED BY <1>2, <2>1, SumSame
<1> QED BY <1>1, <1>2, <1>3

LEMMA BlockCreditType ==
  ASSUME NEW b \in Block, NEW pk \in Account
  PROVE  /\ BlockCredit(b, pk) \in Int
         /\ BlockCredit(b, pk) >= SumTo(Credits(b.transactions, pk), Len(b.transactions))
<1>1. b.transactions \in Seq(Tx)
  BY DEF Block
<1>2. SumTo(Credits(b.transactions, pk), Len(b.transactions)) \in Int
  BY <1>1, CreditType
<1> QED BY <1>2 DEF BlockCredit, Credits, MinerReward

LEMMA BalanceStep ==
  ASSUME NEW c \in Seq(Block), NEW pk \in Account, NEW i \in 1..Len(c)
  PROVE  /\ Balances(c, pk, i - 1) \in Int
         /\ Balances(c, pk, i) = Balances(c, pk, i - 1) + BlockCredit(c[i], pk)
<1> DEFINE f == [j \in 1..i |-> BlockCredit(c[j], pk)]
           g == [j \in 1..(i-1) |-> BlockCredit(c[j], pk)]
<1>1. i \in Nat /\ i # 0 /\ i - 1 \in Nat
  OBVIOUS
<1>2. \A j \in 1..i : c[j] \in Block
  OBVIOUS
<1>3. \A j \in 1..i : f[j] \in Int
  BY <1>2, BlockCreditType
<1>4. \A j \in 1..(i-1) : f[j] \in Int /\ g[j] = f[j]
  BY <1>1, <1>3
<1>5. f[i] = BlockCredit(c[i], pk)
  BY <1>1
<1> HIDE DEF f, g
<1>6. SumTo(f, i) = SumTo(f, i - 1) + f[i]
  BY <1>1, <1>3, SumStep
<1>7. SumTo(f, i - 1) = SumTo(g, i - 1) /\ SumTo(f, i - 1) \in Int
  BY <1>1, <1>4, SumSame
<1> QED BY <1>5, <1>6, <1>7 DEF Balances, f, g

(***************************************************************************)
(* What pk spends in the first k transactions.                             *)
(***************************************************************************)
LEMMA PrefixSpending ==
  ASSUME NEW txs \in Seq(Tx), NEW pk \in Account, NEW k \in 0..Len(txs)
  PROVE  Spending(SubSeq(txs, 1, k), pk) = SumTo(Debits(txs, pk), k)
<1> DEFINE p == SubSeq(txs, 1, k)
           f == [j \in DOMAIN p |-> IF p[j].sender = pk THEN p[j].amount ELSE 0]
<1>1. /\ k \in Nat /\ Len(p) = k /\ DOMAIN p = 1..k
      /\ \A j \in 1..k : p[j] = txs[j] /\ j \in DOMAIN txs
  OBVIOUS
<1>2. \A j \in 1..k : Debits(txs, pk)[j] \in Int
  BY <1>1, CreditType
<1>3. \A j \in 1..k : f[j] = Debits(txs, pk)[j]
  <2> HIDE DEF p
  <2> QED BY <1>1 DEF Debits
<1>4. SumTo(Debits(txs, pk), k) = SumTo(f, k)
  <2> HIDE DEF f
  <2> QED BY <1>1, <1>2, <1>3, SumSame
<1>5. Spending(p, pk) = SumTo(f, Len(p))
  BY DEF Spending
<1> QED BY <1>1, <1>4, <1>5

LEMMA NothingPending ==
  ASSUME NEW pk
  PROVE  Spending(<< >>, pk) = 0
<1>1. Len(<< >>) = 0
  OBVIOUS
<1> QED BY <1>1, SumZero DEF Spending

(***************************************************************************)
(* Transactions that are covered one by one, each by what the chain so far *)
(* leaves after those before it, take no account below zero.               *)
(***************************************************************************)
LEMMA CoveredBlock ==
  ASSUME NEW c \in Seq(Block), NEW i \in 2..Len(c), ExtendsList(c, i),
         NEW pk \in Account, Balances(c, pk, i - 1) >= 0
  PROVE  Balances(c, pk, i) >= 0
<1> DEFINE txs == c[i].transactions
           B == Balances(c, pk, i - 1)
           credit(k) == SumTo(Credits(txs, pk), k)
           debit(k) == SumTo(Debits(txs, pk), k)
           Covered(k) == debit(k) <= B /\ credit(k) + debit(k) >= 0
<1>1. i \in 1..Len(c) /\ c[i] \in Block /\ txs \in Seq(Tx)
  <2>1. i \in 1..Len(c) /\ c[i] \in Block
    OBVIOUS
  <2> QED BY <2>1 DEF Block
<1>2. B \in Int /\ Balances(c, pk, i) = B + BlockCredit(c[i], pk)
  BY <1>1, BalanceStep
<1>3. /\ Len(txs) \in Nat /\ DOMAIN txs = 1..Len(txs)
      /\ \A k \in 0..Len(txs) : credit(k) \in Int /\ debit(k) \in Int
  BY <1>1, CreditType
<1>4. Covered(0)
  BY SumZero
<1>5. ASSUME NEW k \in 1..Len(txs), Covered(k - 1)
      PROVE  Covered(k)
  <2> DEFINE tx == txs[k]
  <2>1. tx \in Tx /\ tx.amount \in Int /\ k \in Nat /\ k # 0 /\ k - 1 \in 0..Len(txs)
        /\ k \in 0..Len(txs) /\ k \in DOMAIN txs
    <3>1. tx \in Tx
      BY <1>1
    <3> HIDE DEF tx, txs
    <3> QED BY <1>3, <3>1 DEF Tx
  <2>2. \A j \in 1..k : j \in 1..Len(txs)
    BY <1>3
  <2>3. debit(k) = debit(k - 1) + Debits(txs, pk)[k]
    <3>1. \A j \in 1..k : Debits(txs, pk)[j] \in Int
      BY <1>1, <2>2, CreditType
    <3> HIDE DEF txs
    <3> QED BY <2>1, <3>1, SumStep
  <2>4. credit(k) = credit(k - 1) + Credits(txs, pk)[k]
    <3>1. \A j \in 1..k : Credits(txs, pk)[j] \in Int
      BY <1>1, <2>2, CreditType
    <3> HIDE DEF txs
    <3> QED BY <2>1, <3>1, SumStep
  <2>5. /\ tx.amount > 0
        /\ tx.amount <= calc_balance_block_list(c, tx.sender, i - 1, SubSeq(txs, 1, k - 1))
    BY <2>1 DEF ExtendsList
  <2>6. tx.sender = pk => tx.amount <= B - debit(k - 1)
    <3>1. Spending(SubSeq(txs, 1, k - 1), pk) = debit(k - 1)
      <4> HIDE DEF txs
      <4> QED BY <1>1, <2>1, PrefixSpending
    <3>2. calc_balance_block_list(c, pk, i - 1, SubSeq(txs, 1, k - 1)) = B - debit(k - 1)
      <4> HIDE DEF txs
      <4> QED BY <3>1 DEF calc_balance_block_list, Balances
    <3> QED BY <2>5, <3>2
  <2>7. /\ Debits(txs, pk)[k] = IF tx.sender = pk THEN tx.amount ELSE 0
        /\ Credits(txs, pk)[k] = TxCredit(tx, pk)
    BY <2>1 DEF Debits, Credits
  <2>8. debit(k-1) \in Int /\ credit(k-1) \in Int
    BY <1>3, <2>1
  <2> HIDE DEF tx, txs, B, credit, debit
  <2>9. CASE tx.sender = pk
    <3>1. TxCredit(tx, pk) = - tx.amount
      BY <2>9 DEF TxCredit
    <3>2. /\ debit(k) = debit(k - 1) + tx.amount
          /\ credit(k) = credit(k - 1) - tx.amount
      <4>1. Debits(txs, pk)[k] = tx.amount /\ Credits(txs, pk)[k] = - tx.amount
        BY <2>7, <2>9, <3>1
      <4> QED BY <2>1, <2>3, <2>4, <2>8, <4>1
    <3>3. tx.amount <= B - debit(k - 1)
      BY <2>6, <2>9
    <3> QED BY <1>2, <1>5, <2>1, <2>8, <3>2, <3>3
  <2>10. CASE tx.sender # pk
    <3>1. TxCredit(tx, pk) \in {0, tx.amount}
      BY <2>10 DEF TxCredit
    <3> QED BY <1>2, <1>5, <2>1, <2>3, <2>4, <2>5, <2>7, <2>8, <2>10, <3>1
  <2> QED BY <2>9, <2>10
<1>6. \A k \in 0..Len(txs) : Covered(k)
  <2> HIDE DEF Covered, txs
  <2> DEFINE Bad == {k \in 0..Len(txs) : ~ Covered(k)}
  <2>1. SUFFICES ASSUME Bad # {} PROVE FALSE
    OBVIOUS
  <2>2. PICK k \in Bad : \A j \in Bad : k <= j
    <3>1. Bad \in SUBSET Nat
      OBVIOUS
    <3> HIDE DEF Bad
    <3> QED BY <2>1, <3>1, LeastElement
  <2>3. k \in 1..Len(txs) /\ k - 1 \in 0..Len(txs) /\ k - 1 \notin Bad
    BY <1>3, <1>4, <2>2
  <2> QED BY <1>5, <2>2, <2>3
<1>7. Covered(Len(txs)) /\ credit(Len(txs)) \in Int /\ debit(Len(txs)) \in Int
  <2>1. Len(txs) \in 0..Len(txs)
    BY <1>3
  <2> HIDE DEF Covered, txs, credit, debit
  <2> QED BY <1>3, <1>6, <2>1
<1>8. BlockCredit(c[i], pk) \in Int /\ BlockCredit(c[i], pk) >= credit(Len(txs))
  BY <1>1, BlockCreditType
<1> HIDE DEF txs, B, credit, debit
<1> QED BY <1>2, <1>7, <1>8

(***************************************************************************)
(* A chain that passes isvalidChain overdraws nobody at any height, if its *)
(* first block does not: what isvalidChain checks of each transaction      *)
(* alone is enough for all of them together, miners' rewards and incoming  *)
(* transfers included.                                                     *)
(***************************************************************************)
THEOREM ValidChainSolvent ==
  ASSUME NEW c \in Seq(Block), isvalidChain(c), NEW pk \in Account,
         c # << >>, calc_balance_block_list(c, pk, 1, << >>) >= 0,
         NEW i \in 1..Len(c)
  PROVE  calc_balance_block_list(c, pk, i, << >>) >= 0
<1> DEFINE Bad == {j \in 1..Len(c) : ~ (Balances(c, pk, j) >= 0)}
<1>1. \A j \in 1..Len(c) :
        /\ Balances(c, pk, j) \in Int
        /\ calc_balance_block_list(c, pk, j, << >>) = Balances(c, pk, j)
  <2>1. ASSUME NEW j \in 1..Len(c) PROVE Balances(c, pk, j) \in Int
    <3>1. c[j] \in Block
      OBVIOUS
    <3>2. BlockCredit(c[j], pk) \in Int
      BY <3>1, BlockCreditType
    <3> QED BY <3>2, BalanceStep
  <2> QED BY <2>1, NothingPending DEF calc_balance_block_list, Balances
<1>2. Len(c) \in Nat /\ 1 \in 1..Len(c)
  OBVIOUS
<1>3. Bad = {}
  <2>1. SUFFICES ASSUME Bad # {} PROVE FALSE
    OBVIOUS
  <2>2. PICK j \in Bad : \A k \in Bad : j <= k
    <3>1. Bad \in SUBSET Nat
      OBVIOUS
    <3> HIDE DEF Bad
    <3> QED BY <2>1, <3>1, LeastElement
  <2>3. j # 1
    BY <1>1, <1>2, <2>2
  <2>4. j \in 2..Len(c) /\ j - 1 \in 1..Len(c) /\ j - 1 \notin Bad
    BY <1>2, <2>2, <2>3
  <2>5. Balances(c, pk, j - 1) >= 0 /\ ExtendsList(c, j)
    BY <2>4 DEF isvalidChain
  <2> QED BY <2>2, <2>4, <2>5, CoveredBlock
<1> QED BY <1>1, <1>3

-----------------------------------------------------------------------------
(***************************************************************************)
(* The inductive invariant.  Every block that a peer holds or has on the   *)
(* way is one that was made; every chain starts with the first block and   *)
(* every peer's own passes isvalidChain; a peer without a chain mines and  *)
(* schedules nothing.                                                      *)
(***************************************************************************)
KnownBlock == {minted[i] : i \in DOMAIN minted}

KnownChain == {c \in Seq(KnownBlock) : c # << >> => c[1] = first}

KnownMsg == [type : {"new_tx"}, transaction : Tx]
  \cup [type : {"new_block"}, block : KnownBlock]
  \cup [type : {"miners_list_update"}, number : Nat, entry : Entry]
  \cup [type : {"network_details_request"}]
  \cup [type : {"network_details"}, admin : Node \cup {None}, miners : Seq(Entry)]
  \cup [type : {"chain_request"}]
  \cup [type : {"chain"}, chain : KnownChain]

MintedInOrder ==
  /\ minted \in Seq(Block)
  /\ minted # << >>
  /\ minted[1] = first
  /\ \A i \in DOMAIN minted : minted[i].hash = i - 1

Ids == {"new_tx", "new_block", "miners_list_update"} \X Nat

LateTask == [task : Nat, miners_list : Seq(Account)]

\* What handlers of transactions and blocks write.
WorkOK ==
  /\ mem_pool \in [Node -> Seq(Tx)]
  /\ seen \in [Node -> SUBSET Ids]
  /\ created \in Nat

\* The schedule and who decides on it.
ScheduleOK ==
  /\ admin_id \in [Node -> Node \cup {None}]
  /\ miners \in [Node -> Seq(Entry)]
  /\ scheduled \in Seq(Entry)

\* Rounds and roles.
RolesOK ==
  /\ round \in [Node -> Nat]
  /\ waited \in [Node -> BOOLEAN]
  /\ miner \in [Node -> BOOLEAN]
  /\ miner_task \in [Node -> Nat \cup {None}]
  /\ live \in [Node -> SUBSET Nat]
  /\ late \in [Node -> SUBSET LateTask]

LinksOK ==
  /\ up \in SUBSET Conn
  /\ running \in SUBSET Node
  /\ drops \in Nat

Idle(n) == n # Founder /\ live[n] = {} /\ late[n] = {}

NetInv ==
  /\ WorkOK /\ ScheduleOK /\ RolesOK /\ LinksOK
  /\ MintedInOrder
  /\ chain \in [Node -> KnownChain]
  /\ inbox \in [Conn -> [Node -> Seq(KnownMsg)]]
  /\ \A n \in Node : chain[n] = << >> => Idle(n)

(***************************************************************************)
(* Every peer's chain is one that every other peer would accept.           *)
(***************************************************************************)
ChainsValid == \A n \in Node : isvalidChain(chain[n])

-----------------------------------------------------------------------------
(***************************************************************************)
(* Sending and reading.                                                    *)
(***************************************************************************)
LEMMA EndsAreNodes ==
  ASSUME NEW c \in Conn, NEW n \in Ends(c)
  PROVE  n \in Node /\ Other(c, n) \in Node
BY PoaAssumption DEF Ends, Other

LEMMA BroadcastType ==
  ASSUME NEW M, NEW msg \in M, NEW n \in Node,
         NEW boxes \in [Conn -> [Node -> Seq(M)]]
  PROVE  broadcast_message(n, msg, boxes) \in [Conn -> [Node -> Seq(M)]]
<1>1. ASSUME NEW c \in Conn, n \in Ends(c)
      PROVE  [boxes[c] EXCEPT ![Other(c, n)] = Append(@, msg)] \in [Node -> Seq(M)]
  <2>1. Other(c, n) \in Node
    BY <1>1, EndsAreNodes
  <2>2. boxes[c] \in [Node -> Seq(M)]
    OBVIOUS
  <2>3. Append(boxes[c][Other(c, n)], msg) \in Seq(M)
    BY <2>1, <2>2
  <2> QED BY <2>2, <2>3
<1> QED BY <1>1 DEF broadcast_message

LEMMA SendType ==
  ASSUME NEW M, NEW msg \in M, NEW c \in Conn, NEW n \in Ends(c),
         NEW boxes \in [Conn -> [Node -> Seq(M)]]
  PROVE  send_message(c, n, msg, boxes) \in [Conn -> [Node -> Seq(M)]]
<1>1. Other(c, n) \in Node
  BY EndsAreNodes
<1>2. boxes[c] \in [Node -> Seq(M)] /\ boxes[c][Other(c, n)] \in Seq(M)
  BY <1>1
<1>3. Append(boxes[c][Other(c, n)], msg) \in Seq(M)
  BY <1>2
<1>4. [boxes[c] EXCEPT ![Other(c, n)] = Append(boxes[c][Other(c, n)], msg)]
        \in [Node -> Seq(M)]
  BY <1>2, <1>3
<1> QED BY <1>4 DEF send_message

LEMMA ReadType ==
  ASSUME NEW M, inbox \in [Conn -> [Node -> Seq(M)]],
         NEW c \in Conn, NEW n \in Node, inbox[c][n] # << >>
  PROVE  /\ Head(inbox[c][n]) \in M
         /\ Read(c, n) \in [Conn -> [Node -> Seq(M)]]
<1>1. inbox[c] \in [Node -> Seq(M)] /\ inbox[c][n] \in Seq(M)
  OBVIOUS
<1>2. Head(inbox[c][n]) \in M /\ Tail(inbox[c][n]) \in Seq(M)
  BY <1>1
<1>3. [inbox[c] EXCEPT ![n] = Tail(@)] \in [Node -> Seq(M)]
  BY <1>1, <1>2
<1> QED BY <1>2, <1>3 DEF Read

LEMMA HandlerFailsType ==
  ASSUME NEW M, inbox \in [Conn -> [Node -> Seq(M)]], LinksOK, UNCHANGED running,
         NEW c \in Conn, NEW n \in Node, HandlerFails(c, n)
  PROVE  /\ inbox' \in [Conn -> [Node -> Seq(M)]]
         /\ LinksOK'
<1>1. inbox[c] \in [Node -> Seq(M)] /\ << >> \in Seq(M)
  OBVIOUS
<1>2. [inbox[c] EXCEPT ![n] = << >>] \in [Node -> Seq(M)]
  BY <1>1
<1> QED BY <1>2 DEF HandlerFails, LinksOK

LEMMA MarkSeenType ==
  ASSUME seen \in [Node -> SUBSET Ids], NEW n \in Node, NEW msg, MsgId(msg) \in Ids
  PROVE  MarkSeen(n, msg) \in [Node -> SUBSET Ids]
BY DEF MarkSeen

LEMMA MessageFields ==
  ASSUME NEW msg \in KnownMsg
  PROVE  /\ msg.type = "new_tx" => msg.transaction \in Tx
         /\ msg.type = "new_block" => msg.block \in KnownBlock
         /\ msg.type = "miners_list_update" => msg.number \in Nat /\ msg.entry \in Entry
         /\ msg.type = "network_details"
              => msg.admin \in Node \cup {None} /\ msg.miners \in Seq(Entry)
         /\ msg.type = "chain" => msg.chain \in KnownChain
BY DEF KnownMsg

LEMMA KnownAreBlocks ==
  ASSUME MintedInOrder
  PROVE  /\ KnownBlock \subseteq Block
         /\ \A c \in KnownChain : c \in Seq(KnownBlock) /\ c \in Seq(Block)
<1>1. KnownBlock \subseteq Block
  BY DEF MintedInOrder, KnownBlock
<1>2. Seq(KnownBlock) \subseteq Seq(Block)
  BY <1>1
<1> QED BY <1>1, <1>2 DEF KnownChain

LEMMA SameKnown ==
  ASSUME UNCHANGED minted
  PROVE  /\ KnownBlock' = KnownBlock
         /\ KnownChain' = KnownChain
         /\ KnownMsg' = KnownMsg
         /\ MintedInOrder => MintedInOrder'
<1>1. KnownBlock' = KnownBlock
  BY DEF KnownBlock
<1>2. KnownChain' = KnownChain
  BY <1>1 DEF KnownChain
<1>3. MintedInOrder => MintedInOrder'
  BY DEF MintedInOrder
<1> QED BY <1>1, <1>2, <1>3 DEF KnownMsg

LEMMA KnownGrows ==
  ASSUME MintedInOrder, NEW b \in Block, b.hash = Len(minted),
         minted' = Append(minted, b)
  PROVE  /\ MintedInOrder'
         /\ KnownBlock \subseteq KnownBlock' /\ b \in KnownBlock'
         /\ KnownChain \subseteq KnownChain'
         /\ KnownMsg \subseteq KnownMsg'
<1>1. /\ Len(minted) \in Nat /\ Len(minted) >= 1
      /\ minted' \in Seq(Block)
      /\ DOMAIN minted' = 1..(Len(minted) + 1)
      /\ DOMAIN minted = 1..Len(minted)
      /\ \A i \in DOMAIN minted : i \in DOMAIN minted' /\ minted'[i] = minted[i]
      /\ minted'[Len(minted) + 1] = b
  BY DEF MintedInOrder
<1>2. MintedInOrder'
  <2>1. minted'[1] = first /\ minted' # << >>
    BY <1>1 DEF MintedInOrder
  <2>2. \A i \in DOMAIN minted' : minted'[i].hash = i - 1
    BY <1>1 DEF MintedInOrder
  <2> QED BY <1>1, <2>1, <2>2 DEF MintedInOrder
<1>3. KnownBlock \subseteq KnownBlock' /\ b \in KnownBlock'
  BY <1>1 DEF KnownBlock
<1>4. KnownChain \subseteq KnownChain'
  <2> HIDE DEF KnownBlock
  <2> QED BY <1>3 DEF KnownChain
<1>5. KnownMsg \subseteq KnownMsg'
  BY <1>3, <1>4 DEF KnownMsg
<1> QED BY <1>2, <1>3, <1>4, <1>5

-----------------------------------------------------------------------------
(***************************************************************************)
(* The schedule.  Entries that are due, or past, are found at the head of  *)
(* the schedule, and there is a last one of them.                          *)
(***************************************************************************)
LEMMA CurrentMinersType ==
  ASSUME NEW c \in Seq(Block), c # << >>, NEW entries \in Seq(Entry)
  PROVE  get_current_miners_list(c, entries) \in Seq(Account)
<1> DEFINE due == DueEntries(entries, Len(c))
<1>1. CASE due = {}
  <2>1. lastBlock(c) \in Block
    BY DEF lastBlock
  <2> QED BY <1>1, <2>1 DEF get_current_miners_list, Block
<1>2. CASE due # {}
  <2>1. due \in SUBSET (0..Len(entries)) /\ Len(entries) \in Nat
        /\ \A i \in due : entries[i] \in Entry
    BY DEF DueEntries
  <2> HIDE DEF due
  <2>2. \E i \in due : \A j \in due : j <= i
    BY <1>2, <2>1, GreatestElement
  <2>3. (CHOOSE i \in due : \A j \in due : j <= i) \in due
    BY <2>2
  <2>4. entries[CHOOSE i \in due : \A j \in due : j <= i].miners_list \in Seq(Account)
    BY <2>1, <2>3 DEF Entry
  <2> QED BY <1>2, <2>4 DEF get_current_miners_list, due
<1> QED BY <1>1, <1>2

LEMMA DropPastType ==
  ASSUME NEW entries \in Seq(Entry), NEW len
  PROVE  drop_past_entries(entries, len) \in Seq(Entry)
<1> DEFINE gone == {i \in 0..Len(entries) :
                      \A j \in 1..i : entries[j].activation_block < len}
           last == CHOOSE i \in gone : \A j \in gone : j <= i
<1>1. Len(entries) \in Nat /\ 0 \in gone /\ gone \in SUBSET (0..Len(entries))
  OBVIOUS
<1>2. last \in 0..Len(entries)
  <2> HIDE DEF gone
  <2>1. \E i \in gone : \A j \in gone : j <= i
    BY <1>1, GreatestElement
  <2> QED BY <1>1, <2>1
<1>3. drop_past_entries(entries, len) = SubSeq(entries, 1 + last, Len(entries))
  BY DEF drop_past_entries
<1> HIDE DEF last
<1>4. \A i \in (1 + last)..Len(entries) : entries[i] \in Entry
  BY <1>1, <1>2
<1> QED BY <1>1, <1>2, <1>3, <1>4

LEMMA LatestType ==
  ASSUME NEW c \in Seq(Block), c # << >>, NEW entries \in Seq(Entry)
  PROVE  latest_list(c, entries) \in Seq(Account)
<1>1. lastBlock(c) \in Block
  BY DEF lastBlock
<1>2. entries # << >> => entries[Len(entries)] \in Entry
  OBVIOUS
<1> QED BY <1>1, <1>2 DEF latest_list, Block, Entry

(***************************************************************************)
(* Roles after a block.                                                    *)
(***************************************************************************)
LEMMA RoleType ==
  ASSUME RolesOK, NEW n \in Node, NEW yes \in BOOLEAN,
         NEW block \in Block, NEW caller, update_role(n, yes, block, caller)
  PROVE  /\ miner' \in [Node -> BOOLEAN]
         /\ miner_task' \in [Node -> Nat \cup {None}]
         /\ live' \in [Node -> SUBSET Nat]
         /\ late' \in [Node -> SUBSET LateTask]
         /\ \A m \in Node : m # n => live'[m] = live[m] /\ late'[m] = late[m]
<1>1. block.hash \in Nat
  BY DEF Block
<1>2. miner' \in [Node -> BOOLEAN] /\ miner_task' \in [Node -> Nat \cup {None}]
  BY <1>1 DEF RolesOK, update_role
<1>3. live' \in [Node -> SUBSET Nat] /\ \A m \in Node : m # n => live'[m] = live[m]
  BY <1>1 DEF RolesOK, update_role
<1>4. late' \in [Node -> SUBSET LateTask] /\ \A m \in Node : m # n => late'[m] = late[m]
  <2> USE DEF RolesOK
  <2>1. \A cancelled : {l \in late[n] : l.task \notin cancelled \cup {caller}} \in SUBSET LateTask
    OBVIOUS
  <2> QED BY <2>1 DEF update_role
<1> QED BY <1>2, <1>3, <1>4

LEMMA AfterBlockType ==
  ASSUME RolesOK, ScheduleOK, UNCHANGED <<admin_id, scheduled>>, NEW n \in Node,
         NEW c \in Seq(Block), c # << >>, NEW caller, AfterBlock(n, c, caller)
  PROVE  /\ RolesOK' /\ ScheduleOK'
         /\ \A m \in Node : m # n => live'[m] = live[m] /\ late'[m] = late[m]
<1> DEFINE ahead == drop_past_entries(miners[n], Len(c))
           yes == Listed(n, get_current_miners_list(c, ahead))
<1>1. /\ round' = [round EXCEPT ![n] = 0]
      /\ waited' = [waited EXCEPT ![n] = FALSE]
      /\ miners' = [miners EXCEPT ![n] = ahead]
      /\ update_role(n, yes, lastBlock(c), caller)
  BY DEF AfterBlock
<1>2. ahead \in Seq(Entry)
  <2>1. miners[n] \in Seq(Entry)
    BY DEF ScheduleOK
  <2> QED BY <2>1, DropPastType
<1>3. yes \in BOOLEAN /\ lastBlock(c) \in Block
  BY DEF Listed, lastBlock
<1> HIDE DEF ahead, yes
<1>4. ScheduleOK'
  BY <1>1, <1>2 DEF ScheduleOK
<1>5. round' \in [Node -> Nat] /\ waited' \in [Node -> BOOLEAN]
  BY <1>1 DEF RolesOK
<1>6. /\ miner' \in [Node -> BOOLEAN]
      /\ miner_task' \in [Node -> Nat \cup {None}]
      /\ live' \in [Node -> SUBSET Nat]
      /\ late' \in [Node -> SUBSET LateTask]
      /\ \A m \in Node : m # n => live'[m] = live[m] /\ late'[m] = late[m]
  BY <1>1, <1>3, RoleType
<1> QED BY <1>4, <1>5, <1>6 DEF RolesOK

-----------------------------------------------------------------------------
(***************************************************************************)
(* Each action preserves the invariant: transactions.                      *)
(***************************************************************************)
LEMMA CreateStep ==
  ASSUME NetInv, NEW n \in Node, NEW rec \in Account, NEW amt \in Amount,
         create_and_broadcast_tx(n, rec, amt)
  PROVE  NetInv'
<1> DEFINE tx == [id |-> created + 1, sender |-> n, receiver |-> rec, amount |-> amt]
           msg == [type |-> "new_tx", transaction |-> tx]
<1>1. /\ WorkOK /\ chain[n] # << >>
      /\ created' = created + 1
      /\ seen' = MarkSeen(n, msg)
      /\ mem_pool' = [mem_pool EXCEPT ![n] = Append(@, tx)]
      /\ inbox' = broadcast_message(n, msg, inbox)
      /\ UNCHANGED <<chain, admin_id, miners, round, waited, taskVars, up, running, minted,
                     scheduled, drops>>
  BY DEF NetInv, create_and_broadcast_tx
<1>2. tx \in Tx
  <2>1. n \in Account /\ amt \in Int /\ created \in Nat
    BY <1>1, PoaAssumption DEF WorkOK
  <2> QED BY <2>1 DEF Tx
<1>3. msg \in KnownMsg /\ MsgId(msg) \in Ids
  BY <1>2 DEF KnownMsg, MsgId, Ids, Tx
<1> HIDE DEF tx, msg
<1>4. inbox' \in [Conn -> [Node -> Seq(KnownMsg)]]
  BY <1>1, <1>3, BroadcastType DEF NetInv
<1>5. WorkOK'
  <2>1. seen' \in [Node -> SUBSET Ids]
    BY <1>1, <1>3, MarkSeenType DEF WorkOK
  <2>2. Append(mem_pool[n], tx) \in Seq(Tx)
    BY <1>1, <1>2 DEF WorkOK
  <2>3. mem_pool' \in [Node -> Seq(Tx)] /\ created' \in Nat
    <3> HIDE DEF Tx
    <3> QED BY <1>1, <2>2 DEF WorkOK
  <2> QED BY <2>1, <2>3 DEF WorkOK
<1> QED BY <1>1, <1>4, <1>5, SameKnown
        DEF NetInv, ScheduleOK, RolesOK, LinksOK, Idle, taskVars

LEMMA HandleNewTxStep ==
  ASSUME NetInv, NEW c \in Conn, NEW n \in Ends(c), HandleNewTx(c, n)
  PROVE  NetInv'
<1> DEFINE msg == Head(inbox[c][n])
           tx == msg.transaction
<1>1. /\ n \in Node /\ WorkOK /\ LinksOK
      /\ seen' = MarkSeen(n, msg)
      /\ UNCHANGED <<chain, admin_id, miners, round, waited, taskVars, running, minted,
                     created, scheduled>>
  BY EndsAreNodes DEF NetInv, HandleNewTx
<1>2. msg \in KnownMsg /\ Read(c, n) \in [Conn -> [Node -> Seq(KnownMsg)]]
  BY <1>1, ReadType DEF NetInv, HandleNewTx, Reads
<1>3. tx \in Tx /\ MsgId(msg) \in Ids
  <2>1. msg.type = "new_tx"
    BY DEF HandleNewTx, Reads
  <2> HIDE DEF msg
  <2> QED BY <1>2, <2>1, MessageFields DEF MsgId, Ids, Tx
<1>4. seen' \in [Node -> SUBSET Ids]
  <2> HIDE DEF msg
  <2> QED BY <1>1, <1>3, MarkSeenType DEF WorkOK
<1>5. /\ mem_pool' \in [Node -> Seq(Tx)]
      /\ inbox' \in [Conn -> [Node -> Seq(KnownMsg)]]
      /\ LinksOK'
  <2>1. CASE inbox' = Read(c, n) /\ UNCHANGED <<mem_pool, up, drops>>
    BY <1>1, <1>2, <2>1 DEF WorkOK, LinksOK
  <2>2. CASE HandlerFails(c, n) /\ UNCHANGED mem_pool
    <3>1. inbox' \in [Conn -> [Node -> Seq(KnownMsg)]] /\ LinksOK'
      BY <1>1, <2>2, HandlerFailsType DEF NetInv
    <3> QED BY <1>1, <2>2, <3>1 DEF WorkOK
  <2>3. CASE /\ mem_pool' = [mem_pool EXCEPT ![n] = Append(@, tx)]
             /\ inbox' = broadcast_message(n, msg, Read(c, n))
             /\ UNCHANGED <<up, drops>>
    <3> HIDE DEF msg
    <3>1. inbox' \in [Conn -> [Node -> Seq(KnownMsg)]]
      BY <1>1, <1>2, <2>3, BroadcastType
    <3>2. Append(mem_pool[n], tx) \in Seq(Tx)
      BY <1>1, <1>3 DEF WorkOK
    <3> QED BY <1>1, <2>3, <3>1, <3>2 DEF WorkOK, LinksOK
  <2> QED BY <2>1, <2>2, <2>3 DEF HandleNewTx
<1> QED BY <1>1, <1>4, <1>5, SameKnown
        DEF NetInv, WorkOK, ScheduleOK, RolesOK, Idle, taskVars

-----------------------------------------------------------------------------
(***************************************************************************)
(* Blocks.                                                                 *)
(***************************************************************************)
LEMMA SweepPoolType ==
  ASSUME WorkOK, NEW n \in Node, NEW gone
  PROVE  /\ Sweep(mem_pool[n], gone).kept \in Seq(Tx)
         /\ Sweep(mem_pool[n], gone).taken \in Seq(Tx)
         /\ [mem_pool EXCEPT ![n] = Sweep(@, gone).kept] \in [Node -> Seq(Tx)]
<1>1. mem_pool[n] \in Seq(Tx) /\ mem_pool \in [Node -> Seq(Tx)]
  BY DEF WorkOK
<1>2. Sweep(mem_pool[n], gone).kept \in Seq(Tx) /\ Sweep(mem_pool[n], gone).taken \in Seq(Tx)
  BY <1>1, SweepType
<1> QED BY <1>1, <1>2

LEMMA AppendType ==
  ASSUME NEW S, NEW c \in Seq(S), NEW b \in S
  PROVE  /\ Append(c, b) \in Seq(S) /\ Append(c, b) # << >>
         /\ Len(Append(c, b)) = Len(c) + 1
         /\ Append(c, b)[Len(c) + 1] = b
         /\ \A i \in 1..Len(c) : Append(c, b)[i] = c[i]
         /\ c # << >> => Append(c, b)[1] = c[1]
OBVIOUS

LEMMA HandleNewBlockStep ==
  ASSUME NetInv, NEW c \in Conn, NEW n \in Ends(c), HandleNewBlock(c, n)
  PROVE  NetInv'
<1> DEFINE msg == Head(inbox[c][n])
           newBlock == msg.block
<1>1. /\ n \in Node /\ WorkOK /\ ScheduleOK /\ RolesOK /\ LinksOK /\ MintedInOrder
      /\ chain \in [Node -> KnownChain]
      /\ seen' = MarkSeen(n, msg)
      /\ UNCHANGED <<admin_id, running, minted, created, scheduled>>
  BY EndsAreNodes DEF NetInv, HandleNewBlock
<1>2. msg \in KnownMsg /\ Read(c, n) \in [Conn -> [Node -> Seq(KnownMsg)]]
  BY <1>1, ReadType DEF NetInv, HandleNewBlock, Reads
<1>3. newBlock \in KnownBlock /\ newBlock \in Block /\ MsgId(msg) \in Ids
  <2>1. msg.type = "new_block"
    BY DEF HandleNewBlock, Reads
  <2> HIDE DEF msg
  <2>2. newBlock \in KnownBlock /\ newBlock \in Block
    BY <1>1, <1>2, <2>1, MessageFields, KnownAreBlocks
  <2> QED BY <2>1, <2>2 DEF MsgId, Ids, Block
<1>4. seen' \in [Node -> SUBSET Ids]
  <2> HIDE DEF msg
  <2> QED BY <1>1, <1>3, MarkSeenType DEF WorkOK
<1>5. CASE inbox' = Read(c, n)
           /\ UNCHANGED <<chain, mem_pool, miners, round, waited, taskVars, up, drops>>
  BY <1>1, <1>2, <1>4, <1>5, SameKnown
     DEF NetInv, WorkOK, ScheduleOK, RolesOK, LinksOK, Idle, taskVars
<1>6. CASE HandlerFails(c, n) /\ UNCHANGED <<chain, mem_pool, miners, round, waited, taskVars>>
  <2>1. inbox' \in [Conn -> [Node -> Seq(KnownMsg)]] /\ LinksOK'
    BY <1>1, <1>6, HandlerFailsType DEF NetInv
  <2> QED BY <1>1, <1>4, <1>6, <2>1, SameKnown
          DEF NetInv, WorkOK, ScheduleOK, RolesOK, Idle, taskVars
<1>7. CASE /\ chain[n] # << >>
           /\ chain' = [chain EXCEPT ![n] = Append(@, newBlock)]
           /\ mem_pool' = [mem_pool EXCEPT ![n] = Sweep(@, InBlock(@, newBlock)).kept]
           /\ inbox' = broadcast_message(n, msg, Read(c, n))
           /\ AfterBlock(n, Append(chain[n], newBlock), None)
           /\ UNCHANGED <<up, drops>>
  <2> HIDE DEF msg
  <2>1. chain[n] \in Seq(KnownBlock) /\ chain[n] \in Seq(Block) /\ chain[n][1] = first
    BY <1>1, <1>7, KnownAreBlocks DEF KnownChain
  <2>2. /\ Append(chain[n], newBlock) \in KnownChain
        /\ Append(chain[n], newBlock) \in Seq(Block)
        /\ Append(chain[n], newBlock) # << >>
    <3>1. /\ Append(chain[n], newBlock) \in Seq(KnownBlock)
          /\ Append(chain[n], newBlock)[1] = first
      BY <1>3, <1>7, <2>1, AppendType
    <3>2. /\ Append(chain[n], newBlock) \in Seq(Block)
          /\ Append(chain[n], newBlock) # << >>
      BY <1>3, <2>1, AppendType
    <3> QED BY <3>1, <3>2 DEF KnownChain
  <2>3. chain' \in [Node -> KnownChain]
        /\ \A m \in Node : chain'[m] = << >> => m # n /\ chain[m] = << >>
    BY <1>1, <1>7, <2>2
  <2>4. mem_pool' \in [Node -> Seq(Tx)]
    BY <1>1, <1>7, SweepPoolType
  <2>5. inbox' \in [Conn -> [Node -> Seq(KnownMsg)]]
    BY <1>1, <1>2, <1>7, BroadcastType
  <2>6. /\ RolesOK' /\ ScheduleOK'
        /\ \A m \in Node : m # n => live'[m] = live[m] /\ late'[m] = late[m]
    BY <1>1, <1>7, <2>2, AfterBlockType
  <2>7. \A m \in Node : chain'[m] = << >> => Idle(m)'
    BY <2>3, <2>6 DEF NetInv, Idle
  <2> QED BY <1>1, <1>4, <1>7, <2>3, <2>4, <2>5, <2>6, <2>7, SameKnown
          DEF NetInv, WorkOK, LinksOK
<1> QED BY <1>5, <1>6, <1>7 DEF HandleNewBlock

\* task is in live[n], or n slept with it.
LEMMA MineBlockStep ==
  ASSUME NetInv, NEW n \in Node, NEW task, NEW miners_list \in Seq(Account),
         chain[n] # << >>, MineBlock(n, task, miners_list)
  PROVE  NetInv'
<1> DEFINE swept == Sweep(mem_pool[n], InChain(mem_pool[n], chain[n]))
           newBlock == [hash |-> Len(minted), prevHash |-> lastBlock(chain[n]).hash,
                        transactions |-> swept.taken, miner |-> n, miners_list |-> miners_list]
           msg == [type |-> "new_block", block |-> newBlock]
<1>1. /\ WorkOK /\ ScheduleOK /\ RolesOK /\ LinksOK /\ MintedInOrder
      /\ chain \in [Node -> KnownChain]
      /\ UNCHANGED <<admin_id, up, running, created, scheduled, drops>>
  BY DEF NetInv, MineBlock
<1>2. swept.kept \in Seq(Tx) /\ swept.taken \in Seq(Tx)
  BY <1>1, SweepPoolType
<1>3. CASE /\ mem_pool' = [mem_pool EXCEPT ![n] = swept.kept]
           /\ live' = [live EXCEPT ![n] = @] \/ live' = [live EXCEPT ![n] = @ \ {task}]
           /\ late' = [late EXCEPT ![n] = {l \in @ : l.task # task}]
           /\ UNCHANGED <<chain, seen, miners, round, waited, miner, miner_task, inbox, minted>>
  <2>1. WorkOK'
    <3> HIDE DEF swept
    <3> QED BY <1>1, <1>2, <1>3 DEF WorkOK
  <2>2. RolesOK' /\ \A m \in Node : m # n => live'[m] = live[m] /\ late'[m] = late[m]
    <3>1. live' \in [Node -> SUBSET Nat] /\ \A m \in Node : m # n => live'[m] = live[m]
      BY <1>1, <1>3 DEF RolesOK
    <3>2. late' \in [Node -> SUBSET LateTask] /\ \A m \in Node : m # n => late'[m] = late[m]
      BY <1>1, <1>3 DEF RolesOK
    <3> QED BY <1>1, <1>3, <3>1, <3>2 DEF RolesOK
  <2>3. \A m \in Node : chain'[m] = << >> => Idle(m)'
    BY <1>3, <2>2 DEF NetInv, Idle
  <2> QED BY <1>1, <1>3, <2>1, <2>2, <2>3, SameKnown DEF NetInv, ScheduleOK, LinksOK
<1>4. CASE /\ chain' = [chain EXCEPT ![n] = Append(@, newBlock)]
           /\ minted' = Append(minted, newBlock)
           /\ mem_pool' = [mem_pool EXCEPT ![n] =
                             Sweep(swept.kept, InBlock(swept.kept, newBlock)).kept]
           /\ seen' = MarkSeen(n, msg)
           /\ inbox' = broadcast_message(n, msg, inbox)
           /\ AfterBlock(n, Append(chain[n], newBlock), task)
  <2>1. chain[n] \in Seq(KnownBlock) /\ chain[n] \in Seq(Block) /\ chain[n][1] = first
    BY <1>1, KnownAreBlocks DEF KnownChain
  <2>2. newBlock \in Block /\ newBlock.hash = Len(minted) /\ Len(minted) \in Nat
    <3>1. lastBlock(chain[n]) \in Block
      BY <2>1 DEF lastBlock
    <3>2. lastBlock(chain[n]).hash \in Nat
      BY <3>1 DEF Block
    <3>3. Len(minted) \in Nat /\ n \in Account
      BY <1>1, PoaAssumption DEF MintedInOrder
    <3> HIDE DEF swept
    <3> QED BY <1>2, <3>2, <3>3 DEF Block
  <2>3. MsgId(msg) \in Ids
    <3>1. MsgId(msg) = <<"new_block", newBlock.hash>>
      BY DEF MsgId
    <3> HIDE DEF newBlock, msg
    <3> QED BY <2>2, <3>1 DEF Ids
  <2> HIDE DEF newBlock, swept
  <2>4. /\ MintedInOrder'
        /\ KnownBlock \subseteq KnownBlock' /\ newBlock \in KnownBlock'
        /\ KnownChain \subseteq KnownChain'
        /\ KnownMsg \subseteq KnownMsg'
    BY <1>1, <1>4, <2>2, KnownGrows
  <2>5. /\ Append(chain[n], newBlock) \in KnownChain'
        /\ Append(chain[n], newBlock) \in Seq(Block)
        /\ Append(chain[n], newBlock) # << >>
    <3>1. PICK L : L = KnownBlock'
      OBVIOUS
    <3>2. chain[n] \in Seq(L) /\ newBlock \in L
      BY <2>1, <2>4, <3>1
    <3>3. Append(chain[n], newBlock) \in Seq(L) /\ Append(chain[n], newBlock)[1] = first
      BY <2>1, <3>2, AppendType
    <3>4. /\ Append(chain[n], newBlock) \in Seq(Block)
          /\ Append(chain[n], newBlock) # << >>
      BY <2>1, <2>2, AppendType
    <3> QED BY <3>1, <3>3, <3>4 DEF KnownChain
  <2>6. chain' \in [Node -> KnownChain']
        /\ \A m \in Node : chain'[m] = << >> => m # n /\ chain[m] = << >>
    BY <1>1, <1>4, <2>4, <2>5
  <2>7. WorkOK'
    <3>1. seen' \in [Node -> SUBSET Ids]
      BY <1>1, <1>4, <2>3, MarkSeenType DEF WorkOK
    <3>2. Sweep(swept.kept, InBlock(swept.kept, newBlock)).kept \in Seq(Tx)
      BY <1>2, SweepType
    <3>3. mem_pool' \in [Node -> Seq(Tx)]
      BY <1>1, <1>4, <3>2 DEF WorkOK
    <3> QED BY <1>1, <3>1, <3>3 DEF WorkOK
  <2>8. inbox' \in [Conn -> [Node -> Seq(KnownMsg')]]
    <3>1. PICK M : M = KnownMsg'
      OBVIOUS
    <3>2. msg \in M
      BY <2>4, <3>1 DEF KnownMsg
    <3>3. inbox \in [Conn -> [Node -> Seq(M)]]
      <4>1. Seq(KnownMsg) \subseteq Seq(M)
        BY <2>4, <3>1
      <4>2. inbox \in [Conn -> [Node -> Seq(KnownMsg)]]
        BY DEF NetInv
      <4> HIDE DEF KnownMsg
      <4> QED BY <4>1, <4>2
    <3> HIDE DEF msg
    <3>4. inbox' \in [Conn -> [Node -> Seq(M)]]
      BY <1>4, <3>2, <3>3, BroadcastType
    <3> QED BY <3>1, <3>4
  <2>9. /\ RolesOK' /\ ScheduleOK'
        /\ \A m \in Node : m # n => live'[m] = live[m] /\ late'[m] = late[m]
    BY <1>1, <1>4, <2>5, AfterBlockType
  <2>10. \A m \in Node : chain'[m] = << >> => Idle(m)'
    BY <2>6, <2>9 DEF NetInv, Idle
  <2>11. LinksOK'
    BY <1>1 DEF LinksOK
  <2> QED BY <2>4, <2>6, <2>7, <2>8, <2>9, <2>10, <2>11 DEF NetInv
<1> QED BY <1>3, <1>4 DEF MineBlock

LEMMA MinerWakesStep ==
  ASSUME NetInv, NEW n \in Node, NEW task \in live[n], MinerWakes(n, task)
  PROVE  NetInv'
<1> DEFINE miners_list == get_current_miners_list(chain[n], miners[n])
<1>1. chain[n] # << >> /\ ScheduleOK /\ RolesOK /\ task \in Nat
  BY DEF NetInv, Idle, RolesOK
<1>2. miners_list \in Seq(Account)
  <2>1. chain[n] \in Seq(Block) /\ miners[n] \in Seq(Entry)
    BY KnownAreBlocks DEF NetInv, ScheduleOK
  <2> QED BY <1>1, <2>1, CurrentMinersType
<1> HIDE DEF miners_list
<1>3. CASE MineBlock(n, task, miners_list)
  BY <1>1, <1>2, <1>3, MineBlockStep
<1>4. CASE /\ \/ /\ late' = [late EXCEPT
                                ![n] = @ \cup {[task |-> task, miners_list |-> miners_list]}]
                 /\ UNCHANGED live
              \/ /\ live' = [live EXCEPT ![n] = @ \ {task}]
                 /\ UNCHANGED late
           /\ UNCHANGED <<peerVars, miner, miner_task, netVars, historyVars>>
  <2>1. [task |-> task, miners_list |-> miners_list] \in LateTask
    BY <1>1, <1>2 DEF LateTask
  <2>2. /\ late' \in [Node -> SUBSET LateTask] /\ live' \in [Node -> SUBSET Nat]
        /\ \A m \in Node : m # n => live'[m] = live[m] /\ late'[m] = late[m]
    <3>1. live \in [Node -> SUBSET Nat] /\ late \in [Node -> SUBSET LateTask]
      BY <1>1 DEF RolesOK
    <3>2. CASE /\ late' = [late EXCEPT
                             ![n] = @ \cup {[task |-> task, miners_list |-> miners_list]}]
               /\ UNCHANGED live
      BY <2>1, <3>1, <3>2
    <3>3. CASE live' = [live EXCEPT ![n] = @ \ {task}] /\ UNCHANGED late
      BY <3>1, <3>3
    <3> QED BY <1>4, <3>2, <3>3
  <2>3. RolesOK'
    BY <1>1, <1>4, <2>2 DEF RolesOK, peerVars
  <2>4. \A m \in Node : chain'[m] = << >> => Idle(m)'
    BY <1>1, <1>4, <2>2 DEF NetInv, Idle, peerVars
  <2> QED BY <1>4, <2>3, <2>4, SameKnown
          DEF NetInv, WorkOK, ScheduleOK, LinksOK, peerVars, netVars, historyVars
<1> QED BY <1>3, <1>4 DEF MinerWakes, miners_list

LEMMA LateMinerWakesStep ==
  ASSUME NetInv, NEW n \in Node, LateMinerWakes(n)
  PROVE  NetInv'
<1>1. PICK l \in late[n] : MineBlock(n, l.task, l.miners_list)
  BY DEF LateMinerWakes
<1>2. chain[n] # << >> /\ l \in LateTask
  BY DEF NetInv, Idle, RolesOK
<1>3. l.miners_list \in Seq(Account)
  BY <1>2 DEF LateTask
<1> QED BY <1>1, <1>2, <1>3, MineBlockStep

LEMMA RoundStep ==
  ASSUME NetInv, NEW n \in Node, StartWaiting(n) \/ ShiftMiner(n)
  PROVE  NetInv'
<1>1. RolesOK'
  <2>1. CASE StartWaiting(n)
    BY <2>1 DEF StartWaiting, NetInv, RolesOK, taskVars
  <2>2. CASE ShiftMiner(n)
    <3>1. round' \in [Node -> Nat]
      BY <2>2 DEF ShiftMiner, NetInv, RolesOK
    <3> QED BY <2>2, <3>1 DEF ShiftMiner, NetInv, RolesOK, taskVars
  <2> QED BY <2>1, <2>2
<1>2. UNCHANGED <<chain, mem_pool, seen, admin_id, miners, taskVars, netVars, historyVars>>
  BY DEF StartWaiting, ShiftMiner
<1> QED BY <1>1, <1>2, SameKnown
        DEF NetInv, WorkOK, ScheduleOK, LinksOK, Idle, taskVars, netVars, historyVars

-----------------------------------------------------------------------------
(***************************************************************************)
(* The schedule and the details.                                           *)
(***************************************************************************)
LEMMA ScheduleStep ==
  ASSUME NetInv, NEW n \in Node, chain[n] # << >>, NEW miners_list \in Seq(Account),
         schedule_miners(n, miners_list)
  PROVE  NetInv'
<1> DEFINE entry == [miners_list |-> miners_list,
                     activation_block |-> activation_block(Len(chain[n]))]
           msg == [type |-> "miners_list_update", number |-> Len(scheduled) + 1, entry |-> entry]
<1>1. /\ WorkOK /\ ScheduleOK
      /\ scheduled' = Append(scheduled, entry)
      /\ seen' = MarkSeen(n, msg)
      /\ miners' = [miners EXCEPT ![n] = Append(@, entry)]
      /\ inbox' = broadcast_message(n, msg, inbox)
      /\ UNCHANGED <<chain, mem_pool, admin_id, round, waited, taskVars, up, running, minted,
                     created, drops>>
  BY DEF NetInv, schedule_miners
<1>2. entry \in Entry
  <2>1. chain[n] \in Seq(KnownBlock)
    BY DEF NetInv, KnownChain
  <2>2. Len(chain[n]) \in Nat
    BY <2>1
  <2> QED BY <2>2 DEF Entry, activation_block
<1>3. msg \in KnownMsg /\ MsgId(msg) \in Ids
  <2>1. Len(scheduled) + 1 \in Nat
    BY <1>1 DEF ScheduleOK
  <2> HIDE DEF entry
  <2> QED BY <1>2, <2>1 DEF KnownMsg, MsgId, Ids
<1> HIDE DEF entry, msg
<1>4. inbox' \in [Conn -> [Node -> Seq(KnownMsg)]]
  BY <1>1, <1>3, BroadcastType DEF NetInv
<1>5. WorkOK'
  <2>1. seen' \in [Node -> SUBSET Ids]
    BY <1>1, <1>3, MarkSeenType DEF WorkOK
  <2> QED BY <1>1, <2>1 DEF WorkOK
<1>6. ScheduleOK'
  <2>1. Append(miners[n], entry) \in Seq(Entry) /\ Append(scheduled, entry) \in Seq(Entry)
    BY <1>1, <1>2 DEF ScheduleOK
  <2> QED BY <1>1, <2>1 DEF ScheduleOK
<1> QED BY <1>1, <1>4, <1>5, <1>6, SameKnown DEF NetInv, RolesOK, LinksOK, Idle, taskVars

LEMMA UserInputStep ==
  ASSUME NetInv, NEW n \in Node, NEW member \in Node, user_input_handler(n, member)
  PROVE  NetInv'
<1> DEFINE latest == latest_list(chain[n], miners[n])
<1>1. n = Founder /\ chain[n] # << >>
  BY DEF user_input_handler, NetInv, Idle
<1>2. latest \in Seq(Account)
  <2>1. chain[n] \in Seq(Block) /\ miners[n] \in Seq(Entry)
    BY KnownAreBlocks DEF NetInv, ScheduleOK
  <2> QED BY <1>1, <2>1, LatestType
<1>3. Append(latest, member) \in Seq(Account) /\ Without(latest, {member}) \in Seq(Account)
  <2>1. member \in Account
    BY PoaAssumption
  <2> HIDE DEF latest
  <2> QED BY <1>2, <2>1, WithoutType, AppendType
<1>4. schedule_miners(n, Append(latest, member)) \/ schedule_miners(n, Without(latest, {member}))
  BY DEF user_input_handler
<1> HIDE DEF latest
<1> QED BY <1>1, <1>3, <1>4, ScheduleStep

LEMMA HandleUpdateStep ==
  ASSUME NetInv, NEW c \in Conn, NEW n \in Ends(c), HandleMinersListUpdate(c, n)
  PROVE  NetInv'
<1> DEFINE msg == Head(inbox[c][n])
<1>1. /\ n \in Node /\ WorkOK /\ ScheduleOK
      /\ seen' = MarkSeen(n, msg)
      /\ UNCHANGED <<chain, mem_pool, admin_id, round, waited, taskVars, up, running,
                     historyVars>>
  BY EndsAreNodes DEF NetInv, HandleMinersListUpdate
<1>2. msg \in KnownMsg /\ Read(c, n) \in [Conn -> [Node -> Seq(KnownMsg)]]
  BY <1>1, ReadType DEF NetInv, HandleMinersListUpdate, Reads
<1>3. msg.entry \in Entry /\ MsgId(msg) \in Ids
  <2>1. msg.type = "miners_list_update"
    BY DEF HandleMinersListUpdate, Reads
  <2> HIDE DEF msg
  <2> QED BY <1>2, <2>1, MessageFields DEF MsgId, Ids
<1> HIDE DEF msg
<1>4. WorkOK'
  <2>1. seen' \in [Node -> SUBSET Ids]
    BY <1>1, <1>3, MarkSeenType DEF WorkOK
  <2> QED BY <1>1, <2>1 DEF WorkOK, historyVars
<1>5. inbox' \in [Conn -> [Node -> Seq(KnownMsg)]] /\ ScheduleOK'
  <2>1. CASE inbox' = Read(c, n) /\ UNCHANGED miners
    BY <1>1, <1>2, <2>1 DEF ScheduleOK, historyVars
  <2>2. CASE /\ miners' = [miners EXCEPT ![n] = learn(n, msg.entry)]
             /\ inbox' = broadcast_message(n, msg, Read(c, n))
    <3>1. inbox' \in [Conn -> [Node -> Seq(KnownMsg)]]
      BY <1>1, <1>2, <2>2, BroadcastType
    <3>2. learn(n, msg.entry) \in Seq(Entry)
      <4>1. miners[n] \in Seq(Entry)
        BY <1>1 DEF ScheduleOK
      <4> QED BY <1>3, <4>1, AppendType DEF learn
    <3> QED BY <1>1, <2>2, <3>1, <3>2 DEF ScheduleOK, historyVars
  <2> QED BY <2>1, <2>2 DEF HandleMinersListUpdate, msg
<1> QED BY <1>1, <1>4, <1>5, SameKnown
        DEF NetInv, RolesOK, LinksOK, Idle, taskVars, historyVars

LEMMA HandleDetailsRequestStep ==
  ASSUME NetInv, NEW c \in Conn, NEW n \in Ends(c), HandleDetailsRequest(c, n)
  PROVE  NetInv'
<1>1. /\ n \in Node
      /\ inbox' = send_message(c, n, network_details(n), Read(c, n))
      /\ UNCHANGED <<peerVars, taskVars, up, running, historyVars>>
  BY EndsAreNodes DEF HandleDetailsRequest
<1>2. Read(c, n) \in [Conn -> [Node -> Seq(KnownMsg)]]
  BY <1>1, ReadType DEF NetInv, HandleDetailsRequest, Reads
<1>3. network_details(n) \in KnownMsg
  BY <1>1 DEF NetInv, ScheduleOK, KnownMsg, network_details
<1>4. inbox' \in [Conn -> [Node -> Seq(KnownMsg)]]
  BY <1>1, <1>2, <1>3, SendType
<1> QED BY <1>1, <1>4, SameKnown
        DEF NetInv, WorkOK, ScheduleOK, RolesOK, LinksOK, Idle, peerVars, taskVars, historyVars

LEMMA HandleDetailsStep ==
  ASSUME NetInv, NEW c \in Conn, NEW n \in Ends(c), HandleDetails(c, n)
  PROVE  NetInv'
<1> DEFINE msg == Head(inbox[c][n])
           ask == [type |-> "chain_request"]
<1>1. /\ n \in Node /\ ScheduleOK
      /\ admin_id' = [admin_id EXCEPT ![n] = msg.admin]
      /\ miners' = [miners EXCEPT ![n] = msg.miners]
      /\ inbox' = send_message(c, n, ask, Read(c, n))
      /\ UNCHANGED <<chain, mem_pool, seen, round, waited, taskVars, up, running, historyVars>>
  BY EndsAreNodes DEF NetInv, HandleDetails
<1>2. msg \in KnownMsg /\ Read(c, n) \in [Conn -> [Node -> Seq(KnownMsg)]]
  BY <1>1, ReadType DEF NetInv, HandleDetails, Reads
<1>3. msg.admin \in Node \cup {None} /\ msg.miners \in Seq(Entry)
  <2>1. msg.type = "network_details"
    BY DEF HandleDetails, Reads
  <2> HIDE DEF msg
  <2> QED BY <1>2, <2>1, MessageFields
<1>4. ask \in KnownMsg
  BY DEF KnownMsg
<1> HIDE DEF msg, ask
<1>5. inbox' \in [Conn -> [Node -> Seq(KnownMsg)]]
  BY <1>1, <1>2, <1>4, SendType
<1>6. ScheduleOK'
  BY <1>1, <1>3 DEF ScheduleOK, historyVars
<1> QED BY <1>1, <1>5, <1>6, SameKnown
        DEF NetInv, WorkOK, RolesOK, LinksOK, Idle, taskVars, historyVars

-----------------------------------------------------------------------------
(***************************************************************************)
(* Chains, connections, quitting.                                          *)
(***************************************************************************)
LEMMA FindLongestChainStep ==
  ASSUME NetInv, NEW n \in Node, find_longest_chain(n)
  PROVE  NetInv'
<1> DEFINE asks == {c \in up : n \in Ends(c) /\ ~ Asked(c, n)}
           msg == [type |-> "chain_request"]
<1>1. UNCHANGED <<peerVars, taskVars, up, running, historyVars>>
  BY DEF find_longest_chain
<1>2. inbox' = [c \in Conn |-> IF c \in asks
                               THEN [inbox[c] EXCEPT ![Other(c, n)] = Append(@, msg)]
                               ELSE inbox[c]]
  BY DEF find_longest_chain
<1>3. inbox \in [Conn -> [Node -> Seq(KnownMsg)]] /\ msg \in KnownMsg
  BY DEF NetInv, KnownMsg
<1>4. ASSUME NEW c \in Conn, c \in asks
      PROVE  [inbox[c] EXCEPT ![Other(c, n)] = Append(@, msg)] \in [Node -> Seq(KnownMsg)]
  <2>1. Other(c, n) \in Node
    BY <1>4, EndsAreNodes
  <2>2. inbox[c] \in [Node -> Seq(KnownMsg)] /\ inbox[c][Other(c, n)] \in Seq(KnownMsg)
    BY <1>3, <2>1
  <2> HIDE DEF msg, KnownMsg
  <2>3. Append(inbox[c][Other(c, n)], msg) \in Seq(KnownMsg)
    BY <1>3, <2>2
  <2> QED BY <2>2, <2>3
<1>5. inbox' \in [Conn -> [Node -> Seq(KnownMsg)]]
  <2> HIDE DEF asks, msg
  <2> QED BY <1>2, <1>3, <1>4
<1> QED BY <1>1, <1>5, SameKnown
        DEF NetInv, WorkOK, ScheduleOK, RolesOK, LinksOK, Idle, peerVars, taskVars, historyVars

LEMMA HandleChainRequestStep ==
  ASSUME NetInv, NEW c \in Conn, NEW n \in Ends(c), HandleChainRequest(c, n)
  PROVE  NetInv'
<1> DEFINE msg == [type |-> "chain", chain |-> chain[n]]
<1>1. /\ n \in Node
      /\ inbox' = IF chain[n] = << >> THEN Read(c, n) ELSE send_message(c, n, msg, Read(c, n))
      /\ UNCHANGED <<peerVars, taskVars, up, running, historyVars>>
  BY EndsAreNodes DEF HandleChainRequest
<1>2. Read(c, n) \in [Conn -> [Node -> Seq(KnownMsg)]]
  BY <1>1, ReadType DEF NetInv, HandleChainRequest, Reads
<1>3. msg \in KnownMsg
  BY <1>1 DEF NetInv, KnownMsg
<1>4. inbox' \in [Conn -> [Node -> Seq(KnownMsg)]]
  <2> HIDE DEF msg
  <2>1. send_message(c, n, msg, Read(c, n)) \in [Conn -> [Node -> Seq(KnownMsg)]]
    BY <1>2, <1>3, SendType
  <2> QED BY <1>1, <1>2, <2>1
<1> QED BY <1>1, <1>4, SameKnown
        DEF NetInv, WorkOK, ScheduleOK, RolesOK, LinksOK, Idle, peerVars, taskVars, historyVars

\* What a handled chain does to n's own.
LEMMA ChainTaken ==
  ASSUME NetInv, NEW c \in Conn, NEW n \in Ends(c), HandleChain(c, n)
  PROVE  \/ UNCHANGED <<chain, mem_pool>>
         \/ \E block_list \in KnownChain :
              /\ isvalidChain(block_list)
              /\ Len(block_list) > Len(chain[n])
              /\ block_list # << >>
              /\ chain' = [chain EXCEPT ![n] = block_list]
              /\ mem_pool' = [mem_pool EXCEPT ![n] = Without(@, InChain(@, block_list))]
<1> DEFINE block_list == Head(inbox[c][n]).chain
<1>1. n \in Node
  BY EndsAreNodes
<1>2. block_list \in KnownChain
  <2>1. Head(inbox[c][n]) \in KnownMsg
    BY <1>1, ReadType DEF NetInv, HandleChain, Reads
  <2> QED BY <2>1, MessageFields DEF HandleChain, Reads
<1>3. \/ UNCHANGED <<chain, mem_pool>>
      \/ /\ isvalidChain(block_list) /\ Len(block_list) > Len(chain[n])
         /\ chain' = [chain EXCEPT ![n] = rewrite(@, block_list)]
         /\ mem_pool' = [mem_pool EXCEPT ![n] = Without(@, InChain(@, block_list))]
  BY DEF HandleChain
<1> HIDE DEF block_list
<1>4. ASSUME Len(block_list) > Len(chain[n])
      PROVE  rewrite(chain[n], block_list) = block_list /\ block_list # << >>
  <2>1. Len(chain[n]) \in Nat /\ Len(block_list) \in Nat
    BY <1>1, <1>2, KnownAreBlocks DEF NetInv
  <2>2. block_list # << >>
    BY <1>4, <2>1
  <2> QED BY <1>4, <2>1, <2>2 DEF rewrite
<1> QED BY <1>2, <1>3, <1>4

LEMMA HandleChainStep ==
  ASSUME NetInv, NEW c \in Conn, NEW n \in Ends(c), HandleChain(c, n)
  PROVE  NetInv'
<1>1. /\ n \in Node /\ WorkOK /\ inbox' = Read(c, n)
      /\ chain \in [Node -> KnownChain]
      /\ UNCHANGED <<seen, admin_id, miners, round, waited, taskVars, up, running, historyVars>>
  BY EndsAreNodes DEF NetInv, HandleChain
<1>2. inbox' \in [Conn -> [Node -> Seq(KnownMsg)]]
  BY <1>1, ReadType DEF NetInv, HandleChain, Reads
<1>3. /\ chain' \in [Node -> KnownChain] /\ mem_pool' \in [Node -> Seq(Tx)]
      /\ \A m \in Node : chain'[m] = << >> => chain[m] = << >>
  <2>1. CASE UNCHANGED <<chain, mem_pool>>
    BY <1>1, <2>1 DEF WorkOK
  <2>2. ASSUME NEW block_list \in KnownChain, block_list # << >>,
               chain' = [chain EXCEPT ![n] = block_list],
               mem_pool' = [mem_pool EXCEPT ![n] = Without(@, InChain(@, block_list))]
        PROVE  /\ chain' \in [Node -> KnownChain] /\ mem_pool' \in [Node -> Seq(Tx)]
               /\ \A m \in Node : chain'[m] = << >> => chain[m] = << >>
    <3>1. mem_pool[n] \in Seq(Tx)
      BY <1>1 DEF WorkOK
    <3>2. Without(mem_pool[n], InChain(mem_pool[n], block_list)) \in Seq(Tx)
      BY <3>1, WithoutType
    <3>3. mem_pool' \in [Node -> Seq(Tx)]
      BY <1>1, <2>2, <3>2 DEF WorkOK
    <3> QED BY <1>1, <2>2, <3>3
  <2> QED BY <2>1, <2>2, ChainTaken
<1> QED BY <1>1, <1>2, <1>3, SameKnown
        DEF NetInv, WorkOK, ScheduleOK, RolesOK, LinksOK, Idle, taskVars, historyVars

LEMMA DisconnectStep ==
  ASSUME NetInv, NEW c \in Conn, Disconnect(c)
  PROVE  NetInv'
<1>1. /\ LinksOK /\ drops' = drops + 1 /\ up' = up \ {c}
      /\ UNCHANGED <<peerVars, taskVars, running, minted, created, scheduled>>
  BY DEF NetInv, Disconnect
<1>2. PICK lost \in SUBSET Ends(c) :
        inbox' = [inbox EXCEPT ![c] = [n \in Node |-> IF n \in lost THEN << >> ELSE @[n]]]
  BY DEF Disconnect
<1>3. inbox[c] \in [Node -> Seq(KnownMsg)] /\ << >> \in Seq(KnownMsg)
  BY DEF NetInv
<1>4. [n \in Node |-> IF n \in lost THEN << >> ELSE inbox[c][n]] \in [Node -> Seq(KnownMsg)]
  BY <1>3
<1>5. inbox' \in [Conn -> [Node -> Seq(KnownMsg)]]
  BY <1>2, <1>4 DEF NetInv
<1>6. LinksOK'
  BY <1>1 DEF LinksOK
<1> QED BY <1>1, <1>5, <1>6, SameKnown
        DEF NetInv, WorkOK, ScheduleOK, RolesOK, Idle, peerVars, taskVars

LEMMA ConnectStep ==
  ASSUME NetInv, NEW c \in Conn, connect_to_peer(c)
  PROVE  NetInv'
<1>1. up' = up \cup {c} /\ UNCHANGED <<peerVars, taskVars, inbox, running, historyVars>>
  BY DEF connect_to_peer
<1> QED BY <1>1, SameKnown
        DEF NetInv, WorkOK, ScheduleOK, RolesOK, LinksOK, Idle, peerVars, taskVars, historyVars

LEMMA StopStep ==
  ASSUME NetInv, NEW n \in Node, Stop(n)
  PROVE  NetInv'
<1>1. /\ RolesOK /\ LinksOK
      /\ running' = running \ {n}
      /\ up' = {c \in up : n \notin Ends(c)}
      /\ live' = [live EXCEPT ![n] = {}]
      /\ late' = [late EXCEPT ![n] = {}]
      /\ UNCHANGED <<peerVars, miner, miner_task, historyVars>>
  BY DEF NetInv, Stop
<1>2. inbox' \in [Conn -> [Node -> Seq(KnownMsg)]]
  <2>1. \A c \in Conn : [inbox[c] EXCEPT ![n] = << >>] \in [Node -> Seq(KnownMsg)]
    BY DEF NetInv
  <2>2. inbox \in [Conn -> [Node -> Seq(KnownMsg)]]
    BY DEF NetInv
  <2> QED BY <2>1, <2>2 DEF Stop
<1>3. RolesOK' /\ LinksOK'
  BY <1>1 DEF RolesOK, LinksOK, peerVars, historyVars
<1>4. \A m \in Node : Idle(m) => Idle(m)'
  BY <1>1 DEF Idle, RolesOK
<1> QED BY <1>1, <1>2, <1>3, <1>4, SameKnown
        DEF NetInv, WorkOK, ScheduleOK, peerVars, historyVars

-----------------------------------------------------------------------------
LEMMA FirstBlock == first \in Block /\ first.hash = 0
<1>1. Founder \in Account /\ FirstMiners \in Seq(Account)
  <2>1. Joined \subseteq Account
    BY PoaAssumption
  <2> QED BY <2>1, PoaAssumption
<1>2. [id |-> 0, sender |-> Genesis, receiver |-> Founder, amount |-> GenesisGrant] \in Tx
  BY <1>1 DEF Tx, GenesisGrant
<1> QED BY <1>1, <1>2 DEF Block, first, first_block

LEMMA NetInit == Init => NetInv
<1> SUFFICES ASSUME Init PROVE NetInv
  OBVIOUS
<1>1. minted = <<first>> /\ MintedInOrder
  BY FirstBlock DEF Init, MintedInOrder
<1>2. first \in KnownBlock
  BY <1>1 DEF KnownBlock
<1>3. <<first>> \in KnownChain /\ << >> \in KnownChain
  BY <1>2 DEF KnownChain
<1>4. chain \in [Node -> KnownChain]
  BY <1>3 DEF Init
<1>5. inbox \in [Conn -> [Node -> Seq(KnownMsg)]]
  <2>1. [type |-> "network_details_request"] \in KnownMsg
    BY DEF KnownMsg
  <2>2. << [type |-> "network_details_request"] >> \in Seq(KnownMsg) /\ << >> \in Seq(KnownMsg)
    BY <2>1
  <2> HIDE DEF KnownMsg
  <2> QED BY <2>2 DEF Init
<1>6. \A n \in Node : Listed(n, FirstMiners) => n \in Joined
  BY PoaAssumption DEF Listed
<1>7. \A n \in Node : miner[n] = Listed(n, FirstMiners) /\ miner[n] \in BOOLEAN
  BY DEF Init, Listed
<1>8. \A n \in Node : chain[n] = << >> => Idle(n)
  BY <1>6, <1>7, PoaAssumption DEF Init, Idle
<1>9. RolesOK
  <2>1. round \in [Node -> Nat] /\ waited \in [Node -> BOOLEAN] /\ late \in [Node -> SUBSET LateTask]
    BY DEF Init
  <2>2. miner \in [Node -> BOOLEAN]
    BY DEF Init, Listed
  <2>3. miner_task \in [Node -> Nat \cup {None}] /\ live \in [Node -> SUBSET Nat]
    BY DEF Init
  <2> QED BY <2>1, <2>2, <2>3 DEF RolesOK
<1>10. WorkOK /\ LinksOK
  BY DEF Init, WorkOK, LinksOK
<1>11. ScheduleOK
  <2>1. << >> \in Seq(Entry) /\ Founder \in Node
    BY PoaAssumption
  <2> QED BY <2>1 DEF Init, ScheduleOK
<1> QED BY <1>1, <1>4, <1>5, <1>8, <1>9, <1>10, <1>11 DEF NetInv

LEMMA NetStep == NetInv /\ [Next]_vars => NetInv'
<1> SUFFICES ASSUME NetInv, [Next]_vars PROVE NetInv'
  OBVIOUS
<1>1. ASSUME NEW n \in Node, NEW rec \in Account \ {n}, NEW amt \in Amount,
             create_and_broadcast_tx(n, rec, amt)
      PROVE  NetInv'
  BY <1>1, CreateStep
<1>2. ASSUME NEW n \in Node, NEW member \in Node, user_input_handler(n, member)
      PROVE  NetInv'
  BY <1>2, UserInputStep
<1>3. ASSUME NEW n \in Node, NEW task \in live[n], MinerWakes(n, task)
      PROVE  NetInv'
  BY <1>3, MinerWakesStep
<1>4. ASSUME NEW n \in Node,
             \/ LateMinerWakes(n) \/ StartWaiting(n) \/ ShiftMiner(n)
             \/ find_longest_chain(n) \/ Stop(n)
      PROVE  NetInv'
  BY <1>4, LateMinerWakesStep, RoundStep, FindLongestChainStep, StopStep
<1>5. ASSUME NEW c \in Conn, NEW n \in Ends(c), HandleMessage(c, n)
      PROVE  NetInv'
  BY <1>5, HandleNewTxStep, HandleNewBlockStep, HandleUpdateStep, HandleDetailsRequestStep,
     HandleDetailsStep, HandleChainRequestStep, HandleChainStep DEF HandleMessage
<1>6. ASSUME NEW c \in Conn, Disconnect(c) \/ connect_to_peer(c)
      PROVE  NetInv'
  BY <1>6, DisconnectStep, ConnectStep
<1>7. CASE UNCHANGED vars
  BY <1>7, SameKnown DEF vars, peerVars, taskVars, netVars, historyVars, NetInv, WorkOK,
     ScheduleOK, RolesOK, LinksOK, Idle
<1> QED BY <1>1, <1>2, <1>3, <1>4, <1>5, <1>6, <1>7 DEF Next

LEMMA NetInvariant == Spec => []NetInv
BY NetInit, NetStep, PTL DEF Spec

LEMMA NetInvTyped == NetInv => TypeOK
<1> SUFFICES ASSUME NetInv PROVE TypeOK
  OBVIOUS
<1>1. KnownBlock \subseteq Block /\ \A c \in KnownChain : c \in Seq(Block)
  BY KnownAreBlocks DEF NetInv
<1>2. chain \in [Node -> Seq(Block)]
  BY <1>1 DEF NetInv
<1>3. KnownMsg \subseteq Msg
  BY <1>1 DEF KnownMsg, Msg
<1>4. inbox \in [Conn -> [Node -> Seq(Msg)]]
  <2>1. Seq(KnownMsg) \subseteq Seq(Msg)
    BY <1>3
  <2> HIDE DEF KnownMsg, Msg
  <2> QED BY <2>1 DEF NetInv
<1> QED BY <1>2, <1>4 DEF NetInv, TypeOK, WorkOK, ScheduleOK, RolesOK, LinksOK,
          MintedInOrder, Ids, LateTask

(***************************************************************************)
(* The peers of consensus/poa keep their variables well typed: chains of   *)
(* blocks, schedules of entries, tasks that were started.                  *)
(***************************************************************************)
THEOREM PoaTypeOK == Spec => []TypeOK
BY NetInvariant, NetInvTyped, PTL

-----------------------------------------------------------------------------
(***************************************************************************)
(* Every chain passes isvalidChain.  A block that isValidBlock takes is    *)
(* one that isvalidChain takes at that place.                              *)
(***************************************************************************)
LEMMA SameBalance ==
  ASSUME NEW c, NEW d, NEW i, \A j \in 1..i : d[j] = c[j], NEW pk, NEW pending
  PROVE  calc_balance_block_list(d, pk, i, pending) = calc_balance_block_list(c, pk, i, pending)
<1>1. [j \in 1..i |-> BlockCredit(d[j], pk)] = [j \in 1..i |-> BlockCredit(c[j], pk)]
  OBVIOUS
<1> QED BY <1>1 DEF calc_balance_block_list

LEMMA ValidExtended ==
  ASSUME NEW c \in Seq(Block), c # << >>, isvalidChain(c),
         NEW b, NEW reqd, isValidBlock(c, b, reqd)
  PROVE  isvalidChain(Append(c, b))
<1> DEFINE d == Append(c, b)
<1>1. /\ Len(c) \in Nat /\ Len(c) >= 1 /\ Len(d) = Len(c) + 1
      /\ d[Len(c) + 1] = b
      /\ \A i \in 1..Len(c) : d[i] = c[i]
  OBVIOUS
<1> HIDE DEF d
<1>2. ASSUME NEW i \in 2..Len(c) PROVE ExtendsList(d, i)
  <2>1. ExtendsList(c, i) /\ d[i] = c[i] /\ d[i-1] = c[i-1]
    BY <1>1 DEF isvalidChain
  <2>2. \A j \in 1..(i-1) : d[j] = c[j]
    BY <1>1
  <2>3. \A pk, pending : calc_balance_block_list(d, pk, i - 1, pending)
                           = calc_balance_block_list(c, pk, i - 1, pending)
    BY <2>2, SameBalance
  <2> QED BY <2>1, <2>3 DEF ExtendsList, transaction_exists_in_block_list
<1>3. ExtendsList(d, Len(c) + 1)
  <2>1. \A pk, pending : calc_balance_block_list(d, pk, Len(c), pending)
                           = calc_balance(c, pk, pending)
    BY <1>1, SameBalance DEF calc_balance
  <2>2. (Len(c) + 1) - 1 = Len(c) /\ d[Len(c)] = lastBlock(c)
    BY <1>1 DEF lastBlock
  <2>3. b.prevHash = d[Len(c)].hash
    BY <2>2 DEF isValidBlock
  <2>4. \A k \in DOMAIN b.transactions :
          /\ b.transactions[k].amount > 0
          /\ b.transactions[k].amount
               <= calc_balance_block_list(d, b.transactions[k].sender, Len(c),
                                          SubSeq(b.transactions, 1, k - 1))
    BY <2>1 DEF isValidBlock
  <2> QED BY <1>1, <2>2, <2>3, <2>4 DEF ExtendsList, transaction_exists_in_block_list
<1>4. \A i \in 2..Len(d) : i \in 2..Len(c) \/ i = Len(c) + 1
  BY <1>1
<1>5. isvalidChain(d)
  BY <1>2, <1>3, <1>4 DEF isvalidChain
<1> QED BY <1>5 DEF d

LEMMA AppendValid ==
  ASSUME NetInv, ChainsValid, NEW n \in Node, chain[n] # << >>, NEW b, NEW reqd,
         isValidBlock(chain[n], b, reqd), chain' = [chain EXCEPT ![n] = Append(@, b)]
  PROVE  ChainsValid'
<1>1. chain[n] \in Seq(Block)
  BY KnownAreBlocks DEF NetInv
<1>2. isvalidChain(Append(chain[n], b))
  BY <1>1, ValidExtended DEF ChainsValid
<1>3. \A m \in Node : chain'[m] = IF m = n THEN Append(chain[n], b) ELSE chain[m]
  BY DEF NetInv
<1> QED BY <1>2, <1>3 DEF ChainsValid

\* What mining does to n's own chain: nothing, or its block is appended.
LEMMA MineBlockAppends ==
  ASSUME NEW n \in Node, NEW task, NEW miners_list, MineBlock(n, task, miners_list)
  PROVE  \/ UNCHANGED <<chain, minted>>
         \/ \E b : /\ b.hash = Len(minted)
                   /\ isValidBlock(chain[n], b, n)
                   /\ chain' = [chain EXCEPT ![n] = Append(@, b)]
                   /\ minted' = Append(minted, b)
<1> DEFINE swept == Sweep(mem_pool[n], InChain(mem_pool[n], chain[n]))
           newBlock == [hash |-> Len(minted), prevHash |-> lastBlock(chain[n]).hash,
                        transactions |-> swept.taken, miner |-> n, miners_list |-> miners_list]
<1>1. \/ UNCHANGED <<chain, minted>>
      \/ /\ isValidBlock(chain[n], newBlock, n)
         /\ chain' = [chain EXCEPT ![n] = Append(@, newBlock)]
         /\ minted' = Append(minted, newBlock)
  BY DEF MineBlock
<1>2. newBlock.hash = Len(minted)
  OBVIOUS
<1> QED BY <1>1, <1>2

\* The same of n's mining tasks, on time or late.
LEMMA MiningAppends ==
  ASSUME NetInv, NEW n \in Node,
         (\E task \in live[n] : MinerWakes(n, task)) \/ LateMinerWakes(n)
  PROVE  /\ chain[n] # << >>
         /\ \/ UNCHANGED <<chain, minted>>
            \/ \E b : /\ b.hash = Len(minted)
                      /\ isValidBlock(chain[n], b, n)
                      /\ chain' = [chain EXCEPT ![n] = Append(@, b)]
                      /\ minted' = Append(minted, b)
<1>1. chain[n] # << >>
  BY DEF NetInv, Idle, LateMinerWakes
<1>2. \/ UNCHANGED <<chain, minted>>
      \/ \E task, miners_list : MineBlock(n, task, miners_list)
  BY DEF MinerWakes, LateMinerWakes, peerVars, historyVars
<1> QED BY <1>1, <1>2, MineBlockAppends

\* What a handled block does to n's own chain.
LEMMA BlockTaken ==
  ASSUME NetInv, NEW c \in Conn, NEW n \in Ends(c), HandleNewBlock(c, n)
  PROVE  /\ UNCHANGED minted
         /\ \/ UNCHANGED chain
            \/ \E b \in KnownBlock : \E reqd :
                 /\ chain[n] # << >>
                 /\ isValidBlock(chain[n], b, reqd)
                 /\ chain' = [chain EXCEPT ![n] = Append(@, b)]
<1> DEFINE newBlock == Head(inbox[c][n]).block
<1>1. newBlock \in KnownBlock
  <2>1. n \in Node
    BY EndsAreNodes
  <2>2. Head(inbox[c][n]) \in KnownMsg
    BY <2>1, ReadType DEF NetInv, HandleNewBlock, Reads
  <2> QED BY <2>2, MessageFields DEF HandleNewBlock, Reads
<1>2. UNCHANGED minted
  BY DEF HandleNewBlock
<1>3. \/ UNCHANGED chain
      \/ /\ chain[n] # << >>
         /\ AcceptsBlock(n, newBlock, get_current_miners_list(chain[n], miners[n]))
         /\ chain' = [chain EXCEPT ![n] = Append(@, newBlock)]
  BY DEF HandleNewBlock
<1> HIDE DEF newBlock
<1> QED BY <1>1, <1>2, <1>3 DEF AcceptsBlock

LEMMA ValidStep == NetInv /\ ChainsValid /\ [Next]_vars => ChainsValid'
<1> SUFFICES ASSUME NetInv, ChainsValid, [Next]_vars PROVE ChainsValid'
  OBVIOUS
<1>1. ASSUME NEW n \in Node,
             (\E task \in live[n] : MinerWakes(n, task)) \/ LateMinerWakes(n)
      PROVE  ChainsValid'
  <2>1. CASE UNCHANGED chain
    BY <2>1 DEF ChainsValid
  <2> QED BY <1>1, <2>1, MiningAppends, AppendValid
<1>2. ASSUME NEW c \in Conn, NEW n \in Ends(c), HandleNewBlock(c, n) PROVE ChainsValid'
  <2>1. CASE UNCHANGED chain
    BY <2>1 DEF ChainsValid
  <2>2. n \in Node
    BY <1>2, EndsAreNodes
  <2> QED BY <1>2, <2>1, <2>2, BlockTaken, AppendValid
<1>3. ASSUME NEW c \in Conn, NEW n \in Ends(c), HandleChain(c, n) PROVE ChainsValid'
  <2>1. CASE UNCHANGED chain
    BY <2>1 DEF ChainsValid
  <2>2. ASSUME NEW block_list, isvalidChain(block_list),
               chain' = [chain EXCEPT ![n] = block_list]
        PROVE  ChainsValid'
    <3>1. \A m \in Node : chain'[m] = IF m = n THEN block_list ELSE chain[m]
      BY <2>2 DEF NetInv
    <3> QED BY <2>2, <3>1 DEF ChainsValid
  <2> QED BY <1>3, <2>1, <2>2, ChainTaken
<1>4. CASE UNCHANGED chain
  BY <1>4 DEF ChainsValid
<1>5. ASSUME NEW n \in Node,
             \/ \E rec \in Account \ {n}, amt \in Amount : create_and_broadcast_tx(n, rec, amt)
             \/ \E member \in Node : user_input_handler(n, member)
             \/ StartWaiting(n) \/ ShiftMiner(n) \/ find_longest_chain(n) \/ Stop(n)
      PROVE  UNCHANGED <<chain, minted>>
  BY <1>5 DEF create_and_broadcast_tx, user_input_handler, schedule_miners, StartWaiting,
     ShiftMiner, find_longest_chain, Stop, peerVars, historyVars
<1>6. ASSUME NEW c \in Conn, NEW n \in Ends(c), HandleMessage(c, n)
      PROVE  UNCHANGED chain \/ HandleNewBlock(c, n) \/ HandleChain(c, n)
  BY <1>6 DEF HandleMessage, HandleNewTx, HandleMinersListUpdate, HandleDetailsRequest,
     HandleDetails, HandleChainRequest, peerVars
<1>7. ASSUME NEW c \in Conn, Disconnect(c) \/ connect_to_peer(c)
      PROVE  UNCHANGED chain
  BY <1>7 DEF Disconnect, connect_to_peer, peerVars
<1>8. CASE UNCHANGED vars
  BY <1>4, <1>8 DEF vars, peerVars
<1> QED BY <1>1, <1>2, <1>3, <1>4, <1>5, <1>6, <1>7, <1>8 DEF Next

LEMMA ValidInit == Init => ChainsValid
<1> SUFFICES ASSUME Init PROVE ChainsValid
  OBVIOUS
<1>1. \A n \in Node : chain[n] = <<first>> \/ chain[n] = << >>
  BY DEF Init
<1>2. Len(<<first>>) = 1 /\ Len(<< >>) = 0 /\ 2..1 = {} /\ 2..0 = {}
  OBVIOUS
<1> QED BY <1>1, <1>2 DEF ChainsValid, isvalidChain

(***************************************************************************)
(* Every peer of consensus/poa would accept every other's chain, whatever  *)
(* rounds and schedules each of them has gone through.                     *)
(***************************************************************************)
THEOREM PoaChainsValid == Spec => []ChainsValid
BY NetInvariant, ValidInit, ValidStep, PTL DEF Spec

LEMMA FirstSolvent ==
  ASSUME NEW c, c[1] = first, NEW pk \in Account
  PROVE  calc_balance_block_list(c, pk, 1, << >>) >= 0
<1> DEFINE f == [j \in 1..1 |-> BlockCredit(c[j], pk)]
           txs == first.transactions
<1>1. txs \in Seq(Tx) /\ Len(txs) = 1
      /\ txs[1] = [id |-> 0, sender |-> Genesis, receiver |-> Founder, amount |-> GenesisGrant]
  BY FirstBlock DEF Block, first, first_block
<1>2. SumTo(Credits(txs, pk), 1) = SumTo(Credits(txs, pk), 0) + Credits(txs, pk)[1]
      /\ SumTo(Credits(txs, pk), 0) = 0
  <2>1. \A k \in 1..1 : Credits(txs, pk)[k] \in Int
    <3> HIDE DEF txs
    <3> QED BY <1>1, CreditType
  <2> HIDE DEF txs
  <2>2. 1 \in Nat /\ 1 # 0 /\ 1 - 1 = 0
    OBVIOUS
  <2> QED BY <2>1, <2>2, SumStep, SumZero
<1>3. Credits(txs, pk)[1] \in {0, 50}
  <2>1. Genesis # pk
    BY LedgerAssumption
  <2> HIDE DEF txs
  <2>2. Credits(txs, pk)[1] = TxCredit(txs[1], pk)
    BY <1>1 DEF Credits
  <2> QED BY <1>1, <2>1, <2>2 DEF TxCredit, GenesisGrant
<1>4. BlockCredit(first, pk) \in Int /\ BlockCredit(first, pk) >= SumTo(Credits(txs, pk), 1)
  <2>1. first \in Block
    BY FirstBlock
  <2> QED BY <1>1, <2>1, BlockCreditType
<1>5. f[1] = BlockCredit(first, pk) /\ \A j \in 1..1 : f[j] \in Int
  BY <1>4
<1>6. SumTo(f, 1) = SumTo(f, 0) + f[1] /\ SumTo(f, 0) = 0
  <2> HIDE DEF f
  <2>1. 1 \in Nat /\ 1 # 0 /\ 1 - 1 = 0
    OBVIOUS
  <2> QED BY <1>5, <2>1, SumStep, SumZero
<1>7. calc_balance_block_list(c, pk, 1, << >>) = SumTo(f, 1)
  <2>1. Spending(<< >>, pk) = 0
    BY NothingPending
  <2>2. calc_balance_block_list(c, pk, 1, << >>) = SumTo(f, 1) - Spending(<< >>, pk)
    BY DEF calc_balance_block_list
  <2> HIDE DEF f
  <2> QED BY <1>4, <1>5, <1>6, <2>1, <2>2
<1> HIDE DEF f, txs
<1> QED BY <1>2, <1>3, <1>4, <1>5, <1>6, <1>7

LEMMA ValidSolvent == NetInv /\ ChainsValid => Solvent
<1> SUFFICES ASSUME NetInv, ChainsValid, NEW n \in Node, NEW pk \in Account, chain[n] # << >>
             PROVE  calc_balance(chain[n], pk, << >>) >= 0
  BY DEF Solvent
<1>1. chain[n] \in Seq(Block) /\ chain[n][1] = first
  BY KnownAreBlocks DEF NetInv, KnownChain
<1>2. Len(chain[n]) \in 1..Len(chain[n])
  BY <1>1
<1>3. calc_balance_block_list(chain[n], pk, 1, << >>) >= 0
  BY <1>1, FirstSolvent
<1>4. calc_balance_block_list(chain[n], pk, Len(chain[n]), << >>) >= 0
  BY <1>1, <1>2, <1>3, ValidChainSolvent DEF ChainsValid
<1> QED BY <1>4 DEF calc_balance

(***************************************************************************)
(* No account ever spends more than it has, in no chain of no peer, for    *)
(* any peers, amounts, schedules and rounds.                               *)
(***************************************************************************)
THEOREM PoaSolvent == Spec => []Solvent
BY NetInvariant, PoaChainsValid, ValidSolvent, PTL

-----------------------------------------------------------------------------
(***************************************************************************)
(* The refinement of ChainReplica.                                         *)
(***************************************************************************)
mintedHeaders == {Header(minted[i]) : i \in DOMAIN minted}

ChainHeaders(c) == [i \in DOMAIN c |-> Header(c[i])]

LEMMA KnownHeaders ==
  ASSUME NEW c \in Seq(KnownBlock)
  PROVE  /\ ChainHeaders(c) \in Seq(mintedHeaders)
         /\ Len(ChainHeaders(c)) = Len(c)
         /\ DOMAIN c = 1..Len(c) /\ Len(c) \in Nat
         /\ \A i \in DOMAIN c : /\ ChainHeaders(c)[i] = Header(c[i])
                                /\ ChainHeaders(c)[i].hash = c[i].hash
                                /\ ChainHeaders(c)[i].prevHash = c[i].prevHash
<1>1. \A b \in KnownBlock : HeaderOf(b) \in mintedHeaders
  BY DEF KnownBlock, mintedHeaders, Header, HeaderOf
<1>2. ChainHeaders(c) = HeadersOf(c)
  BY DEF ChainHeaders, HeadersOf, Header, HeaderOf
<1>3. \A b : Header(b) = HeaderOf(b)
  BY DEF Header, HeaderOf
<1> QED BY <1>1, <1>2, <1>3, HeadersType

LEMMA AppendHeaders ==
  ASSUME NEW c \in Seq(KnownBlock), NEW b
  PROVE  ChainHeaders(Append(c, b)) = Append(ChainHeaders(c), Header(b))
<1>1. \A d : ChainHeaders(d) = HeadersOf(d)
  BY DEF ChainHeaders, HeadersOf, Header, HeaderOf
<1>2. Header(b) = HeaderOf(b)
  BY DEF Header, HeaderOf
<1> QED BY <1>1, <1>2, HeadersAppend

LEMMA PeerHeaders ==
  ASSUME NetInv, NEW n \in Node
  PROVE  /\ chain[n] \in KnownChain /\ chain[n] \in Seq(KnownBlock)
         /\ headers[n] = ChainHeaders(chain[n])
         /\ headers[n] = << >> <=> chain[n] = << >>
<1>1. chain[n] \in KnownChain /\ chain[n] \in Seq(KnownBlock)
  BY DEF NetInv, KnownChain
<1>2. headers[n] = ChainHeaders(chain[n])
  BY DEF headers, ChainHeaders
<1>3. headers[n] = << >> <=> chain[n] = << >>
  BY <1>1, <1>2, KnownHeaders
<1> QED BY <1>1, <1>2, <1>3

\* Where one peer's chain becomes c, that peer's headers become those of c.
LEMMA NewHeaders ==
  ASSUME NetInv, NEW n \in Node, NEW c, chain' = [chain EXCEPT ![n] = c]
  PROVE  /\ headers' = [headers EXCEPT ![n] = ChainHeaders(c)]
         /\ headers'[n] = ChainHeaders(c)
<1>1. headers = [m \in Node |-> ChainHeaders(chain[m])]
      /\ headers' = [m \in Node |-> ChainHeaders(chain'[m])]
  BY DEF headers, ChainHeaders
<1>2. chain'[n] = c /\ \A m \in Node : m # n => chain'[m] = chain[m]
  BY DEF NetInv
<1>3. headers' = [m \in Node |-> IF m = n THEN ChainHeaders(c) ELSE headers[m]]
  <2>1. \A m \in Node : headers[m] = ChainHeaders(chain[m])
    BY <1>1
  <2>2. ChainHeaders(chain'[n]) = ChainHeaders(c)
    BY <1>2, Zenon
  <2>3. \A m \in Node : m # n => ChainHeaders(chain'[m]) = headers[m]
    BY <1>2, <2>1, Zenon
  <2> QED BY <1>1, <2>2, <2>3
<1>4. headers = [m \in Node |-> headers[m]]
  BY <1>1
<1> QED BY <1>3, <1>4

(***************************************************************************)
(* A peer that appends block b to its chain appends its header.            *)
(***************************************************************************)
LEMMA AppendStep ==
  ASSUME NetInv, NEW n \in Node, NEW b, NEW reqd, chain[n] # << >>,
         isValidBlock(chain[n], b, reqd),
         chain' = [chain EXCEPT ![n] = Append(@, b)]
  PROVE  /\ headers' = [headers EXCEPT ![n] = Append(@, Header(b))]
         /\ headers[n] # << >>
         /\ Header(b).prevHash = Replica!tip(headers[n])
         /\ headers'[n] # << >> /\ Replica!tip(headers'[n]) = b.hash
<1>1. /\ chain[n] \in Seq(KnownBlock) /\ headers[n] = ChainHeaders(chain[n])
      /\ headers[n] # << >>
  BY PeerHeaders
<1>2. /\ headers[n] \in Seq(mintedHeaders) /\ Len(headers[n]) = Len(chain[n])
      /\ Len(chain[n]) \in DOMAIN chain[n]
      /\ headers[n][Len(chain[n])].hash = chain[n][Len(chain[n])].hash
  BY <1>1, KnownHeaders
<1>3. Header(b).prevHash = Replica!tip(headers[n])
  BY <1>2 DEF isValidBlock, lastBlock, Header, Replica!tip
<1>4. ChainHeaders(Append(chain[n], b)) = Append(headers[n], Header(b))
  BY <1>1, AppendHeaders
<1>5. /\ headers' = [headers EXCEPT ![n] = Append(@, Header(b))]
      /\ headers'[n] = Append(headers[n], Header(b))
  <2>1. chain' = [chain EXCEPT ![n] = Append(chain[n], b)]
    OBVIOUS
  <2> QED BY <1>4, <2>1, NewHeaders
<1>6. headers'[n] # << >> /\ Replica!tip(headers'[n]) = b.hash
  <2>1. /\ Len(Append(headers[n], Header(b))) = Len(headers[n]) + 1
        /\ Append(headers[n], Header(b))[Len(headers[n]) + 1] = Header(b)
        /\ Append(headers[n], Header(b)) # << >>
    BY <1>2
  <2> QED BY <1>5, <2>1 DEF Replica!tip, Header
<1> QED BY <1>1, <1>3, <1>5, <1>6

LEMMA SameHeaders ==
  ASSUME UNCHANGED <<chain, minted>>
  PROVE  UNCHANGED Replica!vars
BY DEF headers, Replica!vars

LEMMA MiningMints ==
  ASSUME NetInv, NEW n \in Node,
         (\E task \in live[n] : MinerWakes(n, task)) \/ LateMinerWakes(n)
  PROVE  Replica!Next \/ UNCHANGED Replica!vars
<1>1. chain[n] # << >>
  BY MiningAppends
<1>2. CASE UNCHANGED <<chain, minted>>
  BY <1>2, SameHeaders
<1>3. ASSUME NEW b, b.hash = Len(minted), isValidBlock(chain[n], b, n),
             chain' = [chain EXCEPT ![n] = Append(@, b)], minted' = Append(minted, b)
      PROVE  Replica!Next
  <2>1. /\ headers' = [headers EXCEPT ![n] = Append(@, Header(b))]
        /\ headers[n] # << >>
        /\ Header(b).prevHash = Replica!tip(headers[n])
        /\ headers'[n] # << >> /\ Replica!tip(headers'[n]) = b.hash
    BY <1>1, <1>3, AppendStep
  <2>2. Header(b) = [hash |-> Len(minted), prevHash |-> Replica!tip(headers[n])]
    BY <1>3, <2>1 DEF Header
  <2>3. /\ minted \in Seq(Block) /\ Len(minted) \in Nat
        /\ \A i \in DOMAIN minted : minted[i].hash = i - 1 /\ i - 1 # Len(minted)
    BY DEF NetInv, MintedInOrder
  <2>4. \A d \in mintedHeaders : d.hash # Len(minted)
    BY <2>3 DEF mintedHeaders, Header
  <2>5. mintedHeaders' = mintedHeaders \cup {Header(b)}
    <3>1. /\ DOMAIN minted' = DOMAIN minted \cup {Len(minted) + 1}
          /\ \A i \in DOMAIN minted : minted'[i] = minted[i]
          /\ minted'[Len(minted) + 1] = b
      BY <1>3, <2>3
    <3> QED BY <3>1 DEF mintedHeaders
  <2>6. Replica!Mint(n, Len(minted))
    BY <2>1, <2>2, <2>3, <2>4, <2>5 DEF Replica!Mint, mintedHeaders
  <2> QED BY <1>3, <2>1, <2>6 DEF Replica!Next
<1> QED BY <1>2, <1>3, MiningAppends

LEMMA NewBlockAccepts ==
  ASSUME NetInv, NEW c \in Conn, NEW n \in Ends(c), HandleNewBlock(c, n)
  PROVE  Replica!Next \/ UNCHANGED Replica!vars
<1>1. n \in Node /\ UNCHANGED minted
  BY EndsAreNodes, BlockTaken
<1>2. CASE UNCHANGED chain
  BY <1>1, <1>2, SameHeaders
<1>3. ASSUME NEW b \in KnownBlock, NEW reqd, chain[n] # << >>,
             isValidBlock(chain[n], b, reqd), chain' = [chain EXCEPT ![n] = Append(@, b)]
      PROVE  Replica!Next
  <2>1. /\ headers' = [headers EXCEPT ![n] = Append(@, Header(b))]
        /\ headers[n] # << >>
        /\ Header(b).prevHash = Replica!tip(headers[n])
    BY <1>1, <1>3, AppendStep
  <2>2. Header(b) \in mintedHeaders /\ UNCHANGED mintedHeaders
    BY <1>1 DEF KnownBlock, mintedHeaders
  <2>3. Replica!Accept(n)
    BY <2>1, <2>2 DEF Replica!Accept, mintedHeaders
  <2> QED BY <1>1, <2>3 DEF Replica!Next
<1> QED BY <1>2, <1>3, BlockTaken

LEMMA FirstHeader == Header(first) = Replica!genesis
BY DEF Header, first, first_block, Replica!genesis

LEMMA ChainAdopts ==
  ASSUME NetInv, NEW c \in Conn, NEW n \in Ends(c), HandleChain(c, n)
  PROVE  Replica!Next \/ UNCHANGED Replica!vars
<1>1. n \in Node /\ UNCHANGED minted
  BY EndsAreNodes DEF HandleChain, historyVars
<1>2. CASE UNCHANGED chain
  BY <1>1, <1>2, SameHeaders
<1>3. ASSUME NEW block_list \in KnownChain, isvalidChain(block_list),
             Len(block_list) > Len(chain[n]), chain' = [chain EXCEPT ![n] = block_list]
      PROVE  Replica!Next
  <2> DEFINE taken == ChainHeaders(block_list)
  <2>1. block_list \in Seq(KnownBlock)
    BY DEF KnownChain
  <2>2. /\ taken \in Seq(mintedHeaders) /\ Len(taken) = Len(block_list)
        /\ DOMAIN block_list = 1..Len(block_list) /\ Len(block_list) \in Nat
        /\ \A i \in DOMAIN block_list : /\ taken[i] = Header(block_list[i])
                                        /\ taken[i].hash = block_list[i].hash
                                        /\ taken[i].prevHash = block_list[i].prevHash
    BY <2>1, KnownHeaders
  <2>3. Len(headers[n]) = Len(chain[n]) /\ Len(chain[n]) \in Nat
    BY <1>1, KnownHeaders, PeerHeaders
  <2>4. headers' = [headers EXCEPT ![n] = taken] /\ headers'[n] = taken
    BY <1>1, <1>3, NewHeaders
  <2> HIDE DEF taken
  <2>5. Replica!Linked(taken)
    <3>1. block_list # << >> /\ taken # << >> /\ 1 \in DOMAIN block_list
      BY <1>3, <2>2, <2>3
    <3>2. taken[1] = Replica!genesis
      <4>1. taken[1] = Header(block_list[1]) /\ block_list[1] = first
        BY <2>2, <3>1 DEF KnownChain
      <4> QED BY <4>1, FirstHeader
    <3>3. ASSUME NEW i \in 2..Len(taken) PROVE taken[i].prevHash = taken[i-1].hash
      <4>1. i \in DOMAIN block_list /\ i - 1 \in DOMAIN block_list
        BY <2>2
      <4>2. block_list[i].prevHash = block_list[i-1].hash
        BY <1>3, <2>2 DEF isvalidChain, ExtendsList
      <4> QED BY <2>2, <4>1, <4>2
    <3> QED BY <3>1, <3>2, <3>3 DEF Replica!Linked
  <2>6. Replica!Adopt(n, taken)
    BY <1>1, <1>3, <2>2, <2>3, <2>4, <2>5 DEF Replica!Adopt, mintedHeaders
  <2> QED BY <1>1, <2>4, <2>6 DEF Replica!Next
<1> QED BY <1>2, <1>3, ChainTaken

LEMMA InitImplements == Init => Replica!Init
<1> SUFFICES ASSUME Init PROVE Replica!Init
  OBVIOUS
<1>1. {Header(minted[i]) : i \in DOMAIN minted} = {Replica!genesis}
  BY FirstHeader DEF Init
<1>2. headers = [n \in Node |-> IF n \in Joined THEN <<Replica!genesis>> ELSE << >>]
  BY FirstHeader DEF Init, headers
<1> QED BY <1>1, <1>2 DEF Replica!Init

LEMMA StepImplements == NetInv /\ [Next]_vars => [Replica!Next]_(Replica!vars)
<1> SUFFICES ASSUME NetInv, [Next]_vars PROVE Replica!Next \/ UNCHANGED Replica!vars
  OBVIOUS
<1>1. ASSUME NEW n \in Node,
             (\E task \in live[n] : MinerWakes(n, task)) \/ LateMinerWakes(n)
      PROVE  Replica!Next \/ UNCHANGED Replica!vars
  BY <1>1, MiningMints
<1>2. ASSUME NEW n \in Node,
             \/ \E rec \in Account \ {n}, amt \in Amount : create_and_broadcast_tx(n, rec, amt)
             \/ \E member \in Node : user_input_handler(n, member)
             \/ StartWaiting(n) \/ ShiftMiner(n) \/ find_longest_chain(n) \/ Stop(n)
      PROVE  UNCHANGED <<chain, minted>>
  BY <1>2 DEF create_and_broadcast_tx, user_input_handler, schedule_miners, StartWaiting,
     ShiftMiner, find_longest_chain, Stop, peerVars, historyVars
<1>3. ASSUME NEW c \in Conn, NEW n \in Ends(c), HandleMessage(c, n)
      PROVE  \/ UNCHANGED <<chain, minted>>
             \/ HandleNewBlock(c, n) \/ HandleChain(c, n)
  BY <1>3 DEF HandleMessage, HandleNewTx, HandleMinersListUpdate, HandleDetailsRequest,
     HandleDetails, HandleChainRequest, peerVars, historyVars
<1>4. ASSUME NEW c \in Conn, Disconnect(c) \/ connect_to_peer(c)
      PROVE  UNCHANGED <<chain, minted>>
  BY <1>4 DEF Disconnect, connect_to_peer, peerVars, historyVars
<1>5. CASE UNCHANGED vars
  BY <1>5, SameHeaders DEF vars, peerVars, historyVars
<1> QED BY <1>1, <1>2, <1>3, <1>4, <1>5, SameHeaders, NewBlockAccepts, ChainAdopts DEF Next

(***************************************************************************)
(* The peers implement ChainReplica, whoever they expect to make the next  *)
(* block: PrefixAgreement and ChainsGrow hold of the headers of their      *)
(* chains.                                                                 *)
(***************************************************************************)
THEOREM PoaImplementsReplica == Spec => ReplicaSpec
BY InitImplements, StepImplements, NetInvariant, PTL DEF Spec, ReplicaSpec, Replica!Spec
-----------------------------------------------------------------------------
(***************************************************************************)
(* Turns.  Where no round is shifted and the admin, who is the only miner  *)
(* at first, schedules one list at most (or the first list stays), a peer  *)
(* that finds it is its turn is right: the others may have missed the new  *)
(* list, but then they expect the admin, who has not.                      *)
(***************************************************************************)
OneSchedule ==
  /\ Turns = 0
  /\ MaxUpdates = 0 \/ (MaxUpdates = 1 /\ FirstMiners = <<Founder>>)

\* The list that is used for the block after len blocks.
ListAt(len) == IF scheduled # << >> /\ len >= scheduled[1].activation_block
               THEN scheduled[1].miners_list ELSE FirstMiners

Entries == {scheduled[k] : k \in DOMAIN scheduled}

\* What may be on its way to n over c.
Sendable(c, n) ==
  {msg \in Msg :
     /\ msg.type = "miners_list_update"
          => msg.number \in DOMAIN scheduled /\ msg.entry = scheduled[msg.number]
     /\ msg.type = "network_details_request" => n = c[2] /\ c[1] \notin Joined
     /\ msg.type = "network_details"
          => n = c[1] /\ c[1] \notin Joined /\ msg.miners \in Seq(Entries)}

Mailed(boxes) ==
  /\ boxes \in [Conn -> [Node -> Seq(Msg)]]
  /\ \A c \in Conn, n \in Node : boxes[c][n] \in Seq(Sendable(c, n))

TurnsKept == \A n \in Node : round[n] = 0 /\ waited[n] = FALSE /\ late[n] = {}

\* Nobody has an entry the admin has not scheduled; the admin has it until it is past.
MinersKept ==
  /\ Len(scheduled) <= MaxUpdates
  /\ miners \in [Node -> Seq(Entries)]
  /\ scheduled # << >> => \/ miners[Founder] # << >>
                          \/ Len(chain[Founder]) > scheduled[1].activation_block

\* Each block was made on the one before it, by the peer whose turn it was.
MadeInTurn ==
  /\ \A i \in DOMAIN minted : minted[i].miners_list = ListAt(i - 1)
  /\ \A i \in DOMAIN minted \ {1} :
       /\ minted[i].prevHash = i - 2
       /\ ListAt(i - 1) # << >>
       /\ minted[i].miner = required_miner(ListAt(i - 1), i - 1, 0)
       /\ minted[i].miner \in Node /\ Len(chain[minted[i].miner]) >= i

LineInv == Mailed(inbox) /\ TurnsKept /\ MinersKept /\ MadeInTurn

-----------------------------------------------------------------------------
(***************************************************************************)
(* A chain that is linked is the beginning of what was made.               *)
(***************************************************************************)
LEMMA OnLine ==
  ASSUME MintedInOrder, MadeInTurn, NEW c \in KnownChain, isvalidChain(c)
  PROVE  /\ Len(c) \in Nat /\ DOMAIN c = 1..Len(c) /\ Len(c) <= Len(minted)
         /\ DOMAIN minted = 1..Len(minted) /\ Len(minted) \in Nat /\ Len(minted) >= 1
         /\ \A i \in DOMAIN c : i \in DOMAIN minted /\ c[i] = minted[i]
<1>1. /\ Len(c) \in Nat /\ DOMAIN c = 1..Len(c) /\ \A i \in DOMAIN c : c[i] \in KnownBlock
      /\ c # << >> => c[1] = first
  BY DEF KnownChain
<1>2. /\ DOMAIN minted = 1..Len(minted) /\ Len(minted) \in Nat /\ Len(minted) >= 1
      /\ minted[1] = first /\ \A i \in DOMAIN minted : minted[i].hash = i - 1
  BY DEF MintedInOrder
<1> DEFINE T == {i \in DOMAIN c : ~ (i \in DOMAIN minted /\ c[i] = minted[i])}
<1>3. T = {}
  <2>1. SUFFICES ASSUME T # {} PROVE FALSE
    OBVIOUS
  <2>2. T \in SUBSET Nat
    BY <1>1
  <2> HIDE DEF T
  <2>3. PICK x \in T : \A y \in T : x <= y
    BY <2>1, <2>2, LeastElement
  <2>4. x \in DOMAIN c /\ x # 1 /\ x - 1 \in DOMAIN c /\ x - 1 \notin T /\ x - 1 \in Nat
    <3>1. x \in DOMAIN c /\ ~ (x \in DOMAIN minted /\ c[x] = minted[x])
      BY <2>3 DEF T
    <3>2. x # 1
      <4>1. c # << >>
        BY <1>1, <3>1
      <4> QED BY <1>1, <1>2, <3>1, <4>1
    <3> QED BY <1>1, <2>3, <3>1, <3>2
  <2>5. x - 1 \in DOMAIN minted /\ c[x-1].hash = x - 2
    <3>1. x - 1 \in DOMAIN minted /\ c[x-1] = minted[x-1]
      BY <2>4 DEF T
    <3> QED BY <1>2, <2>4, <3>1
  <2>6. c[x].prevHash = x - 2
    <3>1. x \in 2..Len(c)
      BY <1>1, <2>4
    <3> QED BY <2>5, <3>1 DEF isvalidChain, ExtendsList
  <2>7. PICK j \in DOMAIN minted : c[x] = minted[j]
    BY <1>1, <2>4 DEF KnownBlock
  <2>8. j # 1
    <3>1. minted[1].prevHash = None /\ None \notin Nat /\ x - 2 \in Nat
      BY <1>1, <1>2, <2>4, LedgerAssumption DEF first, first_block
    <3> QED BY <2>6, <2>7, <3>1
  <2>9. j - 2 = x - 2
    BY <2>6, <2>7, <2>8 DEF MadeInTurn
  <2>10. j = x
    BY <1>1, <1>2, <2>4, <2>9
  <2> QED BY <2>3, <2>7, <2>10 DEF T
<1>4. \A i \in DOMAIN c : i \in DOMAIN minted /\ c[i] = minted[i]
  BY <1>3
<1>5. Len(c) <= Len(minted)
  <2>1. CASE Len(c) = 0
    BY <1>2, <2>1
  <2>2. CASE Len(c) # 0
    <3>1. Len(c) \in DOMAIN c
      BY <1>1, <2>2
    <3> QED BY <1>1, <1>2, <1>4, <3>1
  <2> QED BY <2>1, <2>2
<1> QED BY <1>1, <1>2, <1>4, <1>5

LEMMA PeersOnLine ==
  ASSUME NetInv, ChainsValid, LineInv, NEW n \in Node
  PROVE  /\ Len(chain[n]) \in Nat /\ DOMAIN chain[n] = 1..Len(chain[n])
         /\ Len(chain[n]) <= Len(minted)
         /\ DOMAIN minted = 1..Len(minted) /\ Len(minted) \in Nat /\ Len(minted) >= 1
         /\ \A i \in DOMAIN chain[n] : i \in DOMAIN minted /\ chain[n][i] = minted[i]
<1>1. chain[n] \in KnownChain /\ isvalidChain(chain[n]) /\ MintedInOrder /\ MadeInTurn
  BY DEF NetInv, ChainsValid, LineInv
<1> QED BY <1>1, OnLine

(***************************************************************************)
(* What a peer believes.                                                   *)
(***************************************************************************)
LEMMA DueKnown ==
  ASSUME NEW S, NEW entries \in Seq(S), NEW entry, S \subseteq {entry}, NEW len
  PROVE  DueEntries(entries, len) =
           IF entries # << >> /\ entry.activation_block = len THEN DOMAIN entries ELSE {}
<1>1. /\ Len(entries) \in Nat /\ DOMAIN entries = 1..Len(entries)
      /\ \A i \in 1..Len(entries) : entries[i] = entry
      /\ entries # << >> <=> Len(entries) # 0
  OBVIOUS
<1>2. CASE entries # << >> /\ entry.activation_block = len
  BY <1>1, <1>2 DEF DueEntries
<1>3. CASE ~ (entries # << >> /\ entry.activation_block = len)
  <2>1. ASSUME NEW i \in DOMAIN entries PROVE i \notin DueEntries(entries, len)
    <3>1. i \in 1..i /\ entries[i] = entry /\ entries # << >>
      BY <1>1
    <3> QED BY <1>3, <3>1 DEF DueEntries
  <2>2. DueEntries(entries, len) \subseteq DOMAIN entries
    BY DEF DueEntries
  <2> QED BY <1>3, <2>1, <2>2
<1> QED BY <1>2, <1>3

LEMMA CurrentKnown ==
  ASSUME NEW S, NEW entries \in Seq(S), NEW entry, S \subseteq {entry}, NEW c
  PROVE  get_current_miners_list(c, entries) =
           IF entries # << >> /\ entry.activation_block = Len(c) THEN entry.miners_list
           ELSE lastBlock(c).miners_list
<1> DEFINE due == DueEntries(entries, Len(c))
<1>1. due = IF entries # << >> /\ entry.activation_block = Len(c) THEN DOMAIN entries ELSE {}
  BY DueKnown
<1>2. CASE entries # << >> /\ entry.activation_block = Len(c)
  <2>1. due = DOMAIN entries /\ due # {} /\ due \in SUBSET (0..Len(entries))
        /\ Len(entries) \in Nat /\ \A i \in due : entries[i] = entry
    BY <1>1, <1>2
  <2> HIDE DEF due
  <2>2. \E i \in due : \A j \in due : j <= i
    BY <2>1, GreatestElement
  <2>3. (CHOOSE i \in due : \A j \in due : j <= i) \in due
    BY <2>2
  <2>4. entries[CHOOSE i \in due : \A j \in due : j <= i] = entry
    BY <2>1, <2>3
  <2> QED BY <1>2, <2>1, <2>4 DEF get_current_miners_list, due
<1>3. CASE ~ (entries # << >> /\ entry.activation_block = Len(c))
  <2>1. due = {}
    BY <1>1, <1>3
  <2> QED BY <1>3, <2>1 DEF get_current_miners_list
<1> QED BY <1>2, <1>3

LEMMA OnlyEntry ==
  ASSUME NetInv, LineInv, OneSchedule
  PROVE  /\ scheduled \in Seq(Entry) /\ Len(scheduled) \in 0..1
         /\ scheduled = << >> => Entries = {}
         /\ scheduled # << >> => /\ DOMAIN scheduled = {1} /\ Entries = {scheduled[1]}
                                 /\ scheduled[1] \in Entry
                                 /\ scheduled[1].activation_block \in Nat
                                 /\ FirstMiners = <<Founder>>
<1>1. scheduled \in Seq(Entry) /\ Len(scheduled) \in Nat /\ Len(scheduled) <= MaxUpdates
  BY DEF NetInv, ScheduleOK, LineInv, MinersKept
<1>2. Len(scheduled) \in 0..1 /\ (Len(scheduled) = 1 => FirstMiners = <<Founder>>)
  <2>1. CASE MaxUpdates = 0
    BY <1>1, <2>1
  <2>2. CASE MaxUpdates = 1 /\ FirstMiners = <<Founder>>
    BY <1>1, <2>2
  <2> QED BY <2>1, <2>2 DEF OneSchedule
<1>3. scheduled # << >> => Len(scheduled) = 1 /\ DOMAIN scheduled = {1} /\ scheduled[1] \in Entry
  BY <1>1, <1>2
<1>4. scheduled # << >> => scheduled[1].activation_block \in Nat
  BY <1>3 DEF Entry
<1>5. scheduled = << >> => DOMAIN scheduled = {}
  OBVIOUS
<1> QED BY <1>1, <1>2, <1>3, <1>4, <1>5 DEF Entries

LEMMA Expected ==
  ASSUME NetInv, ChainsValid, LineInv, OneSchedule, NEW n \in Node, chain[n] # << >>
  PROVE  LET list == get_current_miners_list(chain[n], miners[n]) IN
         \/ list = ListAt(Len(chain[n]))
         \/ /\ scheduled # << >> /\ miners[n] = << >>
            /\ Len(chain[n]) = scheduled[1].activation_block /\ list = <<Founder>>
<1> DEFINE list == get_current_miners_list(chain[n], miners[n])
           k == Len(chain[n])
<1>1. k \in Nat /\ k >= 1 /\ lastBlock(chain[n]).miners_list = ListAt(k - 1)
  <2>1. /\ k \in Nat /\ DOMAIN chain[n] = 1..k
        /\ \A i \in DOMAIN chain[n] : i \in DOMAIN minted /\ chain[n][i] = minted[i]
    BY PeersOnLine
  <2>2. chain[n] \in KnownChain
    BY DEF NetInv
  <2>3. k # 0
    BY <2>2 DEF KnownChain
  <2>4. k \in DOMAIN minted /\ lastBlock(chain[n]) = minted[k]
    BY <2>1, <2>3 DEF lastBlock
  <2> QED BY <2>1, <2>3, <2>4 DEF LineInv, MadeInTurn
<1>2. miners[n] \in Seq(Entries)
  BY DEF LineInv, MinersKept
<1> HIDE DEF k
<1>3. CASE scheduled = << >>
  <2>1. Entries = {}
    BY <1>3, OnlyEntry
  <2>2. miners[n] = << >>
    BY <1>2, <2>1
  <2>3. list = lastBlock(chain[n]).miners_list
    <3>1. Entries \subseteq {scheduled[1]}
      BY <2>1
    <3> QED BY <1>2, <2>2, <3>1, CurrentKnown
  <2> QED BY <1>1, <1>3, <2>3 DEF ListAt, k
<1>4. CASE scheduled # << >>
  <2> DEFINE e == scheduled[1]
             act == e.activation_block
  <2>1. Entries = {e} /\ act \in Nat /\ FirstMiners = <<Founder>>
    BY <1>4, OnlyEntry
  <2>2. list = IF miners[n] # << >> /\ act = k THEN e.miners_list
               ELSE lastBlock(chain[n]).miners_list
    <3> HIDE DEF e
    <3> QED BY <1>2, <2>1, CurrentKnown DEF k
  <2>3. \A i : ListAt(i) = IF i >= act THEN e.miners_list ELSE <<Founder>>
    BY <1>4, <2>1 DEF ListAt
  <2>4. CASE k # act
    <3>1. list = ListAt(k - 1)
      BY <1>1, <2>2, <2>4
    <3>2. k - 1 >= act <=> k >= act
      BY <1>1, <2>1, <2>4
    <3> QED BY <2>3, <3>1, <3>2 DEF k
  <2>5. CASE k = act /\ miners[n] # << >>
    <3>1. list = e.miners_list /\ k >= act
      BY <1>1, <2>2, <2>5
    <3> QED BY <2>3, <3>1 DEF k
  <2>6. CASE k = act /\ miners[n] = << >>
    <3>1. list = ListAt(k - 1)
      BY <1>1, <2>2, <2>6
    <3>2. ~ (k - 1 >= act)
      BY <1>1, <2>6
    <3>3. list = <<Founder>>
      BY <2>3, <3>1, <3>2
    <3> QED BY <1>4, <2>6, <3>3 DEF k
  <2> QED BY <2>4, <2>5, <2>6
<1> QED BY <1>3, <1>4

LEMMA Believed ==
  ASSUME NetInv, ChainsValid, LineInv, OneSchedule, NEW n \in Node, chain[n] # << >>
  PROVE  LET list == get_current_miners_list(chain[n], miners[n]) IN
         list = ListAt(Len(chain[n])) \/ (n # Founder /\ list = <<Founder>>)
<1>1. ASSUME scheduled # << >>, miners[n] = << >>,
             Len(chain[n]) = scheduled[1].activation_block
      PROVE  n # Founder
  <2>1. miners[Founder] # << >> \/ Len(chain[Founder]) > scheduled[1].activation_block
    BY <1>1 DEF LineInv, MinersKept
  <2>2. scheduled[1].activation_block \in Nat
    BY <1>1, OnlyEntry
  <2> QED BY <1>1, <2>1, <2>2
<1> QED BY <1>1, Expected

LEMMA OwnTurn ==
  ASSUME NetInv, ChainsValid, LineInv, OneSchedule, NEW n \in Node, chain[n] # << >>,
         NEW list, list = get_current_miners_list(chain[n], miners[n]), list # << >>,
         required_miner(list, Len(chain[n]), 0) = n
  PROVE  list = ListAt(Len(chain[n])) /\ Len(chain[n]) = Len(minted)
<1>1. /\ Len(chain[n]) \in Nat /\ Len(chain[n]) <= Len(minted) /\ Len(minted) \in Nat
      /\ DOMAIN minted = 1..Len(minted)
  BY PeersOnLine
<1>2. list = ListAt(Len(chain[n]))
  <2>1. required_miner(<<Founder>>, Len(chain[n]), 0) = Founder
    <3>1. PICK k : k = Len(chain[n]) + 0
      OBVIOUS
    <3>2. 1 + (k % 1) = 1
      <4>1. k \in Nat
        BY <1>1, <3>1
      <4> QED BY <4>1
    <3>3. Len(<<Founder>>) = 1 /\ <<Founder>>[1] = Founder
      OBVIOUS
    <3>4. required_miner(<<Founder>>, Len(chain[n]), 0) = <<Founder>>[1 + (k % 1)]
      BY <3>1, <3>3 DEF required_miner
    <3> QED BY <3>2, <3>3, <3>4
  <2> QED BY <2>1, Believed
<1>3. Len(chain[n]) # 0
  <2>1. chain[n] \in KnownChain
    BY DEF NetInv
  <2> QED BY <2>1 DEF KnownChain
<1>4. ASSUME Len(chain[n]) # Len(minted) PROVE FALSE
  <2>1. PICK i : i = Len(chain[n]) + 1
    OBVIOUS
  <2>2. i \in DOMAIN minted \ {1} /\ i - 1 = Len(chain[n])
    BY <1>1, <1>3, <1>4, <2>1
  <2>3. minted[i].miner = n /\ Len(chain[minted[i].miner]) >= i
    BY <1>2, <2>2 DEF LineInv, MadeInTurn
  <2> QED BY <1>1, <2>1, <2>3
<1> QED BY <1>2, <1>4

-----------------------------------------------------------------------------
(***************************************************************************)
(* What each queue holds after sending and reading.                        *)
(***************************************************************************)
LEMMA BroadcastTo ==
  ASSUME NEW boxes, Mailed(boxes), NEW msg, NEW n \in Node,
         NEW c \in Conn, NEW m \in Node
  PROVE  broadcast_message(n, msg, boxes)[c][m] =
           IF c \in up /\ n \in Ends(c) /\ m = Other(c, n) /\ IsNew(m, msg)
           THEN Append(boxes[c][m], msg) ELSE boxes[c][m]
<1>1. boxes[c] \in [Node -> Seq(Msg)]
  BY DEF Mailed
<1>2. broadcast_message(n, msg, boxes)[c] =
        IF c \in up /\ n \in Ends(c) /\ IsNew(Other(c, n), msg)
        THEN [boxes[c] EXCEPT ![Other(c, n)] = Append(@, msg)] ELSE boxes[c]
  BY DEF broadcast_message
<1>3. CASE c \in up /\ n \in Ends(c) /\ IsNew(Other(c, n), msg)
  BY <1>1, <1>2, <1>3
<1>4. CASE ~ (c \in up /\ n \in Ends(c) /\ IsNew(Other(c, n), msg))
  BY <1>1, <1>2, <1>4
<1> QED BY <1>3, <1>4

LEMMA SendTo ==
  ASSUME NEW boxes, Mailed(boxes), NEW msg,
         NEW c \in Conn, NEW n \in Ends(c), NEW d \in Conn, NEW m \in Node
  PROVE  send_message(c, n, msg, boxes)[d][m] =
           IF c \in up /\ d = c /\ m = Other(c, n)
           THEN Append(boxes[d][m], msg) ELSE boxes[d][m]
<1>1. /\ boxes \in [Conn -> [Node -> Seq(Msg)]]
      /\ boxes[c] \in [Node -> Seq(Msg)] /\ boxes[d] \in [Node -> Seq(Msg)]
  BY DEF Mailed
<1>2. CASE c \in up
  <2>1. send_message(c, n, msg, boxes)[d] =
          IF d = c THEN [boxes[c] EXCEPT ![Other(c, n)] = Append(@, msg)] ELSE boxes[d]
    BY <1>1, <1>2 DEF send_message
  <2> QED BY <1>1, <1>2, <2>1
<1>3. CASE c \notin up
  BY <1>3 DEF send_message
<1> QED BY <1>2, <1>3

LEMMA ReadOf ==
  ASSUME NEW M, inbox \in [Conn -> [Node -> Seq(M)]],
         NEW c \in Conn, NEW n \in Node, NEW d \in Conn, NEW m \in Node
  PROVE  Read(c, n)[d][m] = IF d = c /\ m = n THEN Tail(inbox[c][n]) ELSE inbox[d][m]
<1>1. inbox[c] \in [Node -> Seq(M)] /\ inbox[d] \in [Node -> Seq(M)]
  OBVIOUS
<1>2. Read(c, n)[d] = IF d = c THEN [inbox[c] EXCEPT ![n] = Tail(@)] ELSE inbox[d]
  BY DEF Read
<1> QED BY <1>1, <1>2

(***************************************************************************)
(* Mail stays what may be sent.                                            *)
(***************************************************************************)
LEMMA MailBroadcast ==
  ASSUME NEW boxes, Mailed(boxes), NEW n \in Node, NEW msg \in Msg,
         \A c \in Conn, m \in Node : msg \in Sendable(c, m)
  PROVE  Mailed(broadcast_message(n, msg, boxes))
<1>1. boxes \in [Conn -> [Node -> Seq(Msg)]]
      /\ \A c \in Conn, m \in Node : boxes[c][m] \in Seq(Sendable(c, m))
  BY DEF Mailed
<1>2. broadcast_message(n, msg, boxes) \in [Conn -> [Node -> Seq(Msg)]]
  BY <1>1, BroadcastType
<1>3. ASSUME NEW c \in Conn, NEW m \in Node
      PROVE  broadcast_message(n, msg, boxes)[c][m] \in Seq(Sendable(c, m))
  <2>1. Append(boxes[c][m], msg) \in Seq(Sendable(c, m))
    <3> HIDE DEF Sendable
    <3> QED BY <1>1, AppendType
  <2>2. broadcast_message(n, msg, boxes)[c][m] \in {boxes[c][m], Append(boxes[c][m], msg)}
    <3>1. broadcast_message(n, msg, boxes)[c][m] =
            IF c \in up /\ n \in Ends(c) /\ m = Other(c, n) /\ IsNew(m, msg)
            THEN Append(boxes[c][m], msg) ELSE boxes[c][m]
      BY BroadcastTo
    <3> QED BY <3>1
  <2> QED BY <1>1, <2>1, <2>2
<1> QED BY <1>2, <1>3 DEF Mailed

LEMMA MailSend ==
  ASSUME NEW boxes, Mailed(boxes), NEW c \in Conn, NEW n \in Ends(c), NEW msg \in Msg,
         msg \in Sendable(c, Other(c, n))
  PROVE  Mailed(send_message(c, n, msg, boxes))
<1>1. boxes \in [Conn -> [Node -> Seq(Msg)]]
      /\ \A d \in Conn, m \in Node : boxes[d][m] \in Seq(Sendable(d, m))
  BY DEF Mailed
<1>2. send_message(c, n, msg, boxes) \in [Conn -> [Node -> Seq(Msg)]]
  BY <1>1, SendType
<1>3. ASSUME NEW d \in Conn, NEW m \in Node
      PROVE  send_message(c, n, msg, boxes)[d][m] \in Seq(Sendable(d, m))
  <2>1. CASE d = c /\ m = Other(c, n)
    <3>1. Append(boxes[d][m], msg) \in Seq(Sendable(d, m))
      BY <1>1, <2>1, AppendType
    <3>2. send_message(c, n, msg, boxes)[d][m] \in {boxes[d][m], Append(boxes[d][m], msg)}
      <4>1. send_message(c, n, msg, boxes)[d][m] =
              IF c \in up /\ d = c /\ m = Other(c, n)
              THEN Append(boxes[d][m], msg) ELSE boxes[d][m]
        BY SendTo
      <4> QED BY <4>1
    <3> QED BY <1>1, <3>1, <3>2
  <2>2. CASE ~ (d = c /\ m = Other(c, n))
    <3>1. send_message(c, n, msg, boxes)[d][m] = boxes[d][m]
      BY <2>2, SendTo
    <3> QED BY <1>1, <3>1
  <2> QED BY <2>1, <2>2
<1> QED BY <1>2, <1>3 DEF Mailed

LEMMA MailRead ==
  ASSUME Mailed(inbox), NEW c \in Conn, NEW n \in Node, inbox[c][n] # << >>
  PROVE  /\ Head(inbox[c][n]) \in Sendable(c, n) /\ Mailed(Read(c, n))
<1>1. inbox \in [Conn -> [Node -> Seq(Msg)]]
      /\ \A d \in Conn, m \in Node : inbox[d][m] \in Seq(Sendable(d, m))
  BY DEF Mailed
<1>2. Head(inbox[c][n]) \in Sendable(c, n) /\ Tail(inbox[c][n]) \in Seq(Sendable(c, n))
  <2>1. PICK S : S = Sendable(c, n)
    OBVIOUS
  <2>2. inbox[c][n] \in Seq(S)
    BY <1>1, <2>1
  <2>3. Head(inbox[c][n]) \in S /\ Tail(inbox[c][n]) \in Seq(S)
    BY <2>2
  <2> QED BY <2>1, <2>3
<1>3. Read(c, n) \in [Conn -> [Node -> Seq(Msg)]]
  BY <1>1, ReadType
<1>4. ASSUME NEW d \in Conn, NEW m \in Node PROVE Read(c, n)[d][m] \in Seq(Sendable(d, m))
  <2>1. Read(c, n)[d][m] = IF d = c /\ m = n THEN Tail(inbox[c][n]) ELSE inbox[d][m]
    BY <1>1, ReadOf
  <2> QED BY <1>1, <1>2, <2>1
<1> QED BY <1>2, <1>3, <1>4 DEF Mailed

LEMMA MailCut ==
  ASSUME Mailed(inbox), inbox' \in [Conn -> [Node -> Seq(Msg)]],
         \A c \in Conn, n \in Node : inbox'[c][n] \in {inbox[c][n], << >>}
  PROVE  Mailed(inbox')
<1>1. ASSUME NEW c \in Conn, NEW n \in Node PROVE inbox'[c][n] \in Seq(Sendable(c, n))
  <2>1. PICK S : S = Sendable(c, n)
    OBVIOUS
  <2>2. inbox[c][n] \in Seq(S) /\ << >> \in Seq(S)
    BY <2>1 DEF Mailed
  <2> QED BY <2>1, <2>2
<1> QED BY <1>1 DEF Mailed

LEMMA MailFails ==
  ASSUME Mailed(inbox), NEW c \in Conn, NEW n \in Node, HandlerFails(c, n)
  PROVE  Mailed(inbox')
<1>1. inbox \in [Conn -> [Node -> Seq(Msg)]] /\ inbox[c] \in [Node -> Seq(Msg)]
  BY DEF Mailed
<1>2. inbox' = [inbox EXCEPT ![c] = [inbox[c] EXCEPT ![n] = << >>]]
  BY DEF HandlerFails
<1>3. [inbox[c] EXCEPT ![n] = << >>] \in [Node -> Seq(Msg)]
  BY <1>1
<1>4. inbox' \in [Conn -> [Node -> Seq(Msg)]]
  BY <1>1, <1>2, <1>3
<1>5. \A d \in Conn, m \in Node : inbox'[d][m] \in {inbox[d][m], << >>}
  BY <1>1, <1>2
<1> QED BY <1>4, <1>5, MailCut

LEMMA MailNow ==
  ASSUME Mailed(inbox'), UNCHANGED scheduled
  PROVE  Mailed(inbox)'
<1>1. Entries' = Entries
  BY DEF Entries
<1>2. \A c, n : Sendable(c, n)' = Sendable(c, n)
  BY <1>1 DEF Sendable
<1> QED BY <1>2 DEF Mailed

\* Transactions, blocks, chains and requests for them may be sent anywhere.
LEMMA MailPlain ==
  ASSUME NEW msg \in Msg,
         msg.type \notin {"miners_list_update", "network_details_request", "network_details"}
  PROVE  \A c, n : msg \in Sendable(c, n)
BY DEF Sendable

LEMMA KnownSent == ASSUME MintedInOrder PROVE KnownMsg \subseteq Msg
<1>1. KnownBlock \subseteq Block /\ \A c \in KnownChain : c \in Seq(Block)
  BY KnownAreBlocks
<1> QED BY <1>1 DEF KnownMsg, Msg

-----------------------------------------------------------------------------
(***************************************************************************)
(* Chains grow, and what was made in turn stays so.                        *)
(***************************************************************************)
Longer == \A n \in Node : /\ Len(chain[n]) \in Nat /\ Len(chain'[n]) \in Nat
                          /\ Len(chain'[n]) >= Len(chain[n])

LEMMA GrowsLonger ==
  ASSUME NetInv, NEW n \in Node, NEW c \in Seq(Block), Len(c) >= Len(chain[n]),
         chain' = [chain EXCEPT ![n] = c]
  PROVE  Longer
<1>1. \A m \in Node : chain[m] \in Seq(Block)
  BY KnownAreBlocks DEF NetInv
<1>2. \A m \in Node : chain'[m] = IF m = n THEN c ELSE chain[m]
  BY DEF NetInv
<1> QED BY <1>1, <1>2 DEF Longer

LEMMA SameLonger ==
  ASSUME NetInv, UNCHANGED chain
  PROVE  Longer
<1>1. \A m \in Node : chain[m] \in Seq(Block)
  BY KnownAreBlocks DEF NetInv
<1> QED BY <1>1 DEF Longer

LEMMA MadeSame ==
  ASSUME MintedInOrder, MadeInTurn, Longer, UNCHANGED <<minted, scheduled>>
  PROVE  MadeInTurn'
<1>1. \A i : ListAt(i)' = ListAt(i)
  BY DEF ListAt
<1>2. DOMAIN minted \subseteq Nat
  BY DEF MintedInOrder
<1>3. ASSUME NEW i \in DOMAIN minted \ {1}
      PROVE  Len(chain'[minted[i].miner]) >= i /\ minted[i].miner \in Node
  <2>1. minted[i].miner \in Node /\ Len(chain[minted[i].miner]) >= i
    BY DEF MadeInTurn
  <2>2. i \in Nat
    BY <1>2
  <2> QED BY <2>1, <2>2 DEF Longer
<1> QED BY <1>1, <1>3 DEF MadeInTurn

(***************************************************************************)
(* A step that neither makes a block nor touches a schedule or a round.    *)
(***************************************************************************)
LEMMA LineQuiet ==
  ASSUME NetInv, LineInv, Mailed(inbox'), Longer,
         UNCHANGED <<minted, scheduled, miners, round, waited>>,
         \A n \in Node : late'[n] \in {late[n], {}}
  PROVE  LineInv'
<1>1. Mailed(inbox)'
  BY MailNow
<1>2. MadeInTurn'
  BY MadeSame DEF NetInv, LineInv
<1>3. TurnsKept'
  BY DEF LineInv, TurnsKept
<1>4. MinersKept'
  <2>1. Entries' = Entries
    BY DEF Entries
  <2>2. ASSUME scheduled # << >>, Len(chain[Founder]) > scheduled[1].activation_block
        PROVE  Len(chain'[Founder]) > scheduled[1].activation_block
    <3>1. scheduled[1] \in Entry
      BY <2>2 DEF NetInv, ScheduleOK
    <3>2. scheduled[1].activation_block \in Nat
      BY <3>1 DEF Entry
    <3>3. Founder \in Node
      BY PoaAssumption
    <3> QED BY <2>2, <3>2, <3>3 DEF Longer
  <2> QED BY <2>1, <2>2 DEF LineInv, MinersKept
<1> QED BY <1>1, <1>2, <1>3, <1>4 DEF LineInv

LEMMA DropKept ==
  ASSUME NEW S, NEW entries \in Seq(S), NEW entry, S \subseteq {entry}, NEW len
  PROVE  /\ drop_past_entries(entries, len) \in Seq(S)
         /\ entries # << >> /\ ~ (entry.activation_block < len)
              => drop_past_entries(entries, len) # << >>
<1> DEFINE gone == {i \in 0..Len(entries) :
                      \A j \in 1..i : entries[j].activation_block < len}
           last == CHOOSE i \in gone : \A j \in gone : j <= i
<1>1. Len(entries) \in Nat /\ 0 \in gone /\ gone \in SUBSET (0..Len(entries))
  OBVIOUS
<1>2. last \in gone
  <2> HIDE DEF gone
  <2>1. \E i \in gone : \A j \in gone : j <= i
    BY <1>1, GreatestElement
  <2> QED BY <2>1
<1>3. drop_past_entries(entries, len) = SubSeq(entries, 1 + last, Len(entries))
  BY DEF drop_past_entries
<1>4. last \in 0..Len(entries)
  BY <1>1, <1>2
<1>5. \A j \in 1..last : entries[j].activation_block < len
  BY <1>2
<1> HIDE DEF last, gone
<1>6. SubSeq(entries, 1 + last, Len(entries)) \in Seq(S)
  <2>1. \A i \in (1 + last)..Len(entries) : entries[i] \in S
    BY <1>1, <1>4
  <2> QED BY <1>1, <1>4, <2>1
<1>7. ASSUME entries # << >>, ~ (entry.activation_block < len)
      PROVE  SubSeq(entries, 1 + last, Len(entries)) # << >>
  <2>1. Len(entries) # 0 /\ \A j \in 1..Len(entries) : entries[j] = entry
    BY <1>7
  <2>2. last = 0
    <3>1. ASSUME last # 0 PROVE FALSE
      <4>1. 1 \in 1..last /\ 1 \in 1..Len(entries)
        BY <1>1, <1>4, <3>1
      <4> QED BY <1>5, <1>7, <2>1, <4>1
    <3> QED BY <3>1
  <2>3. PICK q : q = SubSeq(entries, 1 + last, Len(entries))
    OBVIOUS
  <2>4. Len(q) # 0
    BY <1>1, <2>1, <2>2, <2>3
  <2>5. q # << >>
    BY <2>4
  <2> QED BY <2>3, <2>5
<1> QED BY <1>3, <1>6, <1>7

\* A block that is appended starts the round again; the admin's entry stays until
\* it is past.
LEMMA LineAfterBlock ==
  ASSUME NetInv, LineInv, OneSchedule, NEW n \in Node, NEW c \in Seq(Block), NEW caller,
         Len(c) >= Len(chain[n]), chain' = [chain EXCEPT ![n] = c], AfterBlock(n, c, caller),
         UNCHANGED scheduled
  PROVE  TurnsKept' /\ MinersKept'
<1> DEFINE ahead == drop_past_entries(miners[n], Len(c))
<1>1. /\ round' = [round EXCEPT ![n] = 0] /\ waited' = [waited EXCEPT ![n] = FALSE]
      /\ miners' = [miners EXCEPT ![n] = ahead]
      /\ \E gone : late' = [late EXCEPT ![n] = {l \in @ : l.task \notin gone}]
  BY DEF AfterBlock, update_role
<1>2. TurnsKept'
  <2>1. /\ DOMAIN round = Node /\ DOMAIN waited = Node /\ DOMAIN late = Node
    BY DEF NetInv, RolesOK
  <2>2. \A m \in Node : late'[m] = {}
    BY <1>1, <2>1 DEF LineInv, TurnsKept
  <2> QED BY <1>1, <2>1, <2>2 DEF LineInv, TurnsKept
<1>3. \E entry : Entries \subseteq {entry} /\ (scheduled # << >> => entry = scheduled[1])
  <2>1. scheduled = << >> => Entries \subseteq {None}
    BY OnlyEntry
  <2>2. scheduled # << >> => Entries \subseteq {scheduled[1]}
    BY OnlyEntry
  <2> QED BY <2>1, <2>2
<1>4. PICK entry : Entries \subseteq {entry} /\ (scheduled # << >> => entry = scheduled[1])
  BY <1>3
<1>5. miners \in [Node -> Seq(Entries)] /\ miners[n] \in Seq(Entries)
  BY DEF LineInv, MinersKept
<1>6. /\ ahead \in Seq(Entries)
      /\ miners[n] # << >> /\ ~ (entry.activation_block < Len(c)) => ahead # << >>
  BY <1>4, <1>5, DropKept
<1> HIDE DEF ahead
<1>7. miners' \in [Node -> Seq(Entries)]
  BY <1>1, <1>5, <1>6
<1>8. ASSUME scheduled # << >>
      PROVE  miners'[Founder] # << >> \/ Len(chain'[Founder]) > scheduled[1].activation_block
  <2>1. /\ Founder \in Node /\ Longer /\ scheduled[1].activation_block \in Nat
        /\ miners[Founder] # << >> \/ Len(chain[Founder]) > scheduled[1].activation_block
    BY <1>8, GrowsLonger, OnlyEntry, PoaAssumption DEF LineInv, MinersKept
  <2>2. CASE n # Founder
    BY <1>1, <1>5, <2>1, <2>2 DEF Longer
  <2>3. CASE n = Founder
    <3>1. Len(c) \in Nat /\ chain'[n] = c /\ miners'[n] = ahead
      BY <1>1, <1>5 DEF NetInv
    <3>2. CASE scheduled[1].activation_block < Len(c)
      BY <2>1, <2>3, <3>1, <3>2
    <3>3. CASE ~ (scheduled[1].activation_block < Len(c))
      <4>1. miners[Founder] # << >>
        BY <2>1, <2>3, <3>1, <3>3 DEF Longer
      <4> QED BY <1>4, <1>6, <1>8, <2>3, <3>1, <3>3, <4>1
    <3> QED BY <3>2, <3>3
  <2> QED BY <2>2, <2>3
<1>9. Entries' = Entries
  BY DEF Entries
<1> QED BY <1>2, <1>7, <1>8, <1>9 DEF LineInv, MinersKept

-----------------------------------------------------------------------------
(***************************************************************************)
(* One step at a time: messages that only pass on.                         *)
(***************************************************************************)
LEMMA LineCreate ==
  ASSUME NetInv, LineInv, NEW n \in Node, NEW rec \in Account \ {n}, NEW amt \in Amount,
         create_and_broadcast_tx(n, rec, amt)
  PROVE  LineInv'
<1> DEFINE tx == [id |-> created + 1, sender |-> n, receiver |-> rec, amount |-> amt]
           msg == [type |-> "new_tx", transaction |-> tx]
<1>1. /\ inbox' = broadcast_message(n, msg, inbox)
      /\ UNCHANGED <<chain, minted, scheduled, miners, round, waited, late>>
  BY DEF create_and_broadcast_tx, taskVars
<1>2. tx \in Tx
  BY PoaAssumption DEF NetInv, WorkOK, Tx
<1>3. msg \in Msg /\ msg.type = "new_tx"
  BY <1>2 DEF Msg
<1>4. Mailed(inbox')
  <2> HIDE DEF msg
  <2>1. \A c \in Conn, m \in Node : msg \in Sendable(c, m)
    BY <1>3, MailPlain
  <2> QED BY <1>1, <1>3, <2>1, MailBroadcast DEF LineInv
<1> QED BY <1>1, <1>4, SameLonger, LineQuiet

LEMMA LineNewTx ==
  ASSUME NetInv, LineInv, NEW c \in Conn, NEW n \in Ends(c), HandleNewTx(c, n)
  PROVE  LineInv'
<1>1. /\ n \in Node /\ inbox[c][n] # << >> /\ Head(inbox[c][n]).type = "new_tx"
      /\ UNCHANGED <<chain, minted, scheduled, miners, round, waited, late>>
  BY EndsAreNodes DEF HandleNewTx, Reads, taskVars
<1>2. PICK msg : msg = Head(inbox[c][n])
  OBVIOUS
<1>3. /\ inbox' = Read(c, n) \/ HandlerFails(c, n)
         \/ inbox' = broadcast_message(n, msg, Read(c, n))
  BY <1>2 DEF HandleNewTx
<1>4. msg \in Sendable(c, n) /\ Mailed(Read(c, n))
  BY <1>1, <1>2, MailRead DEF LineInv
<1>5. msg \in Msg /\ \A d \in Conn, m \in Node : msg \in Sendable(d, m)
  <2>1. msg \in Msg
    BY <1>4 DEF Sendable
  <2> QED BY <1>1, <1>2, <2>1, MailPlain
<1>6. Mailed(inbox')
  BY <1>1, <1>3, <1>4, <1>5, MailBroadcast, MailFails DEF LineInv
<1> QED BY <1>1, <1>6, SameLonger, LineQuiet

LEMMA LineFind ==
  ASSUME NetInv, LineInv, NEW n \in Node, find_longest_chain(n)
  PROVE  LineInv'
<1> DEFINE asks == {c \in up : n \in Ends(c) /\ ~ Asked(c, n)}
           msg == [type |-> "chain_request"]
<1>1. UNCHANGED <<chain, minted, scheduled, miners, round, waited, late>>
  BY DEF find_longest_chain, peerVars, taskVars, historyVars
<1>2. inbox' = [c \in Conn |-> IF c \in asks
                               THEN [inbox[c] EXCEPT ![Other(c, n)] = Append(@, msg)]
                               ELSE inbox[c]]
  BY DEF find_longest_chain
<1>3. /\ inbox \in [Conn -> [Node -> Seq(Msg)]]
      /\ \A c \in Conn, m \in Node : inbox[c][m] \in Seq(Sendable(c, m))
  BY DEF LineInv, Mailed
<1>4. msg \in Msg /\ \A c, m : msg \in Sendable(c, m)
  <2>1. msg \in Msg /\ msg.type = "chain_request"
    BY DEF Msg
  <2> HIDE DEF msg
  <2> QED BY <2>1, MailPlain
<1> HIDE DEF msg
<1>5. ASSUME NEW c \in Conn
      PROVE  /\ inbox'[c] \in [Node -> Seq(Msg)]
             /\ \A m \in Node : inbox'[c][m] \in {inbox[c][m], Append(inbox[c][m], msg)}
  <2>1. inbox[c] \in [Node -> Seq(Msg)]
    BY <1>3
  <2>2. CASE c \in asks
    <3>1. inbox'[c] = [inbox[c] EXCEPT ![Other(c, n)] = Append(inbox[c][Other(c, n)], msg)]
      BY <1>2, <2>2
    <3>2. Other(c, n) \in Node
      BY <2>2, EndsAreNodes
    <3>3. Append(inbox[c][Other(c, n)], msg) \in Seq(Msg)
      BY <1>4, <2>1, <3>2, AppendType
    <3> QED BY <2>1, <3>1, <3>2, <3>3
  <2>3. CASE c \notin asks
    BY <1>2, <2>1, <2>3
  <2> QED BY <2>2, <2>3
<1>6. ASSUME NEW c \in Conn, NEW m \in Node PROVE inbox'[c][m] \in Seq(Sendable(c, m))
  <2>1. Append(inbox[c][m], msg) \in Seq(Sendable(c, m))
    BY <1>3, <1>4, AppendType
  <2> QED BY <1>3, <1>5, <2>1
<1>7. inbox' \in [Conn -> [Node -> Seq(Msg)]]
  BY <1>2, <1>5
<1>8. Mailed(inbox')
  BY <1>6, <1>7 DEF Mailed
<1> QED BY <1>1, <1>8, SameLonger, LineQuiet

LEMMA LineChainRequest ==
  ASSUME NetInv, LineInv, NEW c \in Conn, NEW n \in Ends(c), HandleChainRequest(c, n)
  PROVE  LineInv'
<1> DEFINE msg == [type |-> "chain", chain |-> chain[n]]
<1>1. /\ n \in Node /\ inbox[c][n] # << >>
      /\ inbox' = IF chain[n] = << >> THEN Read(c, n) ELSE send_message(c, n, msg, Read(c, n))
      /\ UNCHANGED <<chain, minted, scheduled, miners, round, waited, late>>
  BY EndsAreNodes DEF HandleChainRequest, Reads, peerVars, taskVars, historyVars
<1>2. Mailed(Read(c, n))
  BY <1>1, MailRead DEF LineInv
<1>3. msg \in Msg /\ msg.type = "chain"
  <2>1. chain[n] \in Seq(Block)
    BY <1>1, KnownAreBlocks DEF NetInv
  <2> QED BY <2>1 DEF Msg
<1>4. Mailed(inbox')
  <2> HIDE DEF msg
  <2>1. msg \in Sendable(c, Other(c, n))
    BY <1>3, MailPlain
  <2> QED BY <1>1, <1>2, <1>3, <2>1, MailSend
<1> QED BY <1>1, <1>4, SameLonger, LineQuiet

\* A newcomer sits at the client's end of the connection it asks over.
LEMMA LineDetailsRequest ==
  ASSUME NetInv, LineInv, NEW c \in Conn, NEW n \in Ends(c), HandleDetailsRequest(c, n)
  PROVE  LineInv'
<1>1. /\ n \in Node /\ inbox[c][n] # << >>
      /\ Head(inbox[c][n]).type = "network_details_request"
      /\ inbox' = send_message(c, n, network_details(n), Read(c, n))
      /\ UNCHANGED <<chain, minted, scheduled, miners, round, waited, late>>
  BY EndsAreNodes DEF HandleDetailsRequest, Reads, peerVars, taskVars, historyVars
<1>2. Mailed(Read(c, n)) /\ Head(inbox[c][n]) \in Sendable(c, n)
  BY <1>1, MailRead DEF LineInv
<1>3. n = c[2] /\ c[1] \notin Joined /\ Other(c, n) = c[1]
  <2>1. n = c[2] /\ c[1] \notin Joined
    BY <1>1, <1>2 DEF Sendable
  <2> QED BY <2>1, PoaAssumption DEF Other
<1>4. network_details(n) \in Msg
  <2>1. admin_id[n] \in Node \cup {None} /\ miners[n] \in Seq(Entry)
    BY <1>1 DEF NetInv, ScheduleOK
  <2> QED BY <2>1 DEF network_details, Msg
<1>5. network_details(n) \in Sendable(c, Other(c, n))
  <2>1. miners[n] \in Seq(Entries)
    BY <1>1 DEF LineInv, MinersKept
  <2> QED BY <1>3, <1>4, <2>1 DEF network_details, Sendable
<1>6. Mailed(inbox')
  BY <1>1, <1>2, <1>4, <1>5, MailSend
<1> QED BY <1>1, <1>6, SameLonger, LineQuiet

LEMMA LineChain ==
  ASSUME NetInv, LineInv, NEW c \in Conn, NEW n \in Ends(c), HandleChain(c, n)
  PROVE  LineInv'
<1>1. /\ n \in Node /\ inbox[c][n] # << >> /\ inbox' = Read(c, n)
      /\ UNCHANGED <<minted, scheduled, miners, round, waited, late>>
  BY EndsAreNodes DEF HandleChain, Reads, taskVars, historyVars
<1>2. Mailed(inbox')
  BY <1>1, MailRead DEF LineInv
<1>3. Longer
  <2>1. CASE UNCHANGED chain
    BY <2>1, SameLonger
  <2>2. ASSUME NEW block_list \in KnownChain, Len(block_list) > Len(chain[n]),
               chain' = [chain EXCEPT ![n] = block_list]
        PROVE  Longer
    <3>1. block_list \in Seq(Block) /\ chain[n] \in Seq(Block)
      BY <1>1, KnownAreBlocks DEF NetInv
    <3>2. Len(block_list) >= Len(chain[n])
      BY <2>2, <3>1
    <3> QED BY <1>1, <2>2, <3>1, <3>2, GrowsLonger
  <2> QED BY <2>1, <2>2, ChainTaken
<1> QED BY <1>1, <1>2, <1>3, LineQuiet

LEMMA LineConnections ==
  ASSUME NetInv, LineInv, NEW c \in Conn, Disconnect(c) \/ connect_to_peer(c)
  PROVE  LineInv'
<1>1. UNCHANGED <<chain, minted, scheduled, miners, round, waited, late>>
  BY DEF Disconnect, connect_to_peer, peerVars, taskVars, historyVars
<1>2. inbox \in [Conn -> [Node -> Seq(Msg)]] /\ inbox[c] \in [Node -> Seq(Msg)]
  BY DEF LineInv, Mailed
<1>3. /\ inbox' \in [Conn -> [Node -> Seq(Msg)]]
      /\ \A d \in Conn, m \in Node : inbox'[d][m] \in {inbox[d][m], << >>}
  <2>1. CASE connect_to_peer(c)
    BY <1>2, <2>1 DEF connect_to_peer
  <2>2. CASE Disconnect(c)
    <3>1. PICK lost : inbox' = [inbox EXCEPT ![c] =
                                  [n \in Node |-> IF n \in lost THEN << >> ELSE @[n]]]
      BY <2>2 DEF Disconnect
    <3>2. [n \in Node |-> IF n \in lost THEN << >> ELSE inbox[c][n]] \in [Node -> Seq(Msg)]
      <4>1. << >> \in Seq(Msg)
        OBVIOUS
      <4> QED BY <1>2, <4>1
    <3>3. inbox' = [inbox EXCEPT ![c] = [n \in Node |-> IF n \in lost THEN << >> ELSE inbox[c][n]]]
      BY <3>1
    <3> QED BY <1>2, <3>2, <3>3
  <2> QED BY <2>1, <2>2
<1>4. Mailed(inbox')
  BY <1>3, MailCut DEF LineInv
<1> QED BY <1>1, <1>4, SameLonger, LineQuiet

LEMMA LineStop ==
  ASSUME NetInv, LineInv, NEW n \in Node, Stop(n)
  PROVE  LineInv'
<1>1. /\ UNCHANGED <<chain, minted, scheduled, miners, round, waited>>
      /\ late' = [late EXCEPT ![n] = {}]
      /\ inbox' = [c \in Conn |-> IF n \in Ends(c) THEN [inbox[c] EXCEPT ![n] = << >>]
                                                   ELSE inbox[c]]
  BY DEF Stop, peerVars, historyVars
<1>2. \A c \in Conn : inbox[c] \in [Node -> Seq(Msg)]
  BY DEF LineInv, Mailed
<1>3. ASSUME NEW c \in Conn
      PROVE  /\ inbox'[c] \in [Node -> Seq(Msg)]
             /\ \A m \in Node : inbox'[c][m] \in {inbox[c][m], << >>}
  <2>1. inbox[c] \in [Node -> Seq(Msg)] /\ << >> \in Seq(Msg)
    BY <1>2
  <2>2. inbox'[c] = IF n \in Ends(c) THEN [inbox[c] EXCEPT ![n] = << >>] ELSE inbox[c]
    BY <1>1
  <2> QED BY <2>1, <2>2
<1>4. inbox' \in [Conn -> [Node -> Seq(Msg)]]
  BY <1>1, <1>3
<1>5. Mailed(inbox')
  BY <1>3, <1>4, MailCut DEF LineInv
<1>6. \A m \in Node : late'[m] \in {late[m], {}}
  <2>1. DOMAIN late = Node
    BY DEF NetInv, RolesOK
  <2> QED BY <1>1, <2>1
<1> QED BY <1>1, <1>5, <1>6, SameLonger, LineQuiet

(***************************************************************************)
(* One step at a time: schedules.                                          *)
(***************************************************************************)
LEMMA LineMiners ==
  ASSUME NetInv, LineInv, Mailed(inbox'), NEW n \in Node, NEW q \in Seq(Entries),
         n = Founder => q # << >>, miners' = [miners EXCEPT ![n] = q],
         UNCHANGED <<chain, minted, scheduled, round, waited, late>>
  PROVE  LineInv'
<1>1. Mailed(inbox)'
  BY MailNow
<1>2. MadeInTurn'
  BY MadeSame, SameLonger DEF NetInv, LineInv
<1>3. TurnsKept'
  BY DEF LineInv, TurnsKept
<1>4. MinersKept'
  <2>1. Entries' = Entries
    BY DEF Entries
  <2>2. miners \in [Node -> Seq(Entries)]
    BY DEF LineInv, MinersKept
  <2>3. miners' \in [Node -> Seq(Entries)]
    BY <2>2
  <2>4. miners'[Founder] = IF n = Founder THEN q ELSE miners[Founder]
    BY <2>2, PoaAssumption
  <2> QED BY <2>1, <2>3, <2>4 DEF LineInv, MinersKept
<1> QED BY <1>1, <1>2, <1>3, <1>4 DEF LineInv

LEMMA LineUpdate ==
  ASSUME NetInv, LineInv, NEW c \in Conn, NEW n \in Ends(c), HandleMinersListUpdate(c, n)
  PROVE  LineInv'
<1>1. /\ n \in Node /\ inbox[c][n] # << >>
      /\ Head(inbox[c][n]).type = "miners_list_update"
      /\ UNCHANGED <<chain, minted, scheduled, round, waited, late>>
  BY EndsAreNodes DEF HandleMinersListUpdate, Reads, taskVars, historyVars
<1>2. PICK msg : msg = Head(inbox[c][n])
  OBVIOUS
<1>3. \/ inbox' = Read(c, n) /\ UNCHANGED miners
      \/ /\ inbox' = broadcast_message(n, msg, Read(c, n))
         /\ miners' = [miners EXCEPT ![n] = learn(n, msg.entry)]
  BY <1>2 DEF HandleMinersListUpdate
<1>4. msg \in Sendable(c, n) /\ Mailed(Read(c, n)) /\ msg.type = "miners_list_update"
  BY <1>1, <1>2, MailRead DEF LineInv
<1>5. msg \in Msg /\ msg.number \in DOMAIN scheduled /\ msg.entry = scheduled[msg.number]
  BY <1>4 DEF Sendable
<1>6. \A d \in Conn, m \in Node : msg \in Sendable(d, m)
  BY <1>4, <1>5 DEF Sendable
<1>7. CASE inbox' = Read(c, n) /\ UNCHANGED miners
  BY <1>1, <1>4, <1>7, SameLonger, LineQuiet
<1>8. CASE /\ inbox' = broadcast_message(n, msg, Read(c, n))
           /\ miners' = [miners EXCEPT ![n] = learn(n, msg.entry)]
  <2>1. Mailed(inbox')
    BY <1>1, <1>4, <1>5, <1>6, <1>8, MailBroadcast
  <2>2. learn(n, msg.entry) \in Seq(Entries) /\ learn(n, msg.entry) # << >>
    <3>1. msg.entry \in Entries
      BY <1>5 DEF Entries
    <3>2. miners[n] \in Seq(Entries)
      BY <1>1 DEF LineInv, MinersKept
    <3> QED BY <3>1, <3>2, AppendType DEF learn
  <2> QED BY <1>1, <1>8, <2>1, <2>2, LineMiners
<1> QED BY <1>3, <1>7, <1>8

\* Details go to newcomers only, never to the admin.
LEMMA LineDetails ==
  ASSUME NetInv, LineInv, NEW c \in Conn, NEW n \in Ends(c), HandleDetails(c, n)
  PROVE  LineInv'
<1> DEFINE ask == [type |-> "chain_request"]
<1>1. /\ n \in Node /\ inbox[c][n] # << >> /\ Head(inbox[c][n]).type = "network_details"
      /\ inbox' = send_message(c, n, ask, Read(c, n))
      /\ UNCHANGED <<chain, minted, scheduled, round, waited, late>>
  BY EndsAreNodes DEF HandleDetails, Reads, taskVars, historyVars
<1>2. PICK msg : msg = Head(inbox[c][n])
  OBVIOUS
<1>3. miners' = [miners EXCEPT ![n] = msg.miners]
  BY <1>2 DEF HandleDetails
<1>4. msg \in Sendable(c, n) /\ Mailed(Read(c, n)) /\ msg.type = "network_details"
  BY <1>1, <1>2, MailRead DEF LineInv
<1>5. msg.miners \in Seq(Entries) /\ n # Founder
  <2>1. msg.miners \in Seq(Entries) /\ n = c[1] /\ c[1] \notin Joined
    BY <1>4 DEF Sendable
  <2> QED BY <2>1, PoaAssumption
<1>6. Mailed(inbox')
  <2>1. ask \in Msg /\ ask.type = "chain_request"
    BY DEF Msg
  <2> HIDE DEF ask
  <2>2. ask \in Sendable(c, Other(c, n))
    BY <2>1, MailPlain
  <2> QED BY <1>1, <1>4, <2>1, <2>2, MailSend
<1> QED BY <1>1, <1>3, <1>5, <1>6, LineMiners

LEMMA FounderTurn ==
  ASSUME NEW k \in Nat
  PROVE  required_miner(<<Founder>>, k, 0) = Founder
<1>1. 1 + ((k + 0) % 1) = 1
  OBVIOUS
<1>2. Len(<<Founder>>) = 1 /\ <<Founder>>[1] = Founder
  OBVIOUS
<1>3. required_miner(<<Founder>>, k, 0) = <<Founder>>[1 + ((k + 0) % 1)]
  BY <1>2 DEF required_miner
<1> QED BY <1>1, <1>2, <1>3

\* Until there is a schedule the admin has made every block.
LEMMA FounderHasAll ==
  ASSUME NetInv, LineInv, scheduled = << >>, FirstMiners = <<Founder>>,
         chain[Founder] # << >>
  PROVE  Len(minted) <= Len(chain[Founder])
<1>1. /\ DOMAIN minted = 1..Len(minted) /\ Len(minted) \in Nat /\ Len(minted) >= 1
  BY DEF NetInv, MintedInOrder
<1>2. Len(chain[Founder]) \in Nat /\ Len(chain[Founder]) # 0
  <2>1. chain[Founder] \in KnownChain
    BY PoaAssumption DEF NetInv
  <2> QED BY <2>1 DEF KnownChain
<1>3. CASE Len(minted) = 1
  BY <1>2, <1>3
<1>4. CASE Len(minted) # 1
  <2>1. PICK i : i = Len(minted)
    OBVIOUS
  <2>2. i \in DOMAIN minted \ {1} /\ i - 1 \in Nat
    BY <1>1, <1>4, <2>1
  <2>3. minted[i].miner = required_miner(ListAt(i - 1), i - 1, 0)
        /\ Len(chain[minted[i].miner]) >= i
    BY <2>2 DEF LineInv, MadeInTurn
  <2>4. ListAt(i - 1) = <<Founder>>
    BY DEF ListAt
  <2>5. minted[i].miner = Founder
    BY <2>2, <2>3, <2>4, FounderTurn
  <2> QED BY <1>1, <1>2, <2>1, <2>3, <2>5
<1> QED BY <1>3, <1>4

LEMMA LineSchedule ==
  ASSUME NetInv, LineInv, OneSchedule, NEW n \in Node, NEW member \in Node,
         user_input_handler(n, member)
  PROVE  LineInv'
<1>1. /\ n = Founder /\ chain[n] # << >> /\ Len(scheduled) < MaxUpdates
  BY DEF user_input_handler, NetInv, Idle
<1>2. /\ scheduled = << >> /\ FirstMiners = <<Founder>> /\ MaxUpdates = 1
      /\ DOMAIN scheduled = {} /\ Entries = {}
  <2>1. Len(scheduled) \in Nat /\ scheduled \in Seq(Entry)
    BY DEF NetInv, ScheduleOK
  <2>2. MaxUpdates = 1 /\ FirstMiners = <<Founder>>
    BY <1>1, <2>1 DEF OneSchedule
  <2>3. scheduled = << >>
    BY <1>1, <2>1, <2>2
  <2> QED BY <2>2, <2>3 DEF Entries
<1> DEFINE latest == latest_list(chain[n], miners[n])
<1>3. PICK miners_list : miners_list \in Seq(Account) /\ schedule_miners(n, miners_list)
  <2>1. latest \in Seq(Account)
    <3>1. chain[n] \in Seq(Block) /\ miners[n] \in Seq(Entry)
      BY KnownAreBlocks DEF NetInv, ScheduleOK
    <3> QED BY <1>1, <3>1, LatestType
  <2> HIDE DEF latest
  <2>2. Append(latest, member) \in Seq(Account)
    BY <2>1, PoaAssumption
  <2>3. Without(latest, {member}) \in Seq(Account)
    BY <2>1, WithoutType
  <2>4. \/ schedule_miners(n, Append(latest, member))
        \/ schedule_miners(n, Without(latest, {member}))
    BY DEF user_input_handler, latest
  <2> QED BY <2>2, <2>3, <2>4
<1>4. PICK entry : entry = [miners_list |-> miners_list,
                            activation_block |-> activation_block(Len(chain[n]))]
  OBVIOUS
<1>5. PICK msg : msg = [type |-> "miners_list_update", number |-> Len(scheduled) + 1,
                        entry |-> entry]
  OBVIOUS
<1>6. /\ scheduled' = Append(scheduled, entry)
      /\ miners' = [miners EXCEPT ![n] = Append(miners[n], entry)]
      /\ inbox' = broadcast_message(n, msg, inbox)
      /\ UNCHANGED <<chain, minted, round, waited, late>>
  BY <1>3, <1>4, <1>5 DEF schedule_miners, taskVars
<1>7. /\ Len(chain[n]) \in Nat /\ activation_block(Len(chain[n])) = Len(chain[n]) + 3
      /\ entry \in Entry /\ entry.activation_block = Len(chain[n]) + 3
  <2>1. Len(chain[n]) \in Nat
    <3>1. chain[n] \in KnownChain
      BY DEF NetInv
    <3> QED BY <3>1 DEF KnownChain
  <2> QED BY <1>3, <1>4, <2>1 DEF Entry, activation_block
<1>8. scheduled' = <<entry>> /\ DOMAIN scheduled' = {1} /\ scheduled'[1] = entry
      /\ Len(scheduled') = 1
  BY <1>2, <1>6
<1>9. Entries' = {entry}
  BY <1>8 DEF Entries
<1>10. msg \in Msg /\ msg.type = "miners_list_update" /\ msg.number = 1 /\ msg.entry = entry
  BY <1>2, <1>5, <1>7 DEF Msg
<1>11. Mailed(inbox)'
  <2>1. /\ inbox \in [Conn -> [Node -> Seq(Msg)]]
        /\ \A c \in Conn, m \in Node : inbox[c][m] \in Seq(Sendable(c, m))
    BY DEF LineInv, Mailed
  <2>2. inbox' \in [Conn -> [Node -> Seq(Msg)]]
    BY <1>6, <1>10, <2>1, BroadcastType
  <2>3. ASSUME NEW c \in Conn, NEW m \in Node PROVE inbox'[c][m] \in Seq(Sendable(c, m)')
    <3>1. PICK S : S = Sendable(c, m)'
      OBVIOUS
    <3>2. msg \in S
      BY <1>8, <1>10, <3>1 DEF Sendable
    <3>3. Sendable(c, m) \subseteq S
      <4>1. ASSUME NEW old \in Sendable(c, m) PROVE old \in Sendable(c, m)'
        <5>1. old \in Msg /\ old.type # "miners_list_update"
          BY <1>2 DEF Sendable
        <5>2. /\ old.type = "network_details_request" => m = c[2] /\ c[1] \notin Joined
              /\ old.type = "network_details"
                   => m = c[1] /\ c[1] \notin Joined /\ old.miners \in Seq({entry})
          <6>1. Seq(Entries) \subseteq Seq({entry})
            BY <1>2
          <6> QED BY <6>1 DEF Sendable
        <5> QED BY <1>9, <5>1, <5>2 DEF Sendable
      <4> QED BY <3>1, <4>1
    <3>4. inbox[c][m] \in Seq(S)
      <4>1. inbox[c][m] \in Seq(Sendable(c, m))
        BY <2>1
      <4> QED BY <3>3, <4>1
    <3>5. Append(inbox[c][m], msg) \in Seq(S)
      BY <3>2, <3>4
    <3>6. inbox'[c][m] = IF c \in up /\ n \in Ends(c) /\ m = Other(c, n) /\ IsNew(m, msg)
                         THEN Append(inbox[c][m], msg) ELSE inbox[c][m]
      BY <1>6, BroadcastTo DEF LineInv
    <3> QED BY <3>1, <3>4, <3>5, <3>6
  <2> QED BY <2>2, <2>3 DEF Mailed
<1>12. TurnsKept'
  BY <1>6 DEF LineInv, TurnsKept
<1>13. MinersKept'
  <2>1. miners \in [Node -> Seq(Entries)]
    BY DEF LineInv, MinersKept
  <2>2. \A m \in Node : miners[m] \in Seq({entry})
    <3>1. Seq(Entries) \subseteq Seq({entry})
      BY <1>2
    <3> QED BY <2>1, <3>1
  <2>3. Append(miners[n], entry) \in Seq({entry}) /\ Append(miners[n], entry) # << >>
    BY <2>2, AppendType
  <2>4. miners' \in [Node -> Seq({entry})] /\ miners'[Founder] # << >>
    BY <1>1, <1>6, <2>1, <2>2, <2>3
  <2> QED BY <1>2, <1>8, <1>9, <2>4 DEF MinersKept
<1>14. MadeInTurn'
  <2>1. DOMAIN minted = 1..Len(minted) /\ Len(minted) \in Nat /\ Len(minted) <= Len(chain[n])
    BY <1>1, <1>2, FounderHasAll DEF NetInv, MintedInOrder
  <2>2. ASSUME NEW i \in DOMAIN minted PROVE ListAt(i - 1)' = ListAt(i - 1)
    <3>1. i \in Nat /\ i <= Len(chain[n])
      BY <1>7, <2>1
    <3>2. ~ (i - 1 >= entry.activation_block)
      BY <1>7, <3>1
    <3>3. ListAt(i - 1) = FirstMiners
      BY <1>2 DEF ListAt
    <3>4. ListAt(i - 1)' = FirstMiners
      BY <1>8, <3>2 DEF ListAt
    <3> QED BY <3>3, <3>4
  <2> QED BY <1>6, <2>2 DEF LineInv, MadeInTurn
<1> QED BY <1>11, <1>12, <1>13, <1>14 DEF LineInv

(***************************************************************************)
(* One step at a time: blocks.                                             *)
(***************************************************************************)
LEMMA LineNewBlock ==
  ASSUME NetInv, LineInv, OneSchedule, NEW c \in Conn, NEW n \in Ends(c),
         HandleNewBlock(c, n)
  PROVE  LineInv'
<1>1. /\ n \in Node /\ inbox[c][n] # << >> /\ Head(inbox[c][n]).type = "new_block"
      /\ UNCHANGED <<minted, scheduled>>
  BY EndsAreNodes DEF HandleNewBlock, Reads
<1>2. PICK msg : msg = Head(inbox[c][n])
  OBVIOUS
<1>3. msg \in Sendable(c, n) /\ Mailed(Read(c, n)) /\ msg.type = "new_block"
  BY <1>1, <1>2, MailRead DEF LineInv
<1>4. /\ msg \in Msg /\ msg.block \in Block
      /\ \A d \in Conn, m \in Node : msg \in Sendable(d, m)
  <2>1. msg \in Msg
    BY <1>3 DEF Sendable
  <2>2. msg.block \in Block
    BY <1>3, <2>1 DEF Msg
  <2> QED BY <1>3, <2>1, <2>2, MailPlain
<1>5. CASE /\ inbox' = Read(c, n) \/ HandlerFails(c, n)
           /\ UNCHANGED <<chain, miners, round, waited, late>>
  <2>1. Mailed(inbox')
    BY <1>1, <1>3, <1>5, MailFails DEF LineInv
  <2> QED BY <1>1, <1>5, <2>1, SameLonger, LineQuiet
<1>6. CASE /\ chain' = [chain EXCEPT ![n] = Append(@, msg.block)]
           /\ inbox' = broadcast_message(n, msg, Read(c, n))
           /\ AfterBlock(n, Append(chain[n], msg.block), None)
  <2>1. Mailed(inbox)'
    <3>1. Mailed(inbox')
      BY <1>1, <1>3, <1>4, <1>6, MailBroadcast
    <3> QED BY <1>1, <3>1, MailNow
  <2>2. PICK longer : longer = Append(chain[n], msg.block)
    OBVIOUS
  <2>3. longer \in Seq(Block) /\ Len(longer) >= Len(chain[n])
    <3>1. chain[n] \in Seq(Block)
      BY <1>1, KnownAreBlocks DEF NetInv
    <3> QED BY <1>4, <2>2, <3>1, AppendType
  <2>4. chain' = [chain EXCEPT ![n] = longer] /\ AfterBlock(n, longer, None)
    BY <1>6, <2>2
  <2>5. TurnsKept' /\ MinersKept'
    BY <1>1, <2>3, <2>4, LineAfterBlock
  <2>6. MadeInTurn'
    <3>1. Longer
      BY <1>1, <2>3, <2>4, GrowsLonger
    <3> QED BY <1>1, <3>1, MadeSame DEF NetInv, LineInv
  <2> QED BY <2>1, <2>5, <2>6 DEF LineInv
<1> QED BY <1>2, <1>5, <1>6 DEF HandleNewBlock, taskVars

LEMMA MadeMore ==
  ASSUME MintedInOrder, MadeInTurn, Longer, UNCHANGED scheduled,
         NEW b, minted' = Append(minted, b), NEW k, k = Len(minted),
         b.miners_list = ListAt(k), ListAt(k) # << >>, b.prevHash = k - 1,
         b.miner = required_miner(ListAt(k), k, 0), b.miner \in Node,
         Len(chain'[b.miner]) >= k + 1
  PROVE  MadeInTurn'
<1>1. \A i : ListAt(i)' = ListAt(i)
  BY DEF ListAt
<1>2. DOMAIN minted = 1..k /\ k \in Nat /\ k >= 1
  BY DEF MintedInOrder
<1>3. /\ DOMAIN minted' = 1..(k + 1) /\ minted'[k + 1] = b
      /\ \A i \in 1..k : minted'[i] = minted[i]
  BY <1>2 DEF MintedInOrder
<1>4. ASSUME NEW i \in DOMAIN minted' PROVE minted'[i].miners_list = ListAt(i - 1)
  <2>1. CASE i \in 1..k
    BY <1>2, <1>3, <2>1 DEF MadeInTurn
  <2>2. CASE i = k + 1
    BY <1>2, <1>3, <2>2
  <2> QED BY <1>2, <1>3, <2>1, <2>2
<1>5. ASSUME NEW i \in DOMAIN minted' \ {1}
      PROVE  /\ minted'[i].prevHash = i - 2
             /\ ListAt(i - 1) # << >>
             /\ minted'[i].miner = required_miner(ListAt(i - 1), i - 1, 0)
             /\ minted'[i].miner \in Node /\ Len(chain'[minted'[i].miner]) >= i
  <2>1. CASE i \in 1..k
    <3>1. /\ minted'[i] = minted[i] /\ i \in DOMAIN minted \ {1} /\ i \in Nat
      BY <1>2, <1>3, <1>5, <2>1
    <3>2. /\ minted[i].prevHash = i - 2
          /\ ListAt(i - 1) # << >>
          /\ minted[i].miner = required_miner(ListAt(i - 1), i - 1, 0)
          /\ minted[i].miner \in Node /\ Len(chain[minted[i].miner]) >= i
      BY <3>1 DEF MadeInTurn
    <3>3. Len(chain'[minted[i].miner]) >= i
      BY <3>1, <3>2 DEF Longer
    <3> QED BY <3>1, <3>2, <3>3
  <2>2. CASE i = k + 1
    <3>1. i - 1 = k /\ i - 2 = k - 1 /\ minted'[i] = b
      BY <1>2, <1>3, <2>2
    <3> QED BY <2>2, <3>1
  <2> QED BY <1>2, <1>3, <2>1, <2>2
<1> QED BY <1>1, <1>4, <1>5 DEF MadeInTurn

LEMMA LineMine ==
  ASSUME NetInv, ChainsValid, LineInv, OneSchedule, NEW n \in Node, chain[n] # << >>,
         NEW list \in Seq(Account), list = get_current_miners_list(chain[n], miners[n]),
         list # << >>, required_miner(list, Len(chain[n]), 0) = n,
         NEW task, MineBlock(n, task, list)
  PROVE  LineInv'
<1> DEFINE swept == Sweep(mem_pool[n], InChain(mem_pool[n], chain[n]))
           newBlock == [hash |-> Len(minted), prevHash |-> lastBlock(chain[n]).hash,
                        transactions |-> swept.taken, miner |-> n, miners_list |-> list]
           msg == [type |-> "new_block", block |-> newBlock]
<1>1. UNCHANGED scheduled
  BY DEF MineBlock
<1>2. CASE /\ late' = [late EXCEPT ![n] = {l \in @ : l.task # task}]
           /\ UNCHANGED <<chain, miners, round, waited, inbox, minted>>
  <2>1. \A m \in Node : late'[m] \in {late[m], {}}
    <3>1. DOMAIN late = Node /\ \A m \in Node : late[m] = {}
      BY DEF NetInv, RolesOK, LineInv, TurnsKept
    <3> QED BY <1>2, <3>1
  <2>2. Mailed(inbox')
    BY <1>2 DEF LineInv
  <2> QED BY <1>1, <1>2, <2>1, <2>2, SameLonger, LineQuiet
<1>3. CASE /\ chain' = [chain EXCEPT ![n] = Append(@, newBlock)]
           /\ minted' = Append(minted, newBlock)
           /\ inbox' = broadcast_message(n, msg, inbox)
           /\ AfterBlock(n, Append(chain[n], newBlock), task)
  <2>1. PICK k : k = Len(chain[n])
    OBVIOUS
  <2>2. /\ k \in Nat /\ k >= 1 /\ k = Len(minted) /\ list = ListAt(k)
        /\ DOMAIN chain[n] = 1..k /\ DOMAIN minted = 1..k /\ chain[n][k] = minted[k]
    <3>1. list = ListAt(k) /\ k = Len(minted)
      BY <2>1, OwnTurn
    <3>2. /\ k \in Nat /\ DOMAIN chain[n] = 1..k /\ DOMAIN minted = 1..k /\ k >= 1
          /\ \A i \in DOMAIN chain[n] : chain[n][i] = minted[i]
      BY <2>1, <3>1, PeersOnLine
    <3>3. k \in DOMAIN chain[n]
      BY <3>2
    <3> QED BY <3>1, <3>2, <3>3
  <2>3. lastBlock(chain[n]).hash = k - 1
    <3>1. minted[k].hash = k - 1
      <4>1. k \in DOMAIN minted /\ MintedInOrder
        BY <2>2 DEF NetInv
      <4> QED BY <4>1 DEF MintedInOrder
    <3> QED BY <2>1, <2>2, <3>1 DEF lastBlock
  <2>4. newBlock \in Block
    <3>1. swept.taken \in Seq(Tx)
      BY SweepPoolType DEF NetInv
    <3>2. n \in Account /\ lastBlock(chain[n]).hash \in Nat /\ Len(minted) \in Nat
      BY <2>2, <2>3, PoaAssumption
    <3> HIDE DEF swept
    <3> QED BY <3>1, <3>2 DEF Block
  <2>5. /\ newBlock.miners_list = list /\ newBlock.prevHash = k - 1 /\ newBlock.miner = n
    BY <2>3
  <2>6. PICK b : b = newBlock
    OBVIOUS
  <2>7. /\ b \in Block /\ b.miners_list = list /\ b.prevHash = k - 1 /\ b.miner = n
        /\ minted' = Append(minted, b) /\ msg = [type |-> "new_block", block |-> b]
    BY <1>3, <2>4, <2>5, <2>6
  <2>8. PICK longer : longer = Append(chain[n], b)
    OBVIOUS
  <2>9. /\ longer \in Seq(Block) /\ Len(longer) = k + 1
        /\ chain' = [chain EXCEPT ![n] = longer] /\ AfterBlock(n, longer, task)
    <3>1. chain[n] \in Seq(Block)
      BY KnownAreBlocks DEF NetInv
    <3>2. longer \in Seq(Block) /\ Len(longer) = k + 1
      BY <2>1, <2>7, <2>8, <3>1, AppendType
    <3> QED BY <1>3, <2>6, <2>8, <3>2
  <2>10. Len(longer) >= Len(chain[n])
    BY <2>1, <2>2, <2>9
  <2> HIDE DEF newBlock
  <2>11. Mailed(inbox)'
    <3>1. msg \in Msg /\ msg.type = "new_block"
      BY <2>7 DEF Msg
    <3> HIDE DEF msg
    <3>2. \A d \in Conn, m \in Node : msg \in Sendable(d, m)
      BY <3>1, MailPlain
    <3>3. Mailed(inbox')
      BY <1>3, <3>1, <3>2, MailBroadcast DEF LineInv
    <3> QED BY <1>1, <3>3, MailNow
  <2>12. TurnsKept' /\ MinersKept'
    BY <1>1, <2>9, <2>10, LineAfterBlock
  <2>13. MadeInTurn'
    <3>1. Longer
      BY <2>9, <2>10, GrowsLonger
    <3>2. Len(chain'[n]) >= k + 1
      <4>1. chain'[n] = longer
        BY <2>9 DEF NetInv
      <4> QED BY <2>2, <2>9, <4>1
    <3>3. n = required_miner(ListAt(k), k, 0) /\ ListAt(k) # << >>
      BY <2>1, <2>2
    <3>4. MintedInOrder /\ MadeInTurn
      BY DEF NetInv, LineInv
    <3>5. /\ b.miners_list = ListAt(k) /\ b.miner = required_miner(ListAt(k), k, 0)
          /\ b.miner \in Node /\ Len(chain'[b.miner]) >= k + 1
      BY <2>2, <2>7, <3>2, <3>3
    <3> QED BY <1>1, <2>2, <2>7, <3>1, <3>3, <3>4, <3>5, MadeMore
  <2> QED BY <2>11, <2>12, <2>13 DEF LineInv
<1> QED BY <1>2, <1>3 DEF MineBlock

LEMMA LineWakes ==
  ASSUME NetInv, ChainsValid, LineInv, OneSchedule, NEW n \in Node,
         (\E task \in live[n] : MinerWakes(n, task)) \/ LateMinerWakes(n)
         \/ StartWaiting(n) \/ ShiftMiner(n)
  PROVE  LineInv'
<1>1. round[n] = 0 /\ waited[n] = FALSE /\ late[n] = {} /\ Turns = 0
  BY DEF LineInv, TurnsKept, OneSchedule
<1>2. PICK task \in live[n] : MinerWakes(n, task)
  BY <1>1 DEF LateMinerWakes, StartWaiting, ShiftMiner
<1>3. chain[n] # << >>
  BY <1>2 DEF NetInv, Idle
<1>4. PICK list : list = get_current_miners_list(chain[n], miners[n])
  OBVIOUS
<1>5. list \in Seq(Account)
  <2>1. chain[n] \in Seq(Block) /\ miners[n] \in Seq(Entry)
    BY KnownAreBlocks DEF NetInv, ScheduleOK
  <2> QED BY <1>3, <1>4, <2>1, CurrentMinersType
<1>6. \/ /\ list # << >> /\ required_miner(list, Len(chain[n]), 0) = n
         /\ MineBlock(n, task, list)
      \/ UNCHANGED <<peerVars, late, netVars, historyVars>>
  BY <1>1, <1>2, <1>4 DEF MinerWakes
<1>7. CASE UNCHANGED <<peerVars, late, netVars, historyVars>>
  <2>1. /\ UNCHANGED <<chain, minted, scheduled, miners, round, waited, late, inbox>>
    BY <1>7 DEF peerVars, netVars, historyVars
  <2>2. Mailed(inbox')
    BY <2>1 DEF LineInv
  <2> QED BY <2>1, <2>2, SameLonger, LineQuiet
<1> QED BY <1>3, <1>4, <1>5, <1>6, <1>7, LineMine

-----------------------------------------------------------------------------
LEMMA LineInit == Init => LineInv
<1> SUFFICES ASSUME Init PROVE LineInv
  OBVIOUS
<1>1. /\ scheduled = << >> /\ minted = <<first>> /\ DOMAIN minted = {1} /\ minted[1] = first
      /\ \A i : ListAt(i) = FirstMiners
  BY DEF Init, ListAt
<1>2. MadeInTurn
  BY <1>1 DEF MadeInTurn, first, first_block
<1>3. TurnsKept
  BY DEF Init, TurnsKept
<1>4. MinersKept
  <2>1. << >> \in Seq(Entries) /\ Len(<< >>) = 0 /\ MaxUpdates \in Nat
    BY PoaAssumption
  <2> QED BY <1>1, <2>1 DEF Init, MinersKept
<1>5. Mailed(inbox)
  <2>1. ASSUME NEW c \in Conn, NEW n \in Node
        PROVE  /\ inbox[c][n] \in Seq(Sendable(c, n)) /\ inbox[c][n] \in Seq(Msg)
    <3> DEFINE ask == [type |-> "network_details_request"]
    <3>1. ask \in Msg /\ ask.type = "network_details_request"
      BY DEF Msg
    <3>2. inbox[c][n] = IF n = c[2] /\ c[1] \notin Joined THEN <<ask>> ELSE << >>
      BY DEF Init
    <3> HIDE DEF ask
    <3>3. CASE n = c[2] /\ c[1] \notin Joined
      <4>1. ask \in Sendable(c, n)
        BY <3>1, <3>3 DEF Sendable
      <4> QED BY <3>1, <3>2, <3>3, <4>1
    <3>4. CASE ~ (n = c[2] /\ c[1] \notin Joined)
      <4>1. inbox[c][n] = << >>
        BY <3>2, <3>4
      <4> QED BY <4>1
    <3> QED BY <3>3, <3>4
  <2>2. inbox \in [Conn -> [Node -> Seq(Msg)]]
    BY <2>1 DEF Init
  <2> QED BY <2>1, <2>2 DEF Mailed
<1> QED BY <1>2, <1>3, <1>4, <1>5 DEF LineInv

LEMMA LineStep ==
  ASSUME OneSchedule, NetInv, ChainsValid, LineInv, [Next]_vars
  PROVE  LineInv'
<1>1. ASSUME NEW n \in Node, NEW rec \in Account \ {n}, NEW amt \in Amount,
             create_and_broadcast_tx(n, rec, amt)
      PROVE  LineInv'
  BY <1>1, LineCreate
<1>2. ASSUME NEW n \in Node, NEW member \in Node, user_input_handler(n, member)
      PROVE  LineInv'
  BY <1>2, LineSchedule
<1>3. ASSUME NEW n \in Node,
             \/ \E task \in live[n] : MinerWakes(n, task)
             \/ LateMinerWakes(n) \/ StartWaiting(n) \/ ShiftMiner(n)
      PROVE  LineInv'
  BY <1>3, LineWakes
<1>4. ASSUME NEW n \in Node, find_longest_chain(n) \/ Stop(n) PROVE LineInv'
  BY <1>4, LineFind, LineStop
<1>5. ASSUME NEW c \in Conn, NEW n \in Ends(c), HandleMessage(c, n) PROVE LineInv'
  BY <1>5, LineNewTx, LineNewBlock, LineUpdate, LineDetailsRequest, LineDetails,
     LineChainRequest, LineChain DEF HandleMessage
<1>6. ASSUME NEW c \in Conn, Disconnect(c) \/ connect_to_peer(c) PROVE LineInv'
  BY <1>6, LineConnections
<1>7. CASE UNCHANGED vars
  <2>1. UNCHANGED <<chain, minted, scheduled, miners, round, waited, late, inbox>>
    BY <1>7 DEF vars, peerVars, taskVars, netVars, historyVars
  <2>2. Mailed(inbox')
    BY <2>1 DEF LineInv
  <2> QED BY <2>1, <2>2, SameLonger, LineQuiet
<1> QED BY <1>1, <1>2, <1>3, <1>4, <1>5, <1>6, <1>7 DEF Next

LEMMA LineInvariant == ASSUME OneSchedule PROVE Spec => []LineInv
<1>1. NetInv /\ ChainsValid /\ LineInv /\ [Next]_vars => LineInv'
  BY LineStep
<1> QED BY <1>1, LineInit, NetInvariant, PoaChainsValid, PTL DEF Spec

LEMMA LineNoFork ==
  ASSUME NetInv, ChainsValid, LineInv
  PROVE  NoFork
<1>1. ASSUME NEW m \in Node, NEW n \in Node, NEW i \in DOMAIN chain[m] \cap DOMAIN chain[n]
      PROVE  chain[m][i].hash = chain[n][i].hash
  <2>1. chain[m][i] = minted[i] /\ chain[n][i] = minted[i]
    BY PeersOnLine
  <2> QED BY <2>1
<1> QED BY <1>1 DEF NoFork

(***************************************************************************)
(* As long as no round is shifted and the admin, the only miner at first,  *)
(* changes the list at most once, no two peers ever have different blocks  *)
(* at the same height: over any connections, whatever messages are lost    *)
(* and whoever stops.                                                      *)
(***************************************************************************)
THEOREM PoaNoFork == ASSUME OneSchedule PROVE Spec => []NoFork
<1>1. NetInv /\ ChainsValid /\ LineInv => NoFork
  BY LineNoFork
<1> QED BY <1>1, NetInvariant, PoaChainsValid, LineInvariant, PTL

LEMMA LineScheduleKept ==
  ASSUME OneSchedule, NetInv, ChainsValid, LineInv
  PROVE  ScheduleKept
<1>1. ASSUME NEW n \in Node, NEW i \in DOMAIN chain[n] \ {1}
      PROVE  chain[n][i].miners_list =
               IF ScheduledFor(i) = {} THEN chain[n][i-1].miners_list
               ELSE scheduled[CHOOSE k \in ScheduledFor(i) :
                                \A l \in ScheduledFor(i) : l <= k].miners_list
  <2>1. /\ i \in Nat /\ i >= 2 /\ i - 1 \in DOMAIN chain[n] /\ (i - 1) - 1 = i - 2
    BY PeersOnLine
  <2>2. /\ i \in DOMAIN minted /\ chain[n][i] = minted[i]
        /\ i - 1 \in DOMAIN minted /\ chain[n][i-1] = minted[i-1]
    BY <2>1, PeersOnLine
  <2>3. chain[n][i].miners_list = ListAt(i - 1) /\ chain[n][i-1].miners_list = ListAt(i - 2)
    BY <2>1, <2>2 DEF LineInv, MadeInTurn
  <2>4. CASE scheduled = << >>
    <3>1. ScheduledFor(i) = {}
      BY <2>4 DEF ScheduledFor
    <3> QED BY <2>3, <2>4, <3>1 DEF ListAt
  <2>5. CASE scheduled # << >>
    <3>1. DOMAIN scheduled = {1} /\ scheduled[1].activation_block \in Nat
      BY <2>5, OnlyEntry
    <3>2. CASE scheduled[1].activation_block = i - 1
      <4>1. ScheduledFor(i) = {1}
        BY <3>1, <3>2 DEF ScheduledFor
      <4>2. (CHOOSE k \in ScheduledFor(i) : \A l \in ScheduledFor(i) : l <= k) = 1
        BY <4>1
      <4>3. i - 1 >= scheduled[1].activation_block
        BY <2>1, <3>2
      <4>4. ListAt(i - 1) = scheduled[1].miners_list
        BY <2>5, <4>3 DEF ListAt
      <4> QED BY <2>3, <4>1, <4>2, <4>4
    <3>3. CASE scheduled[1].activation_block # i - 1
      <4>1. ScheduledFor(i) = {}
        BY <3>1, <3>3 DEF ScheduledFor
      <4>2. i - 1 >= scheduled[1].activation_block <=> i - 2 >= scheduled[1].activation_block
        BY <2>1, <3>1, <3>3
      <4>3. ListAt(i - 1) = ListAt(i - 2)
        BY <2>5, <4>2 DEF ListAt
      <4> QED BY <2>3, <4>1, <4>3
    <3> QED BY <3>2, <3>3
  <2> QED BY <2>4, <2>5
<1> QED BY <1>1 DEF ScheduleKept

(***************************************************************************)
(* Under the same conditions what the admin decides is carried out, at the *)
(* height it was decided for and from there on, in every chain.            *)
(***************************************************************************)
THEOREM PoaScheduleKept == ASSUME OneSchedule PROVE Spec => []ScheduleKept
<1>1. NetInv /\ ChainsValid /\ LineInv => ScheduleKept
  BY LineScheduleKept
<1> QED BY <1>1, NetInvariant, PoaChainsValid, LineInvariant, PTL

-----------------------------------------------------------------------------
(***************************************************************************)
(* Who has heard of the list.  The admin is connected with everybody, and  *)
(* a newcomer with nobody else; as long as no connection is lost, the list *)
(* reaches everybody over the connection with the admin, or with the       *)
(* details, unless it is in the chain by then.                             *)
(***************************************************************************)
Starlike ==
  /\ OneSchedule /\ MaxStops = 0
  /\ \A n \in Node \ {Founder} : \E c \in Conn : Ends(c) = {n, Founder}
  /\ \A c \in Conn : c \in Joined \X Joined \/ (c[1] \notin Joined /\ c[2] = Founder)

Has(q, type) == \E k \in DOMAIN q : q[k].type = type

\* The admin's details are in q, once.
OneDetails(q) ==
  \E k \in DOMAIN q :
    /\ q[k].type = "network_details" /\ q[k].admin = Founder
    /\ \A j \in DOMAIN q : q[j].type = "network_details" => j = k

\* The details in q, if any, know the list.
Full(q) == \A k \in DOMAIN q : q[k].type = "network_details" => q[k].miners # << >>

\* An update is in q, and after the details if these are.
UpdateLast(q) ==
  /\ Has(q, "miners_list_update")
  /\ \A i, k \in DOMAIN q :
       q[i].type = "miners_list_update" /\ q[k].type = "network_details" => k < i

\* The request for details is the next to be read, and the only one.
Asking(q) ==
  /\ q # << >> /\ Head(q).type = "network_details_request"
  /\ ~ Has(Tail(q), "network_details_request")

AllLong(q, len) == \A k \in DOMAIN q : q[k].type = "chain" => Len(q[k].chain) > len

Marked(n) == <<"miners_list_update", 1>> \in seen[n]

Heard(n) == miners[n] # << >> \/ Len(chain[n]) > scheduled[1].activation_block

\* What is sent to n.
Mail(n) == inbox[<<n, Founder>>][n]

\* The admin's chain holds the list already, and n gets no other.
Past(n) ==
  /\ Len(chain[Founder]) > scheduled[1].activation_block
  /\ chain[n] = << >> \/ Len(chain[n]) > scheduled[1].activation_block
  /\ AllLong(Mail(n), scheduled[1].activation_block)

Coming(n) == Past(n) \/ (~ Marked(n) /\ UpdateLast(Mail(n)))

JoinedInformed(n) ==
  /\ admin_id[n] = Founder
  /\ scheduled # << >> =>
       \/ Heard(n)
       \/ /\ ~ Marked(n)
          /\ \E c \in Conn : Ends(c) = {n, Founder} /\ Has(inbox[c][n], "miners_list_update")

\* A newcomer asks, then gets the details, then goes on like the others.
NewcomerAsks(n) ==
  /\ Asking(inbox[<<n, Founder>>][Founder])
  /\ chain[n] = << >>
  /\ ~ Has(Mail(n), "network_details") /\ ~ Has(Mail(n), "chain")

NewcomerAnswered(n) ==
  /\ ~ Has(inbox[<<n, Founder>>][Founder], "network_details_request")
  /\ OneDetails(Mail(n))
  /\ scheduled # << >> => Full(Mail(n)) \/ Coming(n)

NewcomerKnows(n) ==
  /\ ~ Has(inbox[<<n, Founder>>][Founder], "network_details_request")
  /\ ~ Has(Mail(n), "network_details")
  /\ admin_id[n] = Founder
  /\ scheduled # << >> => Heard(n) \/ Coming(n)

Newcomer(n) == NewcomerAsks(n) \/ NewcomerAnswered(n) \/ NewcomerKnows(n)

Marks == \A n \in Node : \A j : <<"miners_list_update", j>> \in seen[n] => j \in DOMAIN scheduled

Informed ==
  /\ up = Conn
  /\ \A n \in Joined : JoinedInformed(n)
  /\ \A n \in Node \ Joined : Newcomer(n)

StarInv ==
  /\ running = Node
  /\ Marks
  /\ scheduled # << >> => Marked(Founder)
  /\ drops = 0 => Informed

-----------------------------------------------------------------------------
(***************************************************************************)
(* Queues.                                                                 *)
(***************************************************************************)
LEMMA QueueAppend ==
  ASSUME NEW q \in Seq(Msg), NEW msg \in Msg, NEW q2, q2 = Append(q, msg)
  PROVE  /\ \A type : Has(q2, type) <=> Has(q, type) \/ msg.type = type
         /\ Full(q) /\ (msg.type = "network_details" => msg.miners # << >>) => Full(q2)
         /\ msg.type # "network_details" =>
              (OneDetails(q) => OneDetails(q2)) /\ (UpdateLast(q) => UpdateLast(q2))
         /\ ~ Has(q, "network_details") /\ msg.type = "network_details" /\ msg.admin = Founder
              => OneDetails(q2)
         /\ msg.type = "miners_list_update" /\ ~ Has(q, "miners_list_update")
              => UpdateLast(q2)
         /\ Asking(q) /\ msg.type # "network_details_request" => Asking(q2)
         /\ \A len : AllLong(q, len) /\ (msg.type = "chain" => Len(msg.chain) > len)
                       => AllLong(q2, len)
<1>1. /\ Len(q) \in Nat /\ DOMAIN q = 1..Len(q) /\ DOMAIN q2 = 1..(Len(q) + 1)
      /\ q2[Len(q) + 1] = msg /\ \A k \in 1..Len(q) : q2[k] = q[k]
  OBVIOUS
<1>2. PICK l : l = Len(q) + 1
  OBVIOUS
<1>3. /\ l \in Nat /\ l \notin DOMAIN q /\ DOMAIN q2 = DOMAIN q \cup {l} /\ q2[l] = msg
      /\ \A k \in DOMAIN q : q2[k] = q[k] /\ k < l /\ k \in Nat
  BY <1>1, <1>2
<1>4. \A type : Has(q2, type) <=> Has(q, type) \/ msg.type = type
  BY <1>3 DEF Has
<1>5. Full(q) /\ (msg.type = "network_details" => msg.miners # << >>) => Full(q2)
  BY <1>3 DEF Full
<1>6. ASSUME msg.type # "network_details"
      PROVE  (OneDetails(q) => OneDetails(q2)) /\ (UpdateLast(q) => UpdateLast(q2))
  <2>1. OneDetails(q) => OneDetails(q2)
    BY <1>3, <1>6 DEF OneDetails
  <2>2. ASSUME UpdateLast(q) PROVE UpdateLast(q2)
    <3>1. Has(q2, "miners_list_update")
      BY <1>4, <2>2 DEF UpdateLast
    <3>2. ASSUME NEW i \in DOMAIN q2, NEW k \in DOMAIN q2,
                 q2[i].type = "miners_list_update", q2[k].type = "network_details"
          PROVE  k < i
      <4>1. k \in DOMAIN q
        BY <1>3, <1>6, <3>2
      <4> QED BY <1>3, <2>2, <3>2, <4>1 DEF UpdateLast
    <3> QED BY <3>1, <3>2 DEF UpdateLast
  <2> QED BY <2>1, <2>2
<1>7. ~ Has(q, "network_details") /\ msg.type = "network_details" /\ msg.admin = Founder
        => OneDetails(q2)
  BY <1>3 DEF Has, OneDetails
<1>8. ASSUME msg.type = "miners_list_update", ~ Has(q, "miners_list_update")
      PROVE  UpdateLast(q2)
  <2>1. ASSUME NEW i \in DOMAIN q2, NEW k \in DOMAIN q2,
               q2[i].type = "miners_list_update", q2[k].type = "network_details"
        PROVE  k < i
    <3>1. i = l
      BY <1>3, <1>8, <2>1 DEF Has
    <3>2. k # l
      BY <1>3, <1>8, <2>1
    <3> QED BY <1>3, <3>1, <3>2
  <2>2. Has(q2, "miners_list_update")
    BY <1>4, <1>8
  <2> QED BY <2>1, <2>2 DEF UpdateLast
<1>9. ASSUME Asking(q), msg.type # "network_details_request" PROVE Asking(q2)
  <2>1. q # << >> /\ q2 # << >> /\ Head(q2) = Head(q) /\ Tail(q) \in Seq(Msg)
        /\ Tail(q2) = Append(Tail(q), msg)
    <3>1. q # << >> /\ Len(q) # 0
      BY <1>9 DEF Asking
    <3>2. Tail(q) \in Seq(Msg) /\ Len(Tail(q)) = Len(q) - 1
          /\ \A k \in 1..(Len(q) - 1) : Tail(q)[k] = q[k + 1]
      BY <3>1
    <3>3. q2 \in Seq(Msg) /\ Len(q2) = Len(q) + 1 /\ q2 # << >>
      OBVIOUS
    <3>4. Tail(q2) \in Seq(Msg) /\ Len(Tail(q2)) = Len(q)
          /\ \A k \in 1..Len(q) : Tail(q2)[k] = q2[k + 1]
      BY <3>3
    <3>5. Append(Tail(q), msg) \in Seq(Msg) /\ Len(Append(Tail(q), msg)) = Len(q)
      BY <1>1, <3>1, <3>2
    <3>6. ASSUME NEW k \in 1..Len(q) PROVE Tail(q2)[k] = Append(Tail(q), msg)[k]
      <4>1. CASE k = Len(q)
        BY <1>1, <3>1, <3>2, <3>4, <4>1
      <4>2. CASE k # Len(q)
        <5>1. k \in 1..(Len(q) - 1) /\ k + 1 \in 1..Len(q)
          <6>1. PICK L : L = Len(q)
            OBVIOUS
          <6>2. L \in Nat /\ k \in 1..L /\ k # L
            BY <1>1, <3>6, <4>2, <6>1
          <6>3. k \in 1..(L - 1) /\ k + 1 \in 1..L
            BY <6>2
          <6> QED BY <6>1, <6>3
        <5>2. Append(Tail(q), msg)[k] = Tail(q)[k]
          BY <3>2, <5>1
        <5> QED BY <1>1, <3>2, <3>4, <5>1, <5>2
      <4> QED BY <4>1, <4>2
    <3>7. Tail(q2) = Append(Tail(q), msg)
      <4>1. PICK s : s = Tail(q2)
        OBVIOUS
      <4>2. PICK t : t = Append(Tail(q), msg)
        OBVIOUS
      <4>3. s \in Seq(Msg) /\ t \in Seq(Msg) /\ Len(s) = Len(t)
            /\ \A k \in 1..Len(s) : s[k] = t[k]
        BY <3>4, <3>5, <3>6, <4>1, <4>2
      <4>4. s = t
        BY <4>3
      <4> QED BY <4>1, <4>2, <4>4
    <3> QED BY <1>1, <3>1, <3>2, <3>3, <3>7
  <2>2. ~ Has(Tail(q2), "network_details_request")
    <3>1. PICK t : t = Tail(q)
      OBVIOUS
    <3>2. t \in Seq(Msg) /\ Tail(q2) = Append(t, msg) /\ ~ Has(t, "network_details_request")
      BY <1>9, <2>1, <3>1 DEF Asking
    <3>3. DOMAIN Append(t, msg) = 1..(Len(t) + 1) /\ Append(t, msg)[Len(t) + 1] = msg
          /\ Len(t) \in Nat /\ DOMAIN t = 1..Len(t) /\ \A k \in 1..Len(t) : Append(t, msg)[k] = t[k]
      BY <3>2
    <3>4. ASSUME NEW k \in 1..(Len(t) + 1)
          PROVE  Append(t, msg)[k].type # "network_details_request"
      <4>1. CASE k = Len(t) + 1
        BY <1>9, <3>3, <4>1
      <4>2. CASE k \in 1..Len(t)
        BY <3>2, <3>3, <4>2 DEF Has
      <4> QED BY <3>3, <4>1, <4>2
    <3> QED BY <3>2, <3>3, <3>4 DEF Has
  <2> QED BY <1>9, <2>1, <2>2 DEF Asking
<1>10. ASSUME NEW len, AllLong(q, len), msg.type = "chain" => Len(msg.chain) > len
       PROVE  AllLong(q2, len)
  BY <1>3, <1>10 DEF AllLong
<1> QED BY <1>4, <1>5, <1>6, <1>7, <1>8, <1>9, <1>10

LEMMA QueueTail ==
  ASSUME NEW q \in Seq(Msg), q # << >>, NEW q2, q2 = Tail(q)
  PROVE  /\ q2 \in Seq(Msg)
         /\ \A type : Has(q, type) <=> Head(q).type = type \/ Has(q2, type)
         /\ Full(q) => Full(q2)
         /\ Full(q) /\ Head(q).type = "network_details" => Head(q).miners # << >>
         /\ OneDetails(q) /\ Head(q).type # "network_details" => OneDetails(q2)
         /\ OneDetails(q) /\ Head(q).type = "network_details"
              => Head(q).admin = Founder /\ ~ Has(q2, "network_details")
         /\ UpdateLast(q) /\ Head(q).type # "miners_list_update" => UpdateLast(q2)
         /\ UpdateLast(q) /\ Head(q).type = "miners_list_update" => ~ Has(q2, "network_details")
         /\ \A len : AllLong(q, len) => AllLong(q2, len)
         /\ \A len : AllLong(q, len) /\ Head(q).type = "chain" => Len(Head(q).chain) > len
<1>1. /\ Len(q) \in Nat /\ Len(q) >= 1 /\ DOMAIN q = 1..Len(q) /\ Head(q) = q[1]
      /\ q2 \in Seq(Msg) /\ DOMAIN q2 = 1..(Len(q) - 1)
      /\ \A k \in 1..(Len(q) - 1) : q2[k] = q[k + 1]
  OBVIOUS
<1>2. /\ 1 \in DOMAIN q
      /\ \A k \in DOMAIN q2 : k \in Nat /\ k + 1 \in DOMAIN q /\ k + 1 # 1 /\ q2[k] = q[k + 1]
      /\ \A k \in DOMAIN q : k = 1 \/ (k - 1 \in DOMAIN q2 /\ q2[k - 1] = q[k] /\ (k - 1) + 1 = k)
  BY <1>1
<1>3. ASSUME NEW type PROVE Has(q, type) <=> Head(q).type = type \/ Has(q2, type)
  <2>1. Has(q, type) => Head(q).type = type \/ Has(q2, type)
    <3>1. ASSUME NEW k \in DOMAIN q, q[k].type = type, k # 1
          PROVE  k - 1 \in DOMAIN q2 /\ q2[k - 1].type = type
      BY <1>2, <3>1
    <3> QED BY <1>1, <3>1 DEF Has
  <2>2. Has(q2, type) => Has(q, type)
    <3>1. ASSUME NEW k \in DOMAIN q2, q2[k].type = type
          PROVE  k + 1 \in DOMAIN q /\ q[k + 1].type = type
      BY <1>2, <3>1
    <3> QED BY <3>1 DEF Has
  <2>3. Head(q).type = type => Has(q, type)
    BY <1>1, <1>2 DEF Has
  <2> QED BY <2>1, <2>2, <2>3
<1>4. Full(q) => Full(q2)
  BY <1>2 DEF Full
<1>5. Full(q) /\ Head(q).type = "network_details" => Head(q).miners # << >>
  BY <1>1, <1>2 DEF Full
<1>6. ASSUME OneDetails(q)
      PROVE  /\ Head(q).type # "network_details" => OneDetails(q2)
             /\ Head(q).type = "network_details"
                  => Head(q).admin = Founder /\ ~ Has(q2, "network_details")
  <2>1. PICK k \in DOMAIN q :
          /\ q[k].type = "network_details" /\ q[k].admin = Founder
          /\ \A j \in DOMAIN q : q[j].type = "network_details" => j = k
    BY <1>6 DEF OneDetails
  <2>2. CASE Head(q).type # "network_details"
    <3>1. k # 1 /\ k - 1 \in DOMAIN q2 /\ q2[k - 1] = q[k]
      BY <1>1, <1>2, <2>1, <2>2
    <3>2. ASSUME NEW j \in DOMAIN q2, q2[j].type = "network_details" PROVE j = k - 1
      <4>1. j + 1 = k /\ j \in Nat
        BY <1>2, <2>1, <3>2
      <4> QED BY <4>1
    <3> QED BY <2>1, <2>2, <3>1, <3>2 DEF OneDetails
  <2>3. CASE Head(q).type = "network_details"
    <3>1. k = 1
      BY <1>1, <1>2, <2>1, <2>3
    <3>2. ASSUME NEW j \in DOMAIN q2 PROVE q2[j].type # "network_details"
      BY <1>2, <2>1, <3>1
    <3> QED BY <1>1, <2>1, <2>3, <3>1, <3>2 DEF Has
  <2> QED BY <2>2, <2>3
<1>7. ASSUME UpdateLast(q)
      PROVE  /\ Head(q).type # "miners_list_update" => UpdateLast(q2)
             /\ Head(q).type = "miners_list_update" => ~ Has(q2, "network_details")
  <2>1. CASE Head(q).type # "miners_list_update"
    <3>1. Has(q2, "miners_list_update")
      BY <1>3, <1>7, <2>1 DEF UpdateLast
    <3>2. ASSUME NEW i \in DOMAIN q2, NEW k \in DOMAIN q2,
                 q2[i].type = "miners_list_update", q2[k].type = "network_details"
          PROVE  k < i
      <4>1. k + 1 < i + 1
        BY <1>2, <1>7, <3>2 DEF UpdateLast
      <4> QED BY <1>2, <4>1
    <3> QED BY <2>1, <3>1, <3>2 DEF UpdateLast
  <2>2. CASE Head(q).type = "miners_list_update"
    <3>1. ASSUME NEW k \in DOMAIN q2, q2[k].type = "network_details" PROVE FALSE
      <4>1. k + 1 < 1
        BY <1>1, <1>2, <1>7, <2>2, <3>1 DEF UpdateLast
      <4> QED BY <1>2, <4>1
    <3> QED BY <2>2, <3>1 DEF Has
  <2> QED BY <2>1, <2>2
<1>8. ASSUME NEW len, AllLong(q, len)
      PROVE  AllLong(q2, len) /\ (Head(q).type = "chain" => Len(Head(q).chain) > len)
  BY <1>1, <1>2, <1>8 DEF AllLong
<1> QED BY <1>1, <1>3, <1>4, <1>5, <1>6, <1>7, <1>8

\* q2 is q, or what is left of it when a message of a type in Reading is read, and
\* perhaps one of a type in Sent after it.
Moved(q, q2, Reading, Sent) ==
  \E base :
    /\ base = q \/ (q # << >> /\ Head(q).type \in Reading /\ base = Tail(q))
    /\ q2 = base \/ \E msg \in Msg : msg.type \in Sent /\ q2 = Append(base, msg)

LEMMA MovedKeeps ==
  ASSUME NEW q \in Seq(Msg), NEW q2, NEW Reading, NEW Sent, Moved(q, q2, Reading, Sent),
         "network_details" \notin Sent
  PROVE  /\ \A type : type \notin Sent => (Has(q2, type) => Has(q, type))
         /\ \A type : type \notin Reading => (Has(q, type) => Has(q2, type))
         /\ Full(q) => Full(q2)
         /\ "network_details" \notin Reading => (OneDetails(q) => OneDetails(q2))
         /\ "miners_list_update" \notin Reading => (UpdateLast(q) => UpdateLast(q2))
         /\ "network_details_request" \notin Reading \cup Sent => (Asking(q) => Asking(q2))
         /\ "chain" \notin Sent => \A len : AllLong(q, len) => AllLong(q2, len)
<1>1. PICK base :
        /\ base = q \/ (q # << >> /\ Head(q).type \in Reading /\ base = Tail(q))
        /\ q2 = base \/ \E msg \in Msg : msg.type \in Sent /\ q2 = Append(base, msg)
  BY DEF Moved
<1>2. /\ base \in Seq(Msg)
      /\ \A type : Has(base, type) => Has(q, type)
      /\ \A type : type \notin Reading => (Has(q, type) => Has(base, type))
      /\ Full(q) => Full(base)
      /\ "network_details" \notin Reading => (OneDetails(q) => OneDetails(base))
      /\ "miners_list_update" \notin Reading => (UpdateLast(q) => UpdateLast(base))
      /\ \A len : AllLong(q, len) => AllLong(base, len)
  <2>1. CASE base = q
    BY <2>1
  <2>2. CASE q # << >> /\ Head(q).type \in Reading /\ base = Tail(q)
    <3>1. /\ base \in Seq(Msg)
          /\ \A type : Has(q, type) <=> Head(q).type = type \/ Has(base, type)
          /\ Full(q) => Full(base)
          /\ OneDetails(q) /\ Head(q).type # "network_details" => OneDetails(base)
          /\ UpdateLast(q) /\ Head(q).type # "miners_list_update" => UpdateLast(base)
          /\ \A len : AllLong(q, len) => AllLong(base, len)
      BY <2>2, QueueTail
    <3> QED BY <2>2, <3>1
  <2> QED BY <1>1, <2>1, <2>2
<1>3. "network_details_request" \notin Reading => (Asking(q) => base = q)
  BY <1>1 DEF Asking
<1>4. CASE q2 = base
  BY <1>2, <1>3, <1>4
<1>5. CASE \E msg \in Msg : msg.type \in Sent /\ q2 = Append(base, msg)
  <2>1. PICK msg \in Msg : msg.type \in Sent /\ q2 = Append(base, msg)
    BY <1>5
  <2>2. msg.type # "network_details"
    BY <2>1
  <2>3. /\ \A type : Has(q2, type) <=> Has(base, type) \/ msg.type = type
        /\ Full(base) => Full(q2)
        /\ OneDetails(base) => OneDetails(q2)
        /\ UpdateLast(base) => UpdateLast(q2)
        /\ Asking(base) /\ msg.type # "network_details_request" => Asking(q2)
        /\ \A len : AllLong(base, len) /\ (msg.type = "chain" => Len(msg.chain) > len)
                      => AllLong(q2, len)
    BY <1>2, <2>1, <2>2, QueueAppend
  <2> QED BY <1>2, <1>3, <2>1, <2>3
<1> QED BY <1>1, <1>4, <1>5

LEMMA ReadIs ==
  ASSUME Mailed(inbox), NEW c \in Conn, NEW n \in Node, NEW d \in Conn, NEW m \in Node
  PROVE  /\ inbox[d][m] \in Seq(Msg)
         /\ Read(c, n)[d][m] = IF d = c /\ m = n THEN Tail(inbox[d][m]) ELSE inbox[d][m]
BY ReadOf DEF Mailed

LEMMA ReadMoves ==
  ASSUME Mailed(inbox), NEW c \in Conn, NEW n \in Node, inbox[c][n] # << >>,
         NEW Reading, NEW Sent, Head(inbox[c][n]).type \in Reading,
         NEW d \in Conn, NEW m \in Node
  PROVE  Moved(inbox[d][m], Read(c, n)[d][m], Reading, Sent)
<1>1. Read(c, n)[d][m] = IF d = c /\ m = n THEN Tail(inbox[d][m]) ELSE inbox[d][m]
  BY ReadIs
<1> QED BY <1>1 DEF Moved

LEMMA BroadcastMoves ==
  ASSUME Mailed(inbox), NEW n \in Node, NEW msg \in Msg, NEW Reading, NEW Sent,
         msg.type \in Sent, NEW d \in Conn, NEW m \in Node
  PROVE  Moved(inbox[d][m], broadcast_message(n, msg, inbox)[d][m], Reading, Sent)
<1>1. broadcast_message(n, msg, inbox)[d][m] =
        IF d \in up /\ n \in Ends(d) /\ m = Other(d, n) /\ IsNew(m, msg)
        THEN Append(inbox[d][m], msg) ELSE inbox[d][m]
  BY BroadcastTo
<1> QED BY <1>1 DEF Moved

LEMMA ReadBroadcastMoves ==
  ASSUME Mailed(inbox), NEW c \in Conn, NEW n \in Node, inbox[c][n] # << >>,
         NEW Reading, NEW Sent, Head(inbox[c][n]).type \in Reading,
         NEW msg \in Msg, msg.type \in Sent, NEW d \in Conn, NEW m \in Node
  PROVE  Moved(inbox[d][m], broadcast_message(n, msg, Read(c, n))[d][m], Reading, Sent)
<1>1. Read(c, n)[d][m] = IF d = c /\ m = n THEN Tail(inbox[d][m]) ELSE inbox[d][m]
  BY ReadIs
<1>2. Mailed(Read(c, n))
  BY MailRead
<1>3. broadcast_message(n, msg, Read(c, n))[d][m] =
        IF d \in up /\ n \in Ends(d) /\ m = Other(d, n) /\ IsNew(m, msg)
        THEN Append(Read(c, n)[d][m], msg) ELSE Read(c, n)[d][m]
  BY <1>2, BroadcastTo
<1> QED BY <1>1, <1>3 DEF Moved

LEMMA ReadSendIs ==
  ASSUME Mailed(inbox), NEW c \in Conn, NEW n \in Ends(c), inbox[c][n] # << >>,
         NEW msg \in Msg, up = Conn, NEW d \in Conn, NEW m \in Node
  PROVE  /\ Other(c, n) # n
         /\ send_message(c, n, msg, Read(c, n))[d][m] =
              IF d = c /\ m = n THEN Tail(inbox[d][m])
              ELSE IF d = c /\ m = Other(c, n) THEN Append(inbox[d][m], msg) ELSE inbox[d][m]
<1>1. n \in Node /\ Other(c, n) # n
  BY EndsAreNodes, PoaAssumption DEF Other, Ends
<1>2. Read(c, n)[d][m] = IF d = c /\ m = n THEN Tail(inbox[d][m]) ELSE inbox[d][m]
  BY <1>1, ReadIs
<1>3. Mailed(Read(c, n))
  BY <1>1, MailRead
<1>4. send_message(c, n, msg, Read(c, n))[d][m] =
        IF c \in up /\ d = c /\ m = Other(c, n)
        THEN Append(Read(c, n)[d][m], msg) ELSE Read(c, n)[d][m]
  BY <1>3, SendTo
<1> QED BY <1>1, <1>2, <1>4

-----------------------------------------------------------------------------
(***************************************************************************)
(* Who has heard, step by step.                                            *)
(***************************************************************************)
LEMMA NewcomersLink ==
  ASSUME Starlike, NEW n \in Node \ Joined
  PROVE  /\ n # Founder /\ <<n, Founder>> \in Conn /\ Founder \in Node
         /\ n \in Ends(<<n, Founder>>) /\ Founder \in Ends(<<n, Founder>>)
         /\ Other(<<n, Founder>>, n) = Founder /\ Other(<<n, Founder>>, Founder) = n
         /\ \A c \in Conn : n \in Ends(c) => c = <<n, Founder>>
<1>1. n # Founder /\ Founder \in Node
  BY PoaAssumption
<1>2. ASSUME NEW c \in Conn, n \in Ends(c) PROVE c = <<n, Founder>>
  <2>1. c = <<c[1], c[2]>>
    BY PoaAssumption
  <2>2. c[1] \notin Joined /\ c[2] = Founder
    BY <1>2 DEF Starlike, Ends
  <2> QED BY <1>1, <1>2, <2>1, <2>2 DEF Ends
<1>3. PICK c \in Conn : Ends(c) = {n, Founder}
  BY <1>1 DEF Starlike
<1> QED BY <1>1, <1>2, <1>3 DEF Ends, Other

\* A schedule that was known is left only when the chain holds it.
MinersStay(n) ==
  scheduled # << >> /\ miners[n] # << >> =>
    miners'[n] # << >> \/ Len(chain'[n]) > scheduled[1].activation_block

LEMMA HeardKept ==
  ASSUME NetInv, LineInv, OneSchedule, Longer, UNCHANGED scheduled, scheduled # << >>,
         NEW n \in Node, MinersStay(n)
  PROVE  /\ Heard(n) => Heard(n)'
         /\ Len(chain[n]) > scheduled[1].activation_block
              => Len(chain'[n]) > scheduled[1].activation_block
<1>1. scheduled[1].activation_block \in Nat
  BY OnlyEntry
<1>2. Len(chain[n]) > scheduled[1].activation_block
        => Len(chain'[n]) > scheduled[1].activation_block
  BY <1>1 DEF Longer
<1> QED BY <1>2 DEF Heard, MinersStay

LEMMA JoinedKept ==
  ASSUME NetInv, LineInv, OneSchedule, Longer, UNCHANGED scheduled,
         NEW n \in Node, JoinedInformed(n), admin_id'[n] = admin_id[n],
         Marked(n)' => Marked(n), MinersStay(n),
         \A c \in Conn : Has(inbox[c][n], "miners_list_update")
                           => Has(inbox'[c][n], "miners_list_update")
  PROVE  JoinedInformed(n)'
<1>1. ASSUME scheduled # << >>, Heard(n) PROVE Heard(n)'
  BY <1>1, HeardKept
<1>2. \A c \in Conn : Has(inbox[c][n], "miners_list_update")
                        => Has(inbox[c][n], "miners_list_update")'
  BY DEF Has
<1> QED BY <1>1, <1>2 DEF JoinedInformed

\* What a newcomer and the admin still have to read keeps its shape.
QueuesKept(n) ==
  LET q == Mail(n)
      q2 == Mail(n)'
      r == inbox[<<n, Founder>>][Founder]
      r2 == inbox'[<<n, Founder>>][Founder]
  IN
  /\ ~ Has(q, "network_details") => ~ Has(q2, "network_details")
  /\ OneDetails(q) => OneDetails(q2)
  /\ Full(q) => Full(q2)
  /\ ~ Marked(n) /\ UpdateLast(q) => UpdateLast(q2)
  /\ scheduled # << >> /\ Past(n) => AllLong(q2, scheduled[1].activation_block)
  /\ NewcomerAsks(n) => ~ Has(q2, "chain")
  /\ Asking(r) => Asking(r2)
  /\ ~ Has(r, "network_details_request") => ~ Has(r2, "network_details_request")

LEMMA NewcomerKept ==
  ASSUME NetInv, LineInv, OneSchedule, Longer, UNCHANGED scheduled,
         NEW n \in Node, Newcomer(n), admin_id'[n] = admin_id[n],
         Marked(n)' => Marked(n), MinersStay(n), QueuesKept(n),
         NewcomerAsks(n) => chain'[n] = << >>,
         scheduled # << >> /\ Past(n)
           => chain'[n] = << >> \/ Len(chain'[n]) > scheduled[1].activation_block
  PROVE  Newcomer(n)'
<1> DEFINE q == Mail(n)
           q2 == Mail(n)'
           r == inbox[<<n, Founder>>][Founder]
           r2 == inbox'[<<n, Founder>>][Founder]
<1>1. /\ \A type : Has(Mail(n), type)' <=> Has(q2, type)
      /\ OneDetails(Mail(n))' <=> OneDetails(q2)
      /\ Full(Mail(n))' <=> Full(q2)
      /\ UpdateLast(Mail(n))' <=> UpdateLast(q2)
      /\ \A type : Has(inbox[<<n, Founder>>][Founder], type)' <=> Has(r2, type)
      /\ Asking(inbox[<<n, Founder>>][Founder])' <=> Asking(r2)
  BY DEF Has, OneDetails, Full, UpdateLast, Asking
<1>2. ASSUME scheduled # << >>, Coming(n) PROVE Coming(n)'
  <2>1. CASE Past(n)
    <3>1. Len(chain'[Founder]) > scheduled[1].activation_block
      <4>1. scheduled[1].activation_block \in Nat /\ Founder \in Node
        BY <1>2, OnlyEntry, PoaAssumption
      <4> QED BY <2>1, <4>1 DEF Past, Longer
    <3>2. AllLong(q2, scheduled[1].activation_block)
      BY <1>2, <2>1 DEF QueuesKept
    <3>3. Past(n)'
      BY <1>2, <2>1, <3>1, <3>2 DEF Past, AllLong
    <3> QED BY <3>3 DEF Coming
  <2>2. CASE ~ Marked(n) /\ UpdateLast(q)
    <3>1. UpdateLast(q2) /\ ~ Marked(n)'
      BY <2>2 DEF QueuesKept
    <3> QED BY <1>1, <3>1 DEF Coming
  <2> QED BY <1>2, <2>1, <2>2 DEF Coming
<1>3. ASSUME scheduled # << >>, Heard(n) PROVE Heard(n)'
  BY <1>3, HeardKept
<1>4. CASE NewcomerAsks(n)
  <2>1. /\ Asking(r2) /\ chain'[n] = << >>
        /\ ~ Has(q2, "network_details") /\ ~ Has(q2, "chain")
    BY <1>4 DEF NewcomerAsks, QueuesKept
  <2>2. NewcomerAsks(n)'
    BY <1>1, <2>1 DEF NewcomerAsks
  <2> QED BY <2>2 DEF Newcomer
<1>5. CASE NewcomerAnswered(n)
  <2>1. /\ ~ Has(r2, "network_details_request") /\ OneDetails(q2)
        /\ scheduled # << >> => Full(q2) \/ Coming(n)'
    BY <1>2, <1>5 DEF NewcomerAnswered, QueuesKept
  <2>2. NewcomerAnswered(n)'
    BY <1>1, <2>1 DEF NewcomerAnswered
  <2> QED BY <2>2 DEF Newcomer
<1>6. CASE NewcomerKnows(n)
  <2>1. /\ ~ Has(r2, "network_details_request") /\ ~ Has(q2, "network_details")
        /\ scheduled # << >> => Heard(n)' \/ Coming(n)'
    BY <1>2, <1>3, <1>6 DEF NewcomerKnows, QueuesKept
  <2>2. NewcomerKnows(n)'
    BY <1>1, <1>6, <2>1 DEF NewcomerKnows
  <2> QED BY <2>2 DEF Newcomer
<1> QED BY <1>4, <1>5, <1>6 DEF Newcomer

LEMMA JoinedMoved ==
  ASSUME NetInv, LineInv, OneSchedule, Longer, UNCHANGED scheduled,
         NEW n \in Node, JoinedInformed(n), admin_id'[n] = admin_id[n],
         Marked(n)' => Marked(n), MinersStay(n),
         NEW Reading, NEW Sent, "miners_list_update" \notin Reading,
         "network_details" \notin Sent,
         \A c \in Conn : Moved(inbox[c][n], inbox'[c][n], Reading, Sent)
  PROVE  JoinedInformed(n)'
<1>1. ASSUME NEW c \in Conn, Has(inbox[c][n], "miners_list_update")
      PROVE  Has(inbox'[c][n], "miners_list_update")
  <2>1. inbox[c][n] \in Seq(Msg)
    BY ReadIs DEF LineInv
  <2>2. Moved(inbox[c][n], inbox'[c][n], Reading, Sent)
    OBVIOUS
  <2> QED BY <1>1, <2>1, <2>2, MovedKeeps
<1> QED BY <1>1, JoinedKept

LEMMA NewcomerMoved ==
  ASSUME NetInv, LineInv, Starlike, Longer, UNCHANGED scheduled,
         NEW n \in Node \ Joined, Newcomer(n), admin_id'[n] = admin_id[n],
         Marked(n)' => Marked(n), MinersStay(n),
         NewcomerAsks(n) => chain'[n] = << >>,
         scheduled # << >> /\ Past(n)
           => chain'[n] = << >> \/ Len(chain'[n]) > scheduled[1].activation_block,
         NEW Reading, NEW Sent,
         "miners_list_update" \notin Reading, "network_details" \notin Reading,
         "network_details" \notin Sent, "chain" \notin Sent,
         \A c \in Conn : Moved(inbox[c][n], inbox'[c][n], Reading, Sent),
         NEW Answering, NEW Asked1,
         "network_details_request" \notin Answering \cup Asked1, "network_details" \notin Asked1,
         \A c \in Conn : Moved(inbox[c][Founder], inbox'[c][Founder], Answering, Asked1)
  PROVE  Newcomer(n)'
<1>1. OneSchedule /\ <<n, Founder>> \in Conn /\ Founder \in Node
  BY NewcomersLink DEF Starlike
<1>2. PICK d \in Conn : d = <<n, Founder>>
  BY <1>1
<1>3. PICK q : q = inbox[d][n]
  OBVIOUS
<1>4. PICK q2 : q2 = inbox'[d][n]
  OBVIOUS
<1>5. PICK r : r = inbox[d][Founder]
  OBVIOUS
<1>6. PICK r2 : r2 = inbox'[d][Founder]
  OBVIOUS
<1>7. q \in Seq(Msg) /\ r \in Seq(Msg)
  BY <1>1, <1>3, <1>5, ReadIs DEF LineInv
<1>8. Moved(q, q2, Reading, Sent) /\ Moved(r, r2, Answering, Asked1)
  BY <1>3, <1>4, <1>5, <1>6
<1>9. /\ \A type : type \notin Sent => (Has(q2, type) => Has(q, type))
      /\ Full(q) => Full(q2)
      /\ OneDetails(q) => OneDetails(q2)
      /\ UpdateLast(q) => UpdateLast(q2)
      /\ \A len : AllLong(q, len) => AllLong(q2, len)
  BY <1>7, <1>8, MovedKeeps
<1>10. /\ \A type : type \notin Asked1 => (Has(r2, type) => Has(r, type))
       /\ Asking(r) => Asking(r2)
  BY <1>7, <1>8, MovedKeeps
<1>11. /\ Mail(n) = q /\ Mail(n)' = q2
       /\ inbox[<<n, Founder>>][Founder] = r /\ inbox'[<<n, Founder>>][Founder] = r2
  BY <1>2, <1>3, <1>4, <1>5, <1>6 DEF Mail
<1>12. QueuesKept(n)
  <2>1. NewcomerAsks(n) => ~ Has(q, "chain")
    BY <1>11 DEF NewcomerAsks
  <2>2. Past(n) => AllLong(q, scheduled[1].activation_block)
    BY <1>11 DEF Past
  <2> QED BY <1>9, <1>10, <1>11, <2>1, <2>2 DEF QueuesKept
<1> QED BY <1>1, <1>12, NewcomerKept

(***************************************************************************)
(* A step that reads and sends nothing but transactions, blocks and        *)
(* requests for chains.                                                    *)
(***************************************************************************)
Dull == {"new_tx", "new_block", "chain_request"}

LEMMA StarMove ==
  ASSUME NetInv, LineInv, Starlike, Informed, Longer, UNCHANGED <<scheduled, admin_id, up>>,
         \A n \in Node : /\ Marked(n)' => Marked(n)
                         /\ MinersStay(n)
                         /\ chain[n] = << >> => chain'[n] = << >>,
         \A c \in Conn, n \in Node : Moved(inbox[c][n], inbox'[c][n], Dull, Dull)
  PROVE  Informed'
<1>1. OneSchedule /\ Founder \in Node /\ Joined \subseteq Node
  BY PoaAssumption DEF Starlike
<1>2. /\ "miners_list_update" \notin Dull /\ "network_details" \notin Dull
      /\ "network_details_request" \notin Dull \cup Dull /\ "chain" \notin Dull
  BY DEF Dull
<1>3. ASSUME NEW n \in Joined PROVE JoinedInformed(n)'
  <2>1. n \in Node /\ JoinedInformed(n)
    BY <1>1 DEF Informed
  <2> QED BY <1>1, <1>2, <2>1, JoinedMoved
<1>4. ASSUME NEW n \in Node \ Joined PROVE Newcomer(n)'
  <2>1. n \in Node /\ Newcomer(n)
    BY DEF Informed
  <2>2. NewcomerAsks(n) => chain'[n] = << >>
    BY DEF NewcomerAsks
  <2>3. scheduled # << >> /\ Past(n)
          => chain'[n] = << >> \/ Len(chain'[n]) > scheduled[1].activation_block
    BY <1>1, <2>1, HeardKept DEF Past
  <2> QED BY <1>1, <1>2, <2>1, <2>2, <2>3, NewcomerMoved
<1>5. up' = Conn
  BY DEF Informed
<1> QED BY <1>3, <1>4, <1>5 DEF Informed

\* Other messages leave the marks of updates as they are.
LEMMA OtherMarks ==
  ASSUME NetInv, NEW n \in Node, NEW msg, msg.type \in {"new_tx", "new_block"},
         seen' = MarkSeen(n, msg) \/ UNCHANGED seen, UNCHANGED scheduled
  PROVE  /\ \A m \in Node : Marked(m)' <=> Marked(m)
         /\ Marks => Marks'
<1>1. ASSUME NEW m \in Node, NEW j
      PROVE  <<"miners_list_update", j>> \in seen'[m] <=> <<"miners_list_update", j>> \in seen[m]
  <2>1. MsgId(msg)[1] = msg.type
    BY DEF MsgId
  <2>2. MsgId(msg) # <<"miners_list_update", j>>
    BY <2>1
  <2>3. DOMAIN seen = Node
    BY DEF NetInv, WorkOK
  <2> QED BY <2>2, <2>3 DEF MarkSeen
<1> QED BY <1>1 DEF Marked, Marks

\* What stays when only Informed can be disturbed.
LEMMA StarRest ==
  ASSUME StarInv, UNCHANGED <<running, scheduled>>, Marks', Marked(Founder) => Marked(Founder)',
         drops' = 0 => Informed'
  PROVE  StarInv'
BY DEF StarInv

LEMMA SameMarks ==
  ASSUME UNCHANGED <<seen, scheduled>>
  PROVE  /\ \A m \in Node : Marked(m)' <=> Marked(m)
         /\ Marks => Marks'
BY DEF Marked, Marks

LEMMA SameMiners ==
  ASSUME UNCHANGED <<scheduled, miners>>, NEW n
  PROVE  MinersStay(n)
BY DEF MinersStay

(***************************************************************************)
(* Who has heard: transactions, blocks and requests for chains.            *)
(***************************************************************************)
LEMMA StarCreate ==
  ASSUME NetInv, LineInv, Starlike, StarInv, NEW n \in Node, NEW rec \in Account \ {n},
         NEW amt \in Amount, create_and_broadcast_tx(n, rec, amt)
  PROVE  StarInv'
<1> DEFINE tx == [id |-> created + 1, sender |-> n, receiver |-> rec, amount |-> amt]
           msg == [type |-> "new_tx", transaction |-> tx]
<1>1. /\ inbox' = broadcast_message(n, msg, inbox) /\ seen' = MarkSeen(n, msg)
      /\ UNCHANGED <<chain, scheduled, miners, admin_id, up, running, drops>>
  BY DEF create_and_broadcast_tx
<1>2. tx \in Tx
  BY PoaAssumption DEF NetInv, WorkOK, Tx
<1>3. msg \in Msg /\ msg.type = "new_tx" /\ msg.type \in Dull
  BY <1>2 DEF Msg, Dull
<1> HIDE DEF msg
<1>4. (\A m \in Node : Marked(m)' <=> Marked(m)) /\ Marks'
  BY <1>1, <1>3, OtherMarks DEF StarInv
<1>5. \A c \in Conn, m \in Node : Moved(inbox[c][m], inbox'[c][m], Dull, Dull)
  BY <1>1, <1>3, BroadcastMoves DEF LineInv
<1>6. Longer /\ \A m \in Node : MinersStay(m)
  BY <1>1, SameLonger, SameMiners
<1>7. ASSUME drops' = 0 PROVE Informed'
  <2>1. Informed
    BY <1>1, <1>7 DEF StarInv
  <2> QED BY <1>1, <1>4, <1>5, <1>6, <2>1, StarMove
<1>8. Founder \in Node
  BY PoaAssumption
<1> QED BY <1>1, <1>4, <1>7, <1>8, StarRest

LEMMA FailureCounts ==
  ASSUME NetInv, NEW c, NEW n, HandlerFails(c, n)
  PROVE  drops' # 0
BY DEF NetInv, LinksOK, HandlerFails

LEMMA StarNewTx ==
  ASSUME NetInv, LineInv, Starlike, StarInv, NEW c \in Conn, NEW n \in Ends(c),
         HandleNewTx(c, n)
  PROVE  StarInv'
<1>1. /\ n \in Node /\ inbox[c][n] # << >> /\ Head(inbox[c][n]).type = "new_tx"
      /\ UNCHANGED <<chain, scheduled, miners, admin_id, running>>
  BY EndsAreNodes DEF HandleNewTx, Reads
<1>2. PICK msg : msg = Head(inbox[c][n])
  OBVIOUS
<1>3. /\ seen' = MarkSeen(n, msg)
      /\ \/ HandlerFails(c, n)
         \/ /\ inbox' = Read(c, n) \/ inbox' = broadcast_message(n, msg, Read(c, n))
            /\ UNCHANGED <<up, drops>>
  BY <1>2 DEF HandleNewTx
<1>4. msg \in Msg /\ msg.type = "new_tx" /\ msg.type \in Dull
  <2>1. msg \in Sendable(c, n)
    BY <1>1, <1>2, MailRead DEF LineInv
  <2> QED BY <1>1, <1>2, <2>1 DEF Sendable, Dull
<1>5. (\A m \in Node : Marked(m)' <=> Marked(m)) /\ Marks'
  BY <1>1, <1>3, <1>4, OtherMarks DEF StarInv
<1>6. Longer /\ \A m \in Node : MinersStay(m)
  BY <1>1, SameLonger, SameMiners
<1>7. ASSUME drops' = 0 PROVE Informed'
  <2>1. /\ inbox' = Read(c, n) \/ inbox' = broadcast_message(n, msg, Read(c, n))
        /\ UNCHANGED <<up, drops>>
    BY <1>3, <1>7, FailureCounts
  <2>2. Informed
    BY <1>7, <2>1 DEF StarInv
  <2>3. ASSUME NEW d \in Conn, NEW m \in Node PROVE Moved(inbox[d][m], inbox'[d][m], Dull, Dull)
    <3>1. Head(inbox[c][n]).type \in Dull /\ Mailed(inbox)
      BY <1>2, <1>4 DEF LineInv
    <3>2. Moved(inbox[d][m], Read(c, n)[d][m], Dull, Dull)
      BY <1>1, <3>1, ReadMoves
    <3>3. Moved(inbox[d][m], broadcast_message(n, msg, Read(c, n))[d][m], Dull, Dull)
      BY <1>1, <1>4, <3>1, ReadBroadcastMoves
    <3> QED BY <2>1, <3>2, <3>3
  <2> QED BY <1>1, <1>5, <1>6, <2>1, <2>2, <2>3, StarMove
<1>8. Founder \in Node
  BY PoaAssumption
<1> QED BY <1>1, <1>5, <1>7, <1>8, StarRest

LEMMA StarFind ==
  ASSUME NetInv, LineInv, Starlike, StarInv, NEW n \in Node, find_longest_chain(n)
  PROVE  StarInv'
<1> DEFINE asks == {c \in up : n \in Ends(c) /\ ~ Asked(c, n)}
           msg == [type |-> "chain_request"]
<1>1. UNCHANGED <<chain, seen, scheduled, miners, admin_id, up, running, drops>>
  BY DEF find_longest_chain, peerVars, taskVars, historyVars
<1>2. inbox' = [c \in Conn |-> IF c \in asks
                               THEN [inbox[c] EXCEPT ![Other(c, n)] = Append(@, msg)]
                               ELSE inbox[c]]
  BY DEF find_longest_chain
<1>3. msg \in Msg /\ msg.type \in Dull
  BY DEF Msg, Dull
<1> HIDE DEF msg, asks
<1>4. ASSUME NEW c \in Conn, NEW m \in Node PROVE Moved(inbox[c][m], inbox'[c][m], Dull, Dull)
  <2>1. inbox[c] \in [Node -> Seq(Msg)]
    BY DEF LineInv, Mailed
  <2>2. inbox'[c] = IF c \in asks
                    THEN [inbox[c] EXCEPT ![Other(c, n)] = Append(inbox[c][Other(c, n)], msg)]
                    ELSE inbox[c]
    BY <1>2
  <2>3. inbox'[c][m] = inbox[c][m] \/ inbox'[c][m] = Append(inbox[c][m], msg)
    BY <2>1, <2>2
  <2> QED BY <1>3, <2>3 DEF Moved
<1>5. (\A m \in Node : Marked(m)' <=> Marked(m)) /\ Marks'
  BY <1>1, SameMarks DEF StarInv
<1>6. Longer /\ \A m \in Node : MinersStay(m)
  BY <1>1, SameLonger, SameMiners
<1>7. ASSUME drops' = 0 PROVE Informed'
  <2>1. Informed
    BY <1>1, <1>7 DEF StarInv
  <2> QED BY <1>1, <1>4, <1>5, <1>6, <2>1, StarMove
<1>8. Founder \in Node
  BY PoaAssumption
<1> QED BY <1>1, <1>5, <1>7, <1>8, StarRest

\* A block that is appended drops only a schedule that is past.
LEMMA StayAfterBlock ==
  ASSUME NetInv, LineInv, OneSchedule, NEW n \in Node, NEW c \in Seq(Block), NEW caller,
         chain' = [chain EXCEPT ![n] = c], AfterBlock(n, c, caller), NEW m \in Node
  PROVE  MinersStay(m)
<1>1. miners' = [miners EXCEPT ![n] = drop_past_entries(miners[n], Len(c))]
  BY DEF AfterBlock
<1>2. /\ miners \in [Node -> Seq(Entries)] /\ miners[n] \in Seq(Entries)
      /\ chain \in [Node -> KnownChain]
  BY DEF LineInv, MinersKept, NetInv
<1>3. CASE m # n
  BY <1>1, <1>2, <1>3 DEF MinersStay
<1>4. ASSUME m = n, scheduled # << >>, miners[n] # << >>
      PROVE  miners'[n] # << >> \/ Len(chain'[n]) > scheduled[1].activation_block
  <2>1. Entries \subseteq {scheduled[1]} /\ scheduled[1].activation_block \in Nat
    BY <1>4, OnlyEntry
  <2>2. ~ (scheduled[1].activation_block < Len(c)) => drop_past_entries(miners[n], Len(c)) # << >>
    <3>1. PICK entry : entry = scheduled[1]
      OBVIOUS
    <3> QED BY <1>2, <1>4, <2>1, <3>1, DropKept
  <2>3. /\ miners'[n] = drop_past_entries(miners[n], Len(c)) /\ chain'[n] = c
        /\ Len(c) \in Nat
    BY <1>1, <1>2
  <2> QED BY <2>1, <2>2, <2>3
<1> QED BY <1>3, <1>4 DEF MinersStay

LEMMA StarNewBlock ==
  ASSUME NetInv, LineInv, Starlike, StarInv, NEW c \in Conn, NEW n \in Ends(c),
         HandleNewBlock(c, n)
  PROVE  StarInv'
<1>1. /\ n \in Node /\ inbox[c][n] # << >> /\ Head(inbox[c][n]).type = "new_block"
      /\ UNCHANGED <<scheduled, admin_id, running>>
  BY EndsAreNodes DEF HandleNewBlock, Reads
<1>2. PICK msg : msg = Head(inbox[c][n])
  OBVIOUS
<1>3. /\ seen' = MarkSeen(n, msg)
      /\ \/ HandlerFails(c, n)
         \/ inbox' = Read(c, n) /\ UNCHANGED <<chain, miners, up, drops>>
         \/ /\ chain[n] # << >> /\ chain' = [chain EXCEPT ![n] = Append(chain[n], msg.block)]
            /\ inbox' = broadcast_message(n, msg, Read(c, n))
            /\ AfterBlock(n, Append(chain[n], msg.block), None)
            /\ UNCHANGED <<up, drops>>
  BY <1>2 DEF HandleNewBlock
<1>4. msg \in Msg /\ msg.type = "new_block" /\ msg.type \in Dull /\ msg.block \in Block
  <2>1. msg \in Sendable(c, n)
    BY <1>1, <1>2, MailRead DEF LineInv
  <2>2. msg \in Msg /\ msg.type = "new_block"
    BY <1>1, <1>2, <2>1 DEF Sendable
  <2> QED BY <2>2 DEF Msg, Dull
<1>5. (\A m \in Node : Marked(m)' <=> Marked(m)) /\ Marks'
  BY <1>1, <1>3, <1>4, OtherMarks DEF StarInv
<1>6. ASSUME drops' = 0 PROVE Informed'
  <2>1. /\ UNCHANGED <<up, drops>>
        /\ \/ inbox' = Read(c, n) /\ UNCHANGED <<chain, miners>>
           \/ /\ chain[n] # << >> /\ chain' = [chain EXCEPT ![n] = Append(chain[n], msg.block)]
              /\ inbox' = broadcast_message(n, msg, Read(c, n))
              /\ AfterBlock(n, Append(chain[n], msg.block), None)
    BY <1>3, <1>6, FailureCounts
  <2>2. Informed
    BY <1>6, <2>1 DEF StarInv
  <2>3. ASSUME NEW d \in Conn, NEW m \in Node PROVE Moved(inbox[d][m], inbox'[d][m], Dull, Dull)
    <3>1. Head(inbox[c][n]).type \in Dull /\ Mailed(inbox)
      BY <1>2, <1>4 DEF LineInv
    <3>2. Moved(inbox[d][m], Read(c, n)[d][m], Dull, Dull)
      BY <1>1, <3>1, ReadMoves
    <3>3. Moved(inbox[d][m], broadcast_message(n, msg, Read(c, n))[d][m], Dull, Dull)
      BY <1>1, <1>4, <3>1, ReadBroadcastMoves
    <3> QED BY <2>1, <3>2, <3>3
  <2>4. Longer /\ \A m \in Node : MinersStay(m) /\ (chain[m] = << >> => chain'[m] = << >>)
    <3>1. CASE UNCHANGED <<chain, miners>>
      BY <1>1, <3>1, SameLonger, SameMiners
    <3>2. CASE /\ chain[n] # << >> /\ chain' = [chain EXCEPT ![n] = Append(chain[n], msg.block)]
               /\ AfterBlock(n, Append(chain[n], msg.block), None)
      <4>1. chain[n] \in Seq(Block)
        BY <1>1, KnownAreBlocks DEF NetInv
      <4>2. PICK longer : longer = Append(chain[n], msg.block)
        OBVIOUS
      <4>3. longer \in Seq(Block) /\ Len(longer) >= Len(chain[n])
        BY <1>4, <4>1, <4>2, AppendType
      <4>4. chain' = [chain EXCEPT ![n] = longer] /\ AfterBlock(n, longer, None)
        BY <3>2, <4>2
      <4>5. \A m \in Node : chain[m] = << >> => chain'[m] = << >>
        BY <3>2 DEF NetInv
      <4> QED BY <1>1, <4>3, <4>4, <4>5, GrowsLonger, StayAfterBlock DEF Starlike
    <3> QED BY <2>1, <3>1, <3>2
  <2> QED BY <1>1, <1>5, <2>1, <2>2, <2>3, <2>4, StarMove
<1>7. Founder \in Node
  BY PoaAssumption
<1> QED BY <1>1, <1>5, <1>6, <1>7, StarRest

LEMMA StarMine ==
  ASSUME NetInv, LineInv, Starlike, StarInv, NEW n \in Node, chain[n] # << >>,
         NEW list \in Seq(Account), NEW task, MineBlock(n, task, list)
  PROVE  StarInv'
<1> DEFINE swept == Sweep(mem_pool[n], InChain(mem_pool[n], chain[n]))
           newBlock == [hash |-> Len(minted), prevHash |-> lastBlock(chain[n]).hash,
                        transactions |-> swept.taken, miner |-> n, miners_list |-> list]
           msg == [type |-> "new_block", block |-> newBlock]
<1>1. UNCHANGED <<scheduled, admin_id, up, running, drops>>
  BY DEF MineBlock
<1>2. chain[n] \in Seq(Block) /\ OneSchedule
  BY KnownAreBlocks DEF NetInv, Starlike
<1>3. newBlock \in Block
  <2>1. swept.taken \in Seq(Tx)
    BY SweepPoolType DEF NetInv
  <2>2. lastBlock(chain[n]) \in Block
    BY <1>2 DEF lastBlock
  <2>3. n \in Account /\ lastBlock(chain[n]).hash \in Nat /\ Len(minted) \in Nat
    BY <2>2, PoaAssumption DEF Block, NetInv, MintedInOrder
  <2> HIDE DEF swept
  <2> QED BY <2>1, <2>3 DEF Block
<1>4. msg \in Msg /\ msg.type = "new_block" /\ msg.type \in Dull
  BY <1>3 DEF Msg, Dull
<1>5. \/ UNCHANGED <<chain, seen, miners, inbox>>
      \/ /\ chain' = [chain EXCEPT ![n] = Append(chain[n], newBlock)]
         /\ seen' = MarkSeen(n, msg)
         /\ inbox' = broadcast_message(n, msg, inbox)
         /\ AfterBlock(n, Append(chain[n], newBlock), task)
  BY DEF MineBlock
<1> HIDE DEF newBlock, msg
<1>6. (\A m \in Node : Marked(m)' <=> Marked(m)) /\ Marks'
  BY <1>1, <1>4, <1>5, OtherMarks DEF StarInv
<1>7. ASSUME NEW d \in Conn, NEW m \in Node PROVE Moved(inbox[d][m], inbox'[d][m], Dull, Dull)
  <2>1. CASE UNCHANGED inbox
    BY <2>1 DEF Moved
  <2>2. CASE inbox' = broadcast_message(n, msg, inbox)
    BY <1>4, <2>2, BroadcastMoves DEF LineInv
  <2> QED BY <1>5, <2>1, <2>2
<1>8. Longer /\ \A m \in Node : MinersStay(m) /\ (chain[m] = << >> => chain'[m] = << >>)
  <2>1. CASE UNCHANGED <<chain, miners>>
    BY <1>1, <2>1, SameLonger, SameMiners
  <2>2. CASE /\ chain' = [chain EXCEPT ![n] = Append(chain[n], newBlock)]
             /\ AfterBlock(n, Append(chain[n], newBlock), task)
    <3>1. PICK longer : longer = Append(chain[n], newBlock)
      OBVIOUS
    <3>2. longer \in Seq(Block) /\ Len(longer) >= Len(chain[n])
      BY <1>2, <1>3, <3>1, AppendType
    <3>3. chain' = [chain EXCEPT ![n] = longer] /\ AfterBlock(n, longer, task)
      BY <2>2, <3>1
    <3>4. \A m \in Node : chain[m] = << >> => chain'[m] = << >>
      BY <2>2 DEF NetInv
    <3> QED BY <1>2, <3>2, <3>3, <3>4, GrowsLonger, StayAfterBlock
  <2> QED BY <1>5, <2>1, <2>2
<1>9. ASSUME drops' = 0 PROVE Informed'
  <2>1. Informed
    BY <1>1, <1>9 DEF StarInv
  <2> QED BY <1>1, <1>6, <1>7, <1>8, <2>1, StarMove
<1>10. Founder \in Node
  BY PoaAssumption
<1> QED BY <1>1, <1>6, <1>9, <1>10, StarRest

\* A step that leaves peers, queues and marks as they are.
LEMMA StarStill ==
  ASSUME NetInv, LineInv, Starlike, StarInv,
         UNCHANGED <<chain, seen, admin_id, miners, netVars, scheduled, drops>>
  PROVE  StarInv'
<1>1. \A d \in Conn, m \in Node : Moved(inbox[d][m], inbox'[d][m], Dull, Dull)
  BY DEF netVars, Moved
<1>2. (\A m \in Node : Marked(m)' <=> Marked(m)) /\ Marks'
  BY SameMarks DEF StarInv
<1>3. Longer /\ \A m \in Node : MinersStay(m)
  BY SameLonger, SameMiners
<1>4. ASSUME drops' = 0 PROVE Informed'
  <2>1. Informed
    BY <1>4 DEF StarInv
  <2> QED BY <1>1, <1>2, <1>3, <2>1, StarMove DEF netVars
<1>5. Founder \in Node
  BY PoaAssumption
<1> QED BY <1>2, <1>4, <1>5, StarRest DEF netVars

LEMMA StarWakes ==
  ASSUME NetInv, LineInv, Starlike, StarInv, NEW n \in Node,
         (\E task \in live[n] : MinerWakes(n, task)) \/ LateMinerWakes(n)
         \/ StartWaiting(n) \/ ShiftMiner(n)
  PROVE  StarInv'
<1>1. round[n] = 0 /\ waited[n] = FALSE /\ late[n] = {} /\ Turns = 0
  BY DEF LineInv, TurnsKept, Starlike, OneSchedule
<1>2. PICK task \in live[n] : MinerWakes(n, task)
  BY <1>1 DEF LateMinerWakes, StartWaiting, ShiftMiner
<1>3. chain[n] # << >>
  BY <1>2 DEF NetInv, Idle
<1>4. PICK list : list = get_current_miners_list(chain[n], miners[n])
  OBVIOUS
<1>5. list \in Seq(Account)
  <2>1. chain[n] \in Seq(Block) /\ miners[n] \in Seq(Entry)
    BY KnownAreBlocks DEF NetInv, ScheduleOK
  <2> QED BY <1>3, <1>4, <2>1, CurrentMinersType
<1>6. \/ MineBlock(n, task, list)
      \/ UNCHANGED <<peerVars, netVars, historyVars>>
  BY <1>2, <1>4 DEF MinerWakes
<1>7. CASE UNCHANGED <<peerVars, netVars, historyVars>>
  BY <1>7, StarStill DEF peerVars, historyVars
<1> QED BY <1>3, <1>5, <1>6, <1>7, StarMine

LEMMA StarConnections ==
  ASSUME NetInv, LineInv, Starlike, StarInv, NEW c \in Conn, Disconnect(c) \/ connect_to_peer(c)
  PROVE  StarInv'
<1>1. UNCHANGED <<seen, scheduled, running>>
  BY DEF Disconnect, connect_to_peer, peerVars, historyVars
<1>2. drops' # 0
  <2>1. CASE Disconnect(c)
    BY <2>1 DEF Disconnect, NetInv, LinksOK
  <2>2. CASE connect_to_peer(c)
    BY <2>2 DEF connect_to_peer, historyVars, StarInv, Informed
  <2> QED BY <2>1, <2>2
<1>3. (\A m \in Node : Marked(m)' <=> Marked(m)) /\ Marks' /\ Founder \in Node
  BY <1>1, SameMarks, PoaAssumption DEF StarInv
<1> QED BY <1>1, <1>2, <1>3, StarRest

LEMMA NobodyStops ==
  ASSUME Starlike, StarInv, NEW n \in Node
  PROVE  ~ Stop(n)
<1>1. Node \ running = {}
  BY DEF StarInv
<1>2. Cardinality(Node \ running) = 0
  BY <1>1, FS_EmptySet
<1> QED BY <1>2 DEF Stop, Starlike

(***************************************************************************)
(* Who has heard: chains.                                                  *)
(***************************************************************************)
LEMMA StarChain ==
  ASSUME NetInv, LineInv, Starlike, StarInv, NEW c \in Conn, NEW p \in Ends(c),
         HandleChain(c, p)
  PROVE  StarInv'
<1>1. /\ p \in Node /\ inbox[c][p] # << >> /\ Head(inbox[c][p]).type = "chain"
      /\ inbox' = Read(c, p) /\ Mailed(inbox)
      /\ UNCHANGED <<seen, admin_id, miners, up, running, scheduled, drops>>
  BY EndsAreNodes DEF HandleChain, Reads, historyVars, LineInv
<1>2. (\A m \in Node : Marked(m)' <=> Marked(m)) /\ Marks'
  BY <1>1, SameMarks DEF StarInv
<1>3. OneSchedule /\ Founder \in Node /\ Joined \subseteq Node
  BY PoaAssumption DEF Starlike
<1>4. chain \in [Node -> KnownChain]
  BY DEF NetInv
<1>5. UNCHANGED chain \/ \E block_list \in KnownChain :
                           /\ Len(block_list) > Len(chain[p])
                           /\ block_list = Head(inbox[c][p]).chain
                           /\ chain' = [chain EXCEPT ![p] = block_list]
  <2> DEFINE block_list == Head(inbox[c][p]).chain
  <2>1. \/ UNCHANGED chain
        \/ /\ Len(block_list) > Len(chain[p])
           /\ chain' = [chain EXCEPT ![p] = rewrite(chain[p], block_list)]
    BY DEF HandleChain
  <2>2. block_list \in KnownChain
    <3>1. Head(inbox[c][p]) \in KnownMsg
      BY <1>1, ReadType DEF NetInv
    <3> QED BY <1>1, <3>1, MessageFields
  <2> HIDE DEF block_list
  <2>3. Len(block_list) > Len(chain[p]) => rewrite(chain[p], block_list) = block_list
    BY <2>2 DEF rewrite
  <2> QED BY <2>1, <2>2, <2>3 DEF block_list
<1>6. Longer
  <2>1. CASE UNCHANGED chain
    BY <2>1, SameLonger
  <2>2. ASSUME NEW block_list \in KnownChain, Len(block_list) > Len(chain[p]),
               chain' = [chain EXCEPT ![p] = block_list]
        PROVE  Longer
    <3>1. block_list \in Seq(Block) /\ chain[p] \in Seq(Block)
      BY <1>1, KnownAreBlocks DEF NetInv
    <3>2. Len(block_list) >= Len(chain[p])
      BY <2>2, <3>1
    <3> QED BY <1>1, <2>2, <3>1, <3>2, GrowsLonger
  <2> QED BY <1>5, <2>1, <2>2
<1>7. \A m \in Node : MinersStay(m)
  BY <1>1, SameMiners
<1>8. PICK R : R = {"chain"}
  OBVIOUS
<1>9. ASSUME NEW d \in Conn, NEW m \in Node PROVE Moved(inbox[d][m], inbox'[d][m], R, {})
  <2>1. Head(inbox[c][p]).type \in R
    BY <1>1, <1>8
  <2>2. Moved(inbox[d][m], Read(c, p)[d][m], R, {})
    BY <1>1, <2>1, ReadMoves
  <2> QED BY <1>1, <2>2
<1>10. "miners_list_update" \notin R /\ "network_details" \notin R
       /\ "network_details_request" \notin R \cup {}
  BY <1>8
<1>11. ASSUME drops' = 0 PROVE Informed'
  <2>1. Informed
    BY <1>1, <1>11 DEF StarInv
  <2>2. ASSUME NEW n \in Joined PROVE JoinedInformed(n)'
    <3>1. n \in Node /\ JoinedInformed(n)
      BY <1>3, <2>1 DEF Informed
    <3>2. \A d \in Conn : Moved(inbox[d][n], inbox'[d][n], R, {})
      BY <1>9, <3>1
    <3> QED BY <1>1, <1>2, <1>3, <1>6, <1>7, <1>10, <3>1, <3>2, JoinedMoved
  <2>3. ASSUME NEW n \in Node \ Joined PROVE Newcomer(n)'
    <3>1. n \in Node /\ Newcomer(n)
      BY <2>1 DEF Informed
    <3>2. /\ \A d \in Conn : Moved(inbox[d][n], inbox'[d][n], R, {})
          /\ \A d \in Conn : Moved(inbox[d][Founder], inbox'[d][Founder], R, {})
      BY <1>3, <1>9, <3>1
    <3>3. n = p => inbox[c][p] = Mail(n)
      BY <3>1, NewcomersLink DEF Mail
    <3>4. n # p => chain'[n] = chain[n]
      BY <1>4, <1>5
    <3>5. NewcomerAsks(n) => chain'[n] = << >>
      <4>1. CASE n # p
        BY <3>4, <4>1 DEF NewcomerAsks
      <4>2. CASE n = p
        <5>1. Has(inbox[c][p], "chain")
          <6>1. inbox[c][p] \in Seq(Msg)
            BY <1>1, ReadIs
          <6> QED BY <1>1, <6>1, QueueTail
        <5> QED BY <3>3, <4>2, <5>1 DEF NewcomerAsks
      <4> QED BY <4>1, <4>2
    <3>6. ASSUME scheduled # << >>, Past(n)
          PROVE  chain'[n] = << >> \/ Len(chain'[n]) > scheduled[1].activation_block
      <4>1. CASE chain'[n] = chain[n]
        BY <3>6, <4>1 DEF Past
      <4>2. CASE n = p /\ chain'[n] = Head(inbox[c][p]).chain
        <5>1. AllLong(inbox[c][p], scheduled[1].activation_block)
          BY <3>3, <3>6, <4>2 DEF Past
        <5>2. inbox[c][p] \in Seq(Msg)
          BY <1>1, ReadIs
        <5>3. Len(Head(inbox[c][p]).chain) > scheduled[1].activation_block
          BY <1>1, <5>1, <5>2, QueueTail
        <5> QED BY <4>2, <5>3
      <4> QED BY <1>4, <1>5, <3>4, <4>1, <4>2
    <3>7. "network_details" \notin {} /\ "chain" \notin {}
      OBVIOUS
    <3> QED BY <1>1, <1>2, <1>6, <1>7, <1>10, <3>1, <3>2, <3>5, <3>6, <3>7, NewcomerMoved
  <2> QED BY <1>1, <2>1, <2>2, <2>3 DEF Informed
<1> QED BY <1>1, <1>2, <1>3, <1>11, StarRest

LEMMA StarChainRequest ==
  ASSUME NetInv, LineInv, Starlike, StarInv, NEW c \in Conn, NEW p \in Ends(c),
         HandleChainRequest(c, p)
  PROVE  StarInv'
<1>1. /\ p \in Node /\ inbox[c][p] # << >> /\ Head(inbox[c][p]).type = "chain_request"
      /\ UNCHANGED <<chain, seen, admin_id, miners, up, running, scheduled, drops>>
  BY EndsAreNodes DEF HandleChainRequest, Reads, peerVars, historyVars
<1>2. (\A m \in Node : Marked(m)' <=> Marked(m)) /\ Marks'
  BY <1>1, SameMarks DEF StarInv
<1>3. OneSchedule /\ Founder \in Node /\ Joined \subseteq Node /\ Mailed(inbox)
  BY PoaAssumption DEF Starlike, LineInv
<1>4. Longer /\ \A m \in Node : MinersStay(m)
  BY <1>1, SameLonger, SameMiners
<1>5. PICK msg : msg = [type |-> "chain", chain |-> chain[p]]
  OBVIOUS
<1>6. msg \in Msg /\ msg.type = "chain" /\ msg.chain = chain[p]
  <2>1. chain[p] \in Seq(Block)
    BY <1>1, KnownAreBlocks DEF NetInv
  <2> QED BY <1>5, <2>1 DEF Msg
<1>7. inbox' = Read(c, p) \/ inbox' = send_message(c, p, msg, Read(c, p))
  BY <1>5 DEF HandleChainRequest
<1>8. ASSUME drops' = 0 PROVE Informed'
  <2>1. Informed /\ up = Conn /\ up' = Conn
    BY <1>1, <1>8 DEF StarInv, Informed
  <2>2. PICK o : o = Other(c, p)
    OBVIOUS
  <2>3. ASSUME NEW d \in Conn, NEW m \in Node
        PROVE  \/ inbox'[d][m] = inbox[d][m]
               \/ d = c /\ m = p /\ inbox'[d][m] = Tail(inbox[d][m])
               \/ d = c /\ m = o /\ m # p /\ inbox'[d][m] = Append(inbox[d][m], msg)
    <3>1. Read(c, p)[d][m] = IF d = c /\ m = p THEN Tail(inbox[d][m]) ELSE inbox[d][m]
      BY <1>1, <1>3, ReadIs
    <3>2. /\ o # p
          /\ send_message(c, p, msg, Read(c, p))[d][m] =
               IF d = c /\ m = p THEN Tail(inbox[d][m])
               ELSE IF d = c /\ m = o THEN Append(inbox[d][m], msg) ELSE inbox[d][m]
      BY <1>1, <1>3, <1>6, <2>1, <2>2, ReadSendIs
    <3> QED BY <1>7, <3>1, <3>2
  <2>4. PICK R, S : R = {"chain_request"} /\ S = {"chain"}
    OBVIOUS
  <2>5. ASSUME NEW d \in Conn, NEW m \in Node
        PROVE  /\ Moved(inbox[d][m], inbox'[d][m], R, S)
               /\ m # o => Moved(inbox[d][m], inbox'[d][m], R, {})
               /\ m = o => inbox'[d][m] = inbox[d][m] \/ inbox'[d][m] = Append(inbox[d][m], msg)
               /\ m = o => Moved(inbox[d][m], inbox'[d][m], {}, S)
    <3>1. o # p
      BY <1>1, <1>3, <1>6, <2>1, <2>2, ReadSendIs
    <3>2. CASE inbox'[d][m] = inbox[d][m]
      BY <3>2 DEF Moved
    <3>3. CASE d = c /\ m = p /\ inbox'[d][m] = Tail(inbox[d][m])
      <4>1. inbox[d][m] # << >> /\ Head(inbox[d][m]).type \in R /\ m # o
        BY <1>1, <2>4, <3>1, <3>3
      <4> QED BY <3>3, <4>1 DEF Moved
    <3>4. CASE m = o /\ m # p /\ inbox'[d][m] = Append(inbox[d][m], msg)
      <4>1. msg.type \in S
        BY <1>6, <2>4
      <4> QED BY <1>6, <3>4, <4>1 DEF Moved
    <3> QED BY <2>3, <3>2, <3>3, <3>4
  <2>6. ASSUME NEW n \in Joined PROVE JoinedInformed(n)'
    <3>1. n \in Node /\ JoinedInformed(n)
      BY <1>3, <2>1 DEF Informed
    <3>2. \A d \in Conn : Moved(inbox[d][n], inbox'[d][n], R, S)
      BY <2>5, <3>1
    <3>3. "miners_list_update" \notin R /\ "network_details" \notin S
      BY <2>4
    <3> QED BY <1>1, <1>2, <1>3, <1>4, <3>1, <3>2, <3>3, JoinedMoved
  <2>7. ASSUME NEW n \in Node \ Joined PROVE Newcomer(n)'
    <3>1. n \in Node /\ Newcomer(n) /\ chain'[n] = chain[n]
      BY <1>1, <2>1 DEF Informed
    <3>2. NewcomerAsks(n) => chain'[n] = << >>
      BY <3>1 DEF NewcomerAsks
    <3>3. scheduled # << >> /\ Past(n)
            => chain'[n] = << >> \/ Len(chain'[n]) > scheduled[1].activation_block
      BY <3>1 DEF Past
    <3>4. \A d \in Conn : Moved(inbox[d][Founder], inbox'[d][Founder], R, S)
      BY <1>3, <2>5
    <3>5. /\ "miners_list_update" \notin R /\ "network_details" \notin R
          /\ "network_details" \notin {} /\ "chain" \notin {}
          /\ "network_details_request" \notin R \cup S /\ "network_details" \notin S
      BY <2>4
    <3>6. CASE n # o
      <4>1. \A d \in Conn : Moved(inbox[d][n], inbox'[d][n], R, {})
        BY <2>5, <3>1, <3>6
      <4> QED BY <1>1, <1>2, <1>4, <3>1, <3>2, <3>3, <3>4, <3>5, <4>1, NewcomerMoved
    <3>7. CASE n = o
      <4>1. n \in Ends(c) /\ p = Founder /\ c = <<n, Founder>>
        <5>1. n \in Ends(c) /\ Ends(c) = {n, p}
          BY <2>2, <3>7 DEF Other, Ends
        <5>2. c = <<n, Founder>> /\ n # Founder
          BY <5>1, NewcomersLink
        <5> QED BY <5>1, <5>2 DEF Ends
      <4>2. PICK q : q = inbox[c][n]
        OBVIOUS
      <4>3. PICK q2 : q2 = inbox'[c][n]
        OBVIOUS
      <4>4. PICK r : r = inbox[c][Founder]
        OBVIOUS
      <4>5. PICK r2 : r2 = inbox'[c][Founder]
        OBVIOUS
      <4>6. q \in Seq(Msg) /\ r \in Seq(Msg)
        BY <1>3, <3>1, <4>2, <4>4, ReadIs
      <4>7. /\ Moved(q, q2, {}, S) /\ (q2 = q \/ q2 = Append(q, msg))
            /\ Moved(r, r2, R, S)
        BY <1>3, <2>5, <3>1, <3>7, <4>2, <4>3, <4>4, <4>5
      <4>8. /\ \A type : type \notin S => (Has(q2, type) => Has(q, type))
            /\ Full(q) => Full(q2)
            /\ OneDetails(q) => OneDetails(q2)
            /\ UpdateLast(q) => UpdateLast(q2)
        BY <3>5, <4>6, <4>7, MovedKeeps
      <4>9. /\ \A type : type \notin S => (Has(r2, type) => Has(r, type))
            /\ Asking(r) => Asking(r2)
        BY <3>5, <4>6, <4>7, MovedKeeps
      <4>10. /\ Mail(n) = q /\ Mail(n)' = q2
             /\ inbox[<<n, Founder>>][Founder] = r /\ inbox'[<<n, Founder>>][Founder] = r2
        BY <4>1, <4>2, <4>3, <4>4, <4>5 DEF Mail
      <4>11. ~ Asking(r)
        BY <1>1, <4>1, <4>4 DEF Asking
      <4>12. ASSUME scheduled # << >>, Past(n) PROVE AllLong(q2, scheduled[1].activation_block)
        <5>1. AllLong(q, scheduled[1].activation_block)
              /\ Len(msg.chain) > scheduled[1].activation_block
          BY <1>6, <4>1, <4>10, <4>12 DEF Past
        <5>2. CASE q2 = q
          BY <5>1, <5>2
        <5>3. CASE q2 = Append(q, msg)
          <6>1. PICK len : len = scheduled[1].activation_block
            OBVIOUS
          <6>2. AllLong(q, len) /\ (msg.type = "chain" => Len(msg.chain) > len) => AllLong(q2, len)
            BY <1>6, <4>6, <5>3, QueueAppend
          <6> QED BY <5>1, <6>1, <6>2
        <5> QED BY <4>7, <5>2, <5>3
      <4>13. QueuesKept(n)
        BY <3>5, <4>8, <4>9, <4>10, <4>11, <4>12 DEF QueuesKept, NewcomerAsks
      <4> QED BY <1>1, <1>2, <1>3, <1>4, <3>1, <3>2, <3>3, <4>13, NewcomerKept
    <3> QED BY <3>6, <3>7
  <2> QED BY <2>1, <2>6, <2>7 DEF Informed
<1> QED BY <1>1, <1>2, <1>3, <1>8, StarRest

(***************************************************************************)
(* Who has heard: details.                                                 *)
(***************************************************************************)

\* A newcomer's queues after a step that only it and the admin take part in leave
\* every other newcomer where it was.
LEMMA OthersWait ==
  ASSUME NetInv, LineInv, Starlike, Longer, UNCHANGED <<scheduled, admin_id, chain>>,
         NEW n \in Node \ Joined, Newcomer(n), Marked(n)' => Marked(n), MinersStay(n),
         inbox'[<<n, Founder>>][n] = inbox[<<n, Founder>>][n],
         inbox'[<<n, Founder>>][Founder] = inbox[<<n, Founder>>][Founder]
  PROVE  Newcomer(n)'
<1>1. OneSchedule
  BY DEF Starlike
<1>2. Mail(n)' = Mail(n)
  BY DEF Mail
<1>3. QueuesKept(n)
  BY <1>2 DEF QueuesKept, Past, NewcomerAsks
<1>4. NewcomerAsks(n) => chain'[n] = << >>
  BY DEF NewcomerAsks
<1>5. scheduled # << >> /\ Past(n)
        => chain'[n] = << >> \/ Len(chain'[n]) > scheduled[1].activation_block
  BY DEF Past
<1> QED BY <1>1, <1>3, <1>4, <1>5, NewcomerKept

LEMMA StarDetailsRequest ==
  ASSUME NetInv, LineInv, Starlike, StarInv, NEW c \in Conn, NEW p \in Ends(c),
         HandleDetailsRequest(c, p)
  PROVE  StarInv'
<1>1. /\ p \in Node /\ inbox[c][p] # << >> /\ Head(inbox[c][p]).type = "network_details_request"
      /\ inbox' = send_message(c, p, network_details(p), Read(c, p))
      /\ UNCHANGED <<chain, seen, admin_id, miners, up, running, scheduled, drops>>
  BY EndsAreNodes DEF HandleDetailsRequest, Reads, peerVars, historyVars
<1>2. (\A m \in Node : Marked(m)' <=> Marked(m)) /\ Marks'
  BY <1>1, SameMarks DEF StarInv
<1>3. OneSchedule /\ Founder \in Joined /\ Joined \subseteq Node /\ Mailed(inbox)
  BY PoaAssumption DEF Starlike, LineInv
<1>4. Longer /\ \A m \in Node : MinersStay(m)
  BY <1>1, SameLonger, SameMiners
<1>5. PICK o : o = c[1]
  OBVIOUS
<1>6. /\ o \in Node \ Joined /\ p = Founder /\ c = <<o, Founder>> /\ Other(c, p) = o /\ o # p
  <2>1. p = c[2] /\ c[1] \notin Joined /\ c[1] \in Node
    <3>1. Head(inbox[c][p]) \in Sendable(c, p)
      BY <1>1, <1>3, MailRead
    <3> QED BY <1>1, <3>1, PoaAssumption DEF Sendable
  <2>2. o \in Ends(c) /\ o \in Node \ Joined
    BY <1>5, <2>1 DEF Ends
  <2>3. c = <<o, Founder>> /\ o # Founder
    BY <2>2, NewcomersLink
  <2> QED BY <1>5, <2>1, <2>2, <2>3 DEF Other
<1>7. PICK msg : msg = network_details(p)
  OBVIOUS
<1>8. /\ msg \in Msg /\ msg.type = "network_details"
      /\ msg.admin = admin_id[p] /\ msg.miners = miners[p]
  <2>1. admin_id[p] \in Node \cup {None} /\ miners[p] \in Seq(Entry)
    BY <1>1 DEF NetInv, ScheduleOK
  <2> QED BY <1>7, <2>1 DEF network_details, Msg
<1>9. ASSUME drops' = 0 PROVE Informed'
  <2>1. Informed /\ up = Conn /\ up' = Conn
    BY <1>1, <1>9 DEF StarInv, Informed
  <2>2. ASSUME NEW d \in Conn, NEW m \in Node
        PROVE  inbox'[d][m] = IF d = c /\ m = p THEN Tail(inbox[d][m])
                              ELSE IF d = c /\ m = o THEN Append(inbox[d][m], msg)
                              ELSE inbox[d][m]
    <3>1. send_message(c, p, msg, Read(c, p))[d][m] =
            IF d = c /\ m = p THEN Tail(inbox[d][m])
            ELSE IF d = c /\ m = Other(c, p) THEN Append(inbox[d][m], msg) ELSE inbox[d][m]
      BY <1>1, <1>3, <1>8, <2>1, ReadSendIs
    <3> QED BY <1>1, <1>6, <1>7, <3>1
  <2>3. PICK R : R = {"network_details_request"}
    OBVIOUS
  <2>4. ASSUME NEW n \in Joined PROVE JoinedInformed(n)'
    <3>1. n \in Node /\ JoinedInformed(n) /\ n # o
      BY <1>3, <1>6, <2>1 DEF Informed
    <3>2. ASSUME NEW d \in Conn PROVE Moved(inbox[d][n], inbox'[d][n], R, {})
      <4>1. inbox'[d][n] = IF d = c /\ n = p THEN Tail(inbox[d][n]) ELSE inbox[d][n]
        BY <2>2, <3>1
      <4>2. CASE d = c /\ n = p
        <5>1. inbox[d][n] # << >> /\ Head(inbox[d][n]).type \in R
          BY <1>1, <2>3, <4>2
        <5> QED BY <4>1, <4>2, <5>1 DEF Moved
      <4>3. CASE ~ (d = c /\ n = p)
        BY <4>1, <4>3 DEF Moved
      <4> QED BY <4>2, <4>3
    <3>3. "miners_list_update" \notin R /\ "network_details" \notin {}
      BY <2>3
    <3> QED BY <1>1, <1>2, <1>3, <1>4, <3>1, <3>2, <3>3, JoinedMoved
  <2>5. ASSUME NEW n \in Node \ Joined PROVE Newcomer(n)'
    <3>1. n \in Node /\ Newcomer(n) /\ <<n, Founder>> \in Conn
      BY <2>1, NewcomersLink DEF Informed
    <3>2. CASE n # o
      <4>1. <<n, Founder>> # c
        BY <1>6, <3>2
      <4>2. /\ inbox'[<<n, Founder>>][n] = inbox[<<n, Founder>>][n]
            /\ inbox'[<<n, Founder>>][Founder] = inbox[<<n, Founder>>][Founder]
        BY <1>3, <2>2, <3>1, <4>1
      <4> QED BY <1>1, <1>2, <1>4, <3>1, <4>2, OthersWait
    <3>3. CASE n = o
      <4>1. PICK q : q = inbox[c][n]
        OBVIOUS
      <4>2. PICK r : r = inbox[c][Founder]
        OBVIOUS
      <4>3. PICK r2 : r2 = Tail(r)
        OBVIOUS
      <4>4. PICK q2 : q2 = Append(q, msg)
        OBVIOUS
      <4>5. /\ q \in Seq(Msg) /\ r \in Seq(Msg) /\ r # << >>
            /\ Head(r).type = "network_details_request"
        BY <1>1, <1>3, <1>6, <3>1, <4>1, <4>2, ReadIs
      <4>6. inbox'[c][n] = q2 /\ inbox'[c][Founder] = r2
        BY <1>3, <1>6, <2>2, <3>1, <3>3, <4>1, <4>2, <4>3, <4>4
      <4>7. NewcomerAsks(n)
        <5>1. Has(inbox[<<n, Founder>>][Founder], "network_details_request")
          BY <1>6, <3>3, <4>2, <4>5, QueueTail
        <5> QED BY <3>1, <5>1 DEF Newcomer, NewcomerAnswered, NewcomerKnows
      <4>8. /\ ~ Has(r2, "network_details_request") /\ chain[n] = << >>
            /\ ~ Has(q, "network_details") /\ ~ Has(q, "chain")
        BY <1>6, <3>3, <4>1, <4>2, <4>3, <4>7 DEF NewcomerAsks, Asking, Mail
      <4>9. admin_id[p] = Founder
        BY <1>3, <1>6, <2>1 DEF Informed, JoinedInformed
      <4>10. OneDetails(q2)
        BY <1>8, <4>4, <4>5, <4>8, <4>9, QueueAppend
      <4>11. ASSUME scheduled # << >> PROVE Full(q2) \/ Past(n)'
        <5>1. CASE miners[Founder] # << >>
          <6>1. Full(q)
            BY <4>8 DEF Full, Has
          <6> QED BY <1>6, <1>8, <4>4, <4>5, <5>1, <6>1, QueueAppend
        <5>2. CASE Len(chain[Founder]) > scheduled[1].activation_block
          <6>1. ~ Has(q2, "chain")
            BY <1>8, <4>4, <4>5, <4>8, QueueAppend
          <6>2. AllLong(q2, scheduled[1].activation_block)
            BY <6>1 DEF AllLong, Has
          <6>3. Mail(n)' = q2
            BY <1>6, <3>3, <4>6 DEF Mail
          <6>4. AllLong(Mail(n)', scheduled[1].activation_block)
            BY <6>2, <6>3
          <6>5. /\ Len(chain'[Founder]) > scheduled'[1].activation_block
                /\ chain'[n] = << >> /\ scheduled'[1] = scheduled[1]
            BY <1>1, <4>8, <5>2
          <6> QED BY <6>4, <6>5 DEF Past, AllLong
        <5> QED BY <4>11, <5>1, <5>2 DEF LineInv, MinersKept
      <4>12. NewcomerAnswered(n)'
        <5>1. /\ (OneDetails(Mail(n)))' <=> OneDetails(q2)
              /\ (Full(Mail(n)))' <=> Full(q2)
              /\ (Has(inbox[<<n, Founder>>][Founder], "network_details_request"))'
                   <=> Has(r2, "network_details_request")
          BY <1>6, <3>3, <4>6 DEF Mail, OneDetails, Full, Has
        <5>2. scheduled' = scheduled
          BY <1>1
        <5> QED BY <4>8, <4>10, <4>11, <5>1, <5>2 DEF NewcomerAnswered, Coming
      <4> QED BY <4>12 DEF Newcomer
    <3> QED BY <3>2, <3>3
  <2> QED BY <2>1, <2>4, <2>5 DEF Informed
<1>10. Founder \in Node
  BY <1>3
<1> QED BY <1>1, <1>2, <1>9, <1>10, StarRest

LEMMA StarDetails ==
  ASSUME NetInv, LineInv, Starlike, StarInv, NEW c \in Conn, NEW p \in Ends(c),
         HandleDetails(c, p)
  PROVE  StarInv'
<1>1. /\ p \in Node /\ inbox[c][p] # << >> /\ Head(inbox[c][p]).type = "network_details"
      /\ inbox' = send_message(c, p, [type |-> "chain_request"], Read(c, p))
      /\ admin_id' = [admin_id EXCEPT ![p] = Head(inbox[c][p]).admin]
      /\ miners' = [miners EXCEPT ![p] = Head(inbox[c][p]).miners]
      /\ UNCHANGED <<chain, seen, up, running, scheduled, drops>>
  BY EndsAreNodes DEF HandleDetails, Reads, historyVars
<1>2. (\A m \in Node : Marked(m)' <=> Marked(m)) /\ Marks'
  BY <1>1, SameMarks DEF StarInv
<1>3. OneSchedule /\ Founder \in Joined /\ Joined \subseteq Node /\ Mailed(inbox)
  BY PoaAssumption DEF Starlike, LineInv
<1>4. Longer
  BY <1>1, SameLonger
<1>5. p \in Node \ Joined /\ c = <<p, Founder>> /\ Other(c, p) = Founder /\ p # Founder
  <2>1. p = c[1] /\ c[1] \notin Joined
    <3>1. Head(inbox[c][p]) \in Sendable(c, p)
      BY <1>1, <1>3, MailRead
    <3> QED BY <1>1, <3>1 DEF Sendable
  <2> QED BY <1>1, <2>1, NewcomersLink
<1>6. \A m \in Node : m # p => miners'[m] = miners[m] /\ admin_id'[m] = admin_id[m]
  BY <1>1 DEF NetInv, ScheduleOK
<1>7. PICK msg : msg = [type |-> "chain_request"]
  OBVIOUS
<1>8. msg \in Msg /\ msg.type = "chain_request"
  BY <1>7 DEF Msg
<1>9. ASSUME drops' = 0 PROVE Informed'
  <2>1. Informed /\ up = Conn /\ up' = Conn
    BY <1>1, <1>9 DEF StarInv, Informed
  <2>2. ASSUME NEW d \in Conn, NEW m \in Node
        PROVE  inbox'[d][m] = IF d = c /\ m = p THEN Tail(inbox[d][m])
                              ELSE IF d = c /\ m = Founder THEN Append(inbox[d][m], msg)
                              ELSE inbox[d][m]
    <3>1. send_message(c, p, msg, Read(c, p))[d][m] =
            IF d = c /\ m = p THEN Tail(inbox[d][m])
            ELSE IF d = c /\ m = Other(c, p) THEN Append(inbox[d][m], msg) ELSE inbox[d][m]
      BY <1>1, <1>3, <1>8, <2>1, ReadSendIs
    <3> QED BY <1>1, <1>5, <1>7, <3>1
  <2>3. ASSUME NEW n \in Joined PROVE JoinedInformed(n)'
    <3>1. n \in Node /\ JoinedInformed(n) /\ n # p
      BY <1>3, <1>5, <2>1 DEF Informed
    <3>2. PICK S : S = {"chain_request"}
      OBVIOUS
    <3>3. ASSUME NEW d \in Conn PROVE Moved(inbox[d][n], inbox'[d][n], {}, S)
      <4>1. inbox'[d][n] = inbox[d][n] \/ inbox'[d][n] = Append(inbox[d][n], msg)
        BY <2>2, <3>1
      <4>2. msg.type \in S
        BY <1>8, <3>2
      <4> QED BY <1>8, <4>1, <4>2 DEF Moved
    <3>4. "miners_list_update" \notin {} /\ "network_details" \notin S
      BY <3>2
    <3>5. MinersStay(n) /\ admin_id'[n] = admin_id[n]
      BY <1>6, <3>1 DEF MinersStay
    <3> QED BY <1>1, <1>2, <1>3, <1>4, <3>1, <3>3, <3>4, <3>5, JoinedMoved
  <2>4. ASSUME NEW n \in Node \ Joined, n # p PROVE Newcomer(n)'
    <3>1. n \in Node /\ Newcomer(n) /\ <<n, Founder>> \in Conn /\ <<n, Founder>> # c
      BY <1>5, <2>1, <2>4, NewcomersLink DEF Informed
    <3>2. /\ inbox'[<<n, Founder>>][n] = inbox[<<n, Founder>>][n]
          /\ inbox'[<<n, Founder>>][Founder] = inbox[<<n, Founder>>][Founder]
      BY <1>3, <2>2, <3>1
    <3>3. MinersStay(n) /\ admin_id'[n] = admin_id[n]
      BY <1>6, <2>4 DEF MinersStay
    <3>4. Longer /\ UNCHANGED <<scheduled, chain>> /\ (Marked(n)' => Marked(n))
      BY <1>1, <1>2, <1>4, <3>1
    <3>5. OneSchedule /\ Mail(n)' = Mail(n)
      BY <3>2 DEF Starlike, Mail
    <3>6. QueuesKept(n)
      BY <3>2, <3>5 DEF QueuesKept, Past, NewcomerAsks
    <3>7. NewcomerAsks(n) => chain'[n] = << >>
      BY <3>4 DEF NewcomerAsks
    <3>8. scheduled # << >> /\ Past(n)
            => chain'[n] = << >> \/ Len(chain'[n]) > scheduled[1].activation_block
      BY <3>4 DEF Past
    <3> QED BY <3>1, <3>3, <3>4, <3>5, <3>6, <3>7, <3>8, NewcomerKept
  <2>5. Newcomer(p)'
    <3>1. PICK q : q = inbox[c][p]
      OBVIOUS
    <3>2. PICK r : r = inbox[c][Founder]
      OBVIOUS
    <3>3. PICK q2 : q2 = Tail(q)
      OBVIOUS
    <3>4. PICK r2 : r2 = Append(r, msg)
      OBVIOUS
    <3>5. /\ q \in Seq(Msg) /\ r \in Seq(Msg) /\ q # << >>
          /\ Head(q).type = "network_details"
      BY <1>1, <1>3, <3>1, <3>2, ReadIs
    <3>6. inbox'[c][p] = q2 /\ inbox'[c][Founder] = r2
      BY <1>1, <1>3, <1>5, <2>2, <3>1, <3>2, <3>3, <3>4
    <3>7. /\ Mail(p) = q /\ Mail(p)' = q2
          /\ inbox[<<p, Founder>>][Founder] = r /\ inbox'[<<p, Founder>>][Founder] = r2
      BY <1>5, <3>1, <3>2, <3>6 DEF Mail
    <3>8. NewcomerAnswered(p)
      <4>1. Has(q, "network_details")
        BY <3>5, QueueTail
      <4>2. Newcomer(p)
        BY <1>5, <2>1 DEF Informed
      <4> QED BY <3>7, <4>1, <4>2 DEF Newcomer, NewcomerAsks, NewcomerKnows
    <3>9. /\ ~ Has(r, "network_details_request") /\ OneDetails(q)
          /\ scheduled # << >> => Full(q) \/ Coming(p)
      BY <3>7, <3>8 DEF NewcomerAnswered
    <3>10. ~ Has(r2, "network_details_request")
      BY <1>8, <3>4, <3>5, <3>9, QueueAppend
    <3>11. Head(q).admin = Founder /\ ~ Has(q2, "network_details")
      BY <3>3, <3>5, <3>9, QueueTail
    <3>12. admin_id'[p] = Founder /\ miners'[p] = Head(q).miners
      BY <1>1, <3>1, <3>11 DEF NetInv, ScheduleOK
    <3>13. ASSUME scheduled # << >> PROVE (Heard(p) \/ Coming(p))'
      <4>1. CASE Full(q)
        <5>1. Head(q).miners # << >>
          BY <3>3, <3>5, <4>1, QueueTail
        <5> QED BY <3>12, <5>1 DEF Heard
      <4>2. CASE Past(p)
        <5>1. AllLong(q, scheduled[1].activation_block)
          BY <3>7, <4>2 DEF Past
        <5>2. AllLong(q2, scheduled[1].activation_block)
          <6>1. PICK len : len = scheduled[1].activation_block
            OBVIOUS
          <6>2. AllLong(q, len) => AllLong(q2, len)
            BY <3>3, <3>5, QueueTail
          <6> QED BY <5>1, <6>1, <6>2
        <5>3. UNCHANGED <<chain, scheduled>>
          BY <1>1
        <5>4. Past(p)'
          BY <3>7, <4>2, <5>2, <5>3 DEF Past, AllLong
        <5> QED BY <5>4 DEF Coming
      <4>3. CASE ~ Marked(p) /\ UpdateLast(q)
        <5>1. UpdateLast(q2)
          BY <3>3, <3>5, <4>3, QueueTail
        <5>2. (UpdateLast(Mail(p)))' <=> UpdateLast(q2)
          BY <3>7 DEF UpdateLast, Has
        <5>3. ~ Marked(p)'
          BY <1>1, <1>2, <4>3
        <5> QED BY <5>1, <5>2, <5>3 DEF Coming
      <4> QED BY <3>7, <3>9, <3>13, <4>1, <4>2, <4>3 DEF Coming
    <3>14. /\ (Has(Mail(p), "network_details"))' <=> Has(q2, "network_details")
           /\ (Has(inbox[<<p, Founder>>][Founder], "network_details_request"))'
                <=> Has(r2, "network_details_request")
      BY <3>7 DEF Has
    <3>15. scheduled' = scheduled
      BY <1>1
    <3>16. NewcomerKnows(p)'
      BY <3>10, <3>11, <3>12, <3>13, <3>14, <3>15 DEF NewcomerKnows
    <3> QED BY <3>16 DEF Newcomer
  <2> QED BY <2>1, <2>3, <2>4, <2>5 DEF Informed
<1>10. Founder \in Node
  BY <1>3
<1> QED BY <1>1, <1>2, <1>9, <1>10, StarRest

(***************************************************************************)
(* Who has heard: the update.  A peer that refuses it as seen has heard of *)
(* the list before, or gets it with the details, or with a chain.          *)
(***************************************************************************)
LEMMA StarUpdate ==
  ASSUME NetInv, LineInv, Starlike, StarInv, NEW c \in Conn, NEW p \in Ends(c),
         HandleMinersListUpdate(c, p)
  PROVE  StarInv'
<1>1. /\ p \in Node /\ inbox[c][p] # << >> /\ Head(inbox[c][p]).type = "miners_list_update"
      /\ UNCHANGED <<chain, admin_id, up, running, scheduled, drops>>
  BY EndsAreNodes DEF HandleMinersListUpdate, Reads, historyVars
<1>2. PICK msg : msg = Head(inbox[c][p])
  OBVIOUS
<1>3. /\ seen' = MarkSeen(p, msg)
      /\ \/ /\ ~ IsNew(p, msg) \/ admin_id[p] = None
            /\ inbox' = Read(c, p) /\ UNCHANGED miners
         \/ /\ IsNew(p, msg) /\ admin_id[p] # None
            /\ miners' = [miners EXCEPT ![p] = learn(p, msg.entry)]
            /\ inbox' = broadcast_message(p, msg, Read(c, p))
  BY <1>2 DEF HandleMinersListUpdate
<1>4. OneSchedule /\ Founder \in Joined /\ Joined \subseteq Node /\ Mailed(inbox)
  BY PoaAssumption DEF Starlike, LineInv
<1>5. /\ msg \in Msg /\ msg.type = "miners_list_update" /\ msg.number \in DOMAIN scheduled
      /\ Mailed(Read(c, p)) /\ msg.entry \in Entries
  <2>1. msg \in Sendable(c, p) /\ Mailed(Read(c, p))
    BY <1>1, <1>2, <1>4, MailRead
  <2> QED BY <1>1, <1>2, <2>1 DEF Sendable, Entries
<1>6. scheduled # << >> /\ DOMAIN scheduled = {1} /\ msg.number = 1
  <2>1. scheduled # << >>
    BY <1>5
  <2> QED BY <1>4, <1>5, <2>1, OnlyEntry
<1>7. MsgId(msg) = <<"miners_list_update", 1>>
  BY <1>5, <1>6 DEF MsgId
<1>8. /\ \A m \in Node : m # p => seen'[m] = seen[m] /\ miners'[m] = miners[m]
      /\ seen'[p] = seen[p] \cup {<<"miners_list_update", 1>>}
  BY <1>1, <1>3, <1>7 DEF MarkSeen, NetInv, WorkOK, ScheduleOK
<1>9. Marks'
  <2>1. ASSUME NEW m \in Node, NEW j, <<"miners_list_update", j>> \in seen'[m]
        PROVE  j \in DOMAIN scheduled'
    <3>1. CASE <<"miners_list_update", j>> \in seen[m]
      BY <1>1, <3>1 DEF StarInv, Marks
    <3>2. CASE <<"miners_list_update", j>> = <<"miners_list_update", 1>>
      BY <1>1, <1>6, <3>2
    <3> QED BY <1>8, <2>1, <3>1, <3>2
  <2> QED BY <2>1 DEF Marks
<1>10. (\A m \in Node : Marked(m) => Marked(m)') /\ (\A m \in Node : m # p => (Marked(m)' => Marked(m)))
  BY <1>8 DEF Marked
<1>11. Longer
  BY <1>1, SameLonger
<1>12. PICK U : U = {"miners_list_update"}
  OBVIOUS
<1>13. ASSUME NEW d \in Conn, NEW m \in Node
       PROVE  /\ Moved(inbox[d][m], inbox'[d][m], U, U)
              /\ m # p => Moved(inbox[d][m], inbox'[d][m], {}, U)
              /\ d = c /\ m = p => inbox'[d][m] = Tail(inbox[d][m])
  <2>1. Read(c, p)[d][m] = IF d = c /\ m = p THEN Tail(inbox[d][m]) ELSE inbox[d][m]
    BY <1>1, <1>4, ReadIs
  <2>2. broadcast_message(p, msg, Read(c, p))[d][m] =
          IF d \in up /\ p \in Ends(d) /\ m = Other(d, p) /\ IsNew(m, msg)
          THEN Append(Read(c, p)[d][m], msg) ELSE Read(c, p)[d][m]
    BY <1>1, <1>5, BroadcastTo
  <2>3. p \in Ends(d) => Other(d, p) # p
    BY PoaAssumption DEF Ends, Other
  <2>4. CASE m = p
    <3>1. inbox'[d][m] = IF d = c THEN Tail(inbox[d][m]) ELSE inbox[d][m]
      BY <1>3, <2>1, <2>2, <2>3, <2>4
    <3>2. CASE d = c
      <4>1. inbox[d][m] # << >> /\ Head(inbox[d][m]).type \in U
        BY <1>1, <1>12, <2>4, <3>2
      <4> QED BY <2>4, <3>1, <3>2, <4>1 DEF Moved
    <3>3. CASE d # c
      BY <2>4, <3>1, <3>3 DEF Moved
    <3> QED BY <3>2, <3>3
  <2>5. CASE m # p
    <3>1. inbox'[d][m] = inbox[d][m] \/ inbox'[d][m] = Append(inbox[d][m], msg)
      BY <1>3, <2>1, <2>2, <2>5
    <3>2. msg.type \in U
      BY <1>5, <1>12
    <3> QED BY <1>5, <2>5, <3>1, <3>2 DEF Moved
  <2> QED BY <2>4, <2>5
<1>14. "network_details" \notin U /\ "chain" \notin U /\ "network_details_request" \notin U \cup U
       /\ "network_details" \notin {} /\ "miners_list_update" \notin {}
  BY <1>12
<1>15. miners'[p] # << >> \/ (UNCHANGED miners /\ (~ IsNew(p, msg) \/ admin_id[p] = None))
  <2>1. ASSUME miners' = [miners EXCEPT ![p] = learn(p, msg.entry)] PROVE miners'[p] # << >>
    <3>1. miners'[p] = Append(miners[p], msg.entry) /\ miners[p] \in Seq(Entries)
      BY <1>1, <2>1 DEF learn, LineInv, MinersKept
    <3> QED BY <1>5, <3>1, AppendType
  <2> QED BY <1>3, <2>1
<1>16. IsNew(p, msg) <=> ~ Marked(p)
  BY <1>7 DEF IsNew, Marked
<1>17. Heard(p) => Heard(p)'
  BY <1>1, <1>15 DEF Heard
<1>18. ASSUME drops' = 0 PROVE Informed'
  <2>1. Informed /\ up' = Conn
    BY <1>1, <1>18 DEF StarInv, Informed
  <2>2. Founder # None
    BY <1>4, PoaAssumption, LedgerAssumption
  <2>3. ASSUME NEW n \in Joined PROVE JoinedInformed(n)'
    <3>1. n \in Node /\ JoinedInformed(n)
      BY <1>4, <2>1 DEF Informed
    <3>2. CASE n # p
      <4>1. \A d \in Conn : Moved(inbox[d][n], inbox'[d][n], {}, U)
        BY <1>13, <3>1, <3>2
      <4>2. MinersStay(n) /\ (Marked(n)' => Marked(n)) /\ admin_id'[n] = admin_id[n]
        BY <1>1, <1>8, <1>10, <3>1, <3>2 DEF MinersStay
      <4> QED BY <1>1, <1>4, <1>11, <1>14, <3>1, <4>1, <4>2, JoinedMoved
    <3>3. CASE n = p
      <4>1. Heard(p)'
        <5>1. CASE miners'[p] # << >>
          BY <5>1 DEF Heard
        <5>2. CASE ~ IsNew(p, msg) \/ admin_id[p] = None
          <6>1. Marked(p)
            BY <1>16, <2>2, <3>1, <3>3, <5>2 DEF JoinedInformed
          <6> QED BY <1>6, <1>17, <3>1, <3>3, <6>1 DEF JoinedInformed
        <5> QED BY <1>15, <5>1, <5>2
      <4>2. admin_id'[p] = Founder
        BY <1>1, <3>1, <3>3 DEF JoinedInformed
      <4> QED BY <3>3, <4>1, <4>2 DEF JoinedInformed
    <3> QED BY <3>2, <3>3
  <2>4. ASSUME NEW n \in Node \ Joined, n # p PROVE Newcomer(n)'
    <3>1. n \in Node /\ Newcomer(n) /\ Founder \in Node
      BY <1>4, <2>1 DEF Informed
    <3>2. /\ \A d \in Conn : Moved(inbox[d][n], inbox'[d][n], {}, U)
          /\ \A d \in Conn : Moved(inbox[d][Founder], inbox'[d][Founder], U, U)
      BY <1>13, <2>4, <3>1
    <3>3. MinersStay(n) /\ (Marked(n)' => Marked(n)) /\ admin_id'[n] = admin_id[n]
      BY <1>1, <1>8, <1>10, <2>4, <3>1 DEF MinersStay
    <3>4. NewcomerAsks(n) => chain'[n] = << >>
      BY <1>1 DEF NewcomerAsks
    <3>5. scheduled # << >> /\ Past(n)
            => chain'[n] = << >> \/ Len(chain'[n]) > scheduled[1].activation_block
      BY <1>1 DEF Past
    <3> QED BY <1>1, <1>11, <1>14, <3>1, <3>2, <3>3, <3>4, <3>5, NewcomerMoved
  <2>5. ASSUME p \notin Joined PROVE Newcomer(p)'
    <3>1. p \in Node \ Joined /\ Newcomer(p) /\ c = <<p, Founder>> /\ Founder \in Node /\ p # Founder
      BY <1>1, <1>4, <2>1, <2>5, NewcomersLink DEF Informed
    <3>2. PICK q : q = inbox[c][p]
      OBVIOUS
    <3>3. PICK r : r = inbox[c][Founder]
      OBVIOUS
    <3>4. PICK q2 : q2 = Tail(q)
      OBVIOUS
    <3>5. PICK r2 : r2 = inbox'[c][Founder]
      OBVIOUS
    <3>6. /\ q \in Seq(Msg) /\ r \in Seq(Msg) /\ q # << >>
          /\ Head(q).type = "miners_list_update"
      BY <1>1, <1>4, <3>1, <3>2, <3>3, ReadIs
    <3>7. inbox'[c][p] = q2 /\ Moved(r, r2, {}, U)
      BY <1>1, <1>13, <3>1, <3>2, <3>3, <3>4, <3>5
    <3>8. /\ Mail(p) = q /\ Mail(p)' = q2
          /\ inbox[<<p, Founder>>][Founder] = r /\ inbox'[<<p, Founder>>][Founder] = r2
      BY <3>1, <3>2, <3>3, <3>5, <3>7 DEF Mail
    <3>9. /\ \A type : Has(q2, type) => Has(q, type)
          /\ Full(q) => Full(q2)
          /\ OneDetails(q) => OneDetails(q2)
          /\ \A len : AllLong(q, len) => AllLong(q2, len)
          /\ UpdateLast(q) => ~ Has(q2, "network_details")
      BY <3>4, <3>6, QueueTail
    <3>10. /\ \A type : type \notin U => (Has(r2, type) => Has(r, type))
           /\ Asking(r) => Asking(r2)
      BY <1>14, <3>6, <3>7, MovedKeeps
    <3>11. /\ \A type : (Has(Mail(p), type))' <=> Has(q2, type)
           /\ (OneDetails(Mail(p)))' <=> OneDetails(q2)
           /\ (Full(Mail(p)))' <=> Full(q2)
           /\ \A type : (Has(inbox[<<p, Founder>>][Founder], type))' <=> Has(r2, type)
           /\ (Asking(inbox[<<p, Founder>>][Founder]))' <=> Asking(r2)
      BY <3>8 DEF Has, OneDetails, Full, Asking
    <3>12. UNCHANGED <<chain, scheduled, admin_id>>
      BY <1>1
    <3>13. Past(p) => Past(p)'
      <4>1. ASSUME Past(p) PROVE AllLong(q2, scheduled[1].activation_block)
        BY <3>8, <3>9, <4>1 DEF Past
      <4> QED BY <3>8, <3>12, <4>1 DEF Past, AllLong
    <3>14. CASE NewcomerAsks(p)
      <4>1. NewcomerAsks(p)'
        BY <3>8, <3>9, <3>10, <3>11, <3>12, <3>14 DEF NewcomerAsks
      <4> QED BY <4>1 DEF Newcomer
    <3>15. CASE NewcomerAnswered(p)
      <4>1. /\ ~ Has(r, "network_details_request") /\ OneDetails(q)
            /\ Full(q) \/ Past(p) \/ UpdateLast(q)
        BY <1>6, <3>8, <3>15 DEF NewcomerAnswered, Coming
      <4>2. OneDetails(q2) /\ Has(q2, "network_details")
        BY <3>9, <4>1 DEF OneDetails, Has
      <4>3. Full(q2) \/ Past(p)'
        BY <3>9, <3>13, <4>1, <4>2
      <4>4. NewcomerAnswered(p)'
        BY <1>14, <3>10, <3>11, <4>1, <4>2, <4>3 DEF NewcomerAnswered, Coming
      <4> QED BY <4>4 DEF Newcomer
    <3>16. CASE NewcomerKnows(p)
      <4>1. /\ ~ Has(r, "network_details_request") /\ ~ Has(q, "network_details")
            /\ admin_id[p] = Founder /\ (Heard(p) \/ Past(p) \/ ~ Marked(p))
        BY <1>6, <3>8, <3>16 DEF NewcomerKnows, Coming
      <4>2. Heard(p)' \/ Past(p)'
        <5>1. CASE ~ Marked(p)
          <6>1. miners'[p] # << >>
            BY <1>15, <1>16, <2>2, <4>1, <5>1
          <6> QED BY <6>1 DEF Heard
        <5> QED BY <1>17, <3>13, <4>1, <5>1
      <4>3. NewcomerKnows(p)'
        BY <1>14, <3>9, <3>10, <3>11, <3>12, <4>1, <4>2 DEF NewcomerKnows, Coming
      <4> QED BY <4>3 DEF Newcomer
    <3> QED BY <3>1, <3>14, <3>15, <3>16 DEF Newcomer
  <2> QED BY <2>1, <2>3, <2>4, <2>5 DEF Informed
<1>19. Founder \in Node
  BY <1>4
<1> QED BY <1>1, <1>9, <1>10, <1>18, <1>19, StarRest

LEMMA StarSchedule ==
  ASSUME NetInv, LineInv, Starlike, StarInv, NEW p \in Node, NEW member \in Node,
         user_input_handler(p, member)
  PROVE  StarInv'
<1>1. p = Founder /\ Len(scheduled) < MaxUpdates /\ OneSchedule
  BY DEF user_input_handler, Starlike
<1>2. scheduled = << >> /\ DOMAIN scheduled = {} /\ MaxUpdates = 1
  <2>1. Len(scheduled) \in Nat /\ scheduled \in Seq(Entry)
    BY DEF NetInv, ScheduleOK
  <2>2. MaxUpdates = 1
    BY <1>1, <2>1 DEF OneSchedule
  <2>3. scheduled = << >>
    BY <1>1, <2>1, <2>2
  <2> QED BY <2>2, <2>3
<1>3. PICK miners_list : schedule_miners(p, miners_list)
  BY DEF user_input_handler
<1>4. PICK entry : entry = [miners_list |-> miners_list,
                            activation_block |-> activation_block(Len(chain[p]))]
  OBVIOUS
<1>5. PICK msg : msg = [type |-> "miners_list_update", number |-> Len(scheduled) + 1,
                        entry |-> entry]
  OBVIOUS
<1>6. /\ scheduled' = Append(scheduled, entry)
      /\ seen' = MarkSeen(p, msg)
      /\ miners' = [miners EXCEPT ![p] = Append(miners[p], entry)]
      /\ inbox' = broadcast_message(p, msg, inbox)
      /\ UNCHANGED <<chain, admin_id, up, running, drops>>
  BY <1>3, <1>4, <1>5 DEF schedule_miners
<1>7. scheduled' = <<entry>> /\ DOMAIN scheduled' = {1} /\ scheduled' # << >>
  BY <1>2, <1>6
<1>8. msg.type = "miners_list_update" /\ msg.number = 1 /\ MsgId(msg) = <<"miners_list_update", 1>>
  BY <1>2, <1>5 DEF MsgId
<1>9. \A m \in Node : \A j : <<"miners_list_update", j>> \notin seen[m]
  BY <1>2 DEF StarInv, Marks
<1>10. DOMAIN seen = Node /\ \A m \in Node : IsNew(m, msg)
  BY <1>8, <1>9 DEF IsNew, NetInv, WorkOK
<1>11. /\ \A m \in Node : m # p => seen'[m] = seen[m]
       /\ seen'[p] = seen[p] \cup {<<"miners_list_update", 1>>}
  BY <1>6, <1>8, <1>10 DEF MarkSeen
<1>12. Marks' /\ Marked(Founder)' /\ \A m \in Node : m # p => ~ Marked(m)'
  <2>1. ASSUME NEW m \in Node, NEW j, <<"miners_list_update", j>> \in seen'[m]
        PROVE  j \in DOMAIN scheduled' /\ m = p
    <3>1. <<"miners_list_update", j>> = <<"miners_list_update", 1>> /\ m = p
      BY <1>9, <1>11, <2>1
    <3> QED BY <1>7, <3>1
  <2> QED BY <1>1, <1>11, <2>1 DEF Marks, Marked
<1>13. miners'[p] # << >>
  <2>1. miners[p] \in Seq(Entries) /\ miners'[p] = Append(miners[p], entry)
    BY <1>6 DEF LineInv, MinersKept
  <2> QED BY <2>1
<1>14. Mailed(inbox) /\ Founder \in Joined /\ Joined \subseteq Node
  BY PoaAssumption DEF LineInv
<1>15. ASSUME NEW d \in Conn, NEW m \in Node PROVE ~ Has(inbox[d][m], "miners_list_update")
  <2>1. inbox[d][m] \in Seq(Sendable(d, m))
    BY <1>14 DEF Mailed
  <2>2. \A msg2 \in Sendable(d, m) : msg2.type # "miners_list_update"
    BY <1>2 DEF Sendable
  <2>3. PICK S : S = Sendable(d, m)
    OBVIOUS
  <2>4. \A k \in DOMAIN inbox[d][m] : inbox[d][m][k] \in S
    BY <2>1, <2>3
  <2> QED BY <2>2, <2>3, <2>4 DEF Has
<1>16. msg \in Msg
  <2>1. Mailed(inbox)' /\ entry \in Entry
    <3>1. LineInv' /\ NetInv'
      BY <1>1, LineSchedule, UserInputStep
    <3> QED BY <1>7, <3>1 DEF LineInv, NetInv, ScheduleOK
  <2> QED BY <1>2, <1>5, <2>1 DEF Msg
<1>17. ASSUME drops' = 0 PROVE Informed'
  <2>1. Informed /\ up = Conn /\ up' = Conn
    BY <1>6, <1>17 DEF StarInv, Informed
  <2>2. ASSUME NEW d \in Conn, NEW m \in Node
        PROVE  inbox'[d][m] = IF Founder \in Ends(d) /\ m = Other(d, Founder)
                              THEN Append(inbox[d][m], msg) ELSE inbox[d][m]
    <3>1. broadcast_message(p, msg, inbox)[d][m] =
            IF d \in up /\ p \in Ends(d) /\ m = Other(d, p) /\ IsNew(m, msg)
            THEN Append(inbox[d][m], msg) ELSE inbox[d][m]
      BY <1>14, BroadcastTo
    <3> QED BY <1>1, <1>6, <1>10, <2>1, <3>1
  <2>3. ASSUME NEW n \in Joined PROVE JoinedInformed(n)'
    <3>1. n \in Node /\ JoinedInformed(n) /\ admin_id'[n] = Founder
      BY <1>6, <1>14, <2>1 DEF Informed, JoinedInformed
    <3>2. CASE n = p
      <4>1. Heard(n)'
        BY <1>13, <3>2 DEF Heard
      <4> QED BY <3>1, <4>1 DEF JoinedInformed
    <3>3. CASE n # p
      <4>1. PICK d \in Conn : Ends(d) = {n, Founder}
        BY <1>1, <3>1, <3>3 DEF Starlike
      <4>2. n = Other(d, Founder) /\ Founder \in Ends(d)
        BY <1>1, <3>3, <4>1 DEF Ends, Other
      <4>3. inbox'[d][n] = Append(inbox[d][n], msg) /\ inbox[d][n] \in Seq(Msg)
        BY <1>14, <2>2, <3>1, <4>2, ReadIs
      <4>4. Has(inbox'[d][n], "miners_list_update")
        BY <1>8, <1>16, <4>3, QueueAppend
      <4>5. (Has(inbox[d][n], "miners_list_update"))'
        BY <4>4 DEF Has
      <4> QED BY <1>12, <3>1, <3>3, <4>1, <4>5 DEF JoinedInformed
    <3> QED BY <3>2, <3>3
  <2>4. ASSUME NEW n \in Node \ Joined PROVE Newcomer(n)'
    <3>1. /\ Newcomer(n) /\ n # Founder /\ <<n, Founder>> \in Conn /\ Founder \in Node
          /\ Founder \in Ends(<<n, Founder>>) /\ Other(<<n, Founder>>, Founder) = n
      BY <2>1, NewcomersLink DEF Informed
    <3>2. PICK d \in Conn : d = <<n, Founder>>
      BY <3>1
    <3>3. PICK q : q = inbox[d][n]
      OBVIOUS
    <3>4. PICK q2 : q2 = Append(q, msg)
      OBVIOUS
    <3>5. PICK r : r = inbox[d][Founder]
      OBVIOUS
    <3>6. q \in Seq(Msg) /\ inbox'[d][n] = q2 /\ inbox'[d][Founder] = r
      BY <1>14, <2>2, <3>1, <3>2, <3>3, <3>4, <3>5, ReadIs
    <3>7. /\ Mail(n) = q /\ Mail(n)' = q2
          /\ inbox[<<n, Founder>>][Founder] = r /\ inbox'[<<n, Founder>>][Founder] = r
      BY <3>2, <3>3, <3>5, <3>6 DEF Mail
    <3>8. /\ \A type : Has(q2, type) <=> Has(q, type) \/ type = "miners_list_update"
          /\ OneDetails(q) => OneDetails(q2)
          /\ UpdateLast(q2)
      <4>1. ~ Has(q, "miners_list_update")
        BY <1>15, <3>3
      <4>2. msg.type # "network_details"
        BY <1>8
      <4> QED BY <1>8, <1>16, <3>4, <3>6, <4>1, <4>2, QueueAppend
    <3>9. /\ \A type : (Has(Mail(n), type))' <=> Has(q2, type)
          /\ (OneDetails(Mail(n)))' <=> OneDetails(q2)
          /\ (UpdateLast(Mail(n)))' <=> UpdateLast(q2)
          /\ \A type : (Has(inbox[<<n, Founder>>][Founder], type))' <=> Has(r, type)
          /\ (Asking(inbox[<<n, Founder>>][Founder]))' <=> Asking(r)
      BY <3>7 DEF Has, OneDetails, UpdateLast, Asking
    <3>10. Coming(n)'
      BY <1>1, <1>12, <3>1, <3>8, <3>9 DEF Coming
    <3>11. UNCHANGED <<chain, admin_id>>
      BY <1>6
    <3>12. CASE NewcomerAsks(n)
      <4>1. NewcomerAsks(n)'
        BY <3>7, <3>8, <3>9, <3>11, <3>12 DEF NewcomerAsks
      <4> QED BY <4>1 DEF Newcomer
    <3>13. CASE NewcomerAnswered(n)
      <4>1. NewcomerAnswered(n)'
        BY <3>7, <3>8, <3>9, <3>10, <3>13 DEF NewcomerAnswered
      <4> QED BY <4>1 DEF Newcomer
    <3>14. CASE NewcomerKnows(n)
      <4>1. NewcomerKnows(n)'
        BY <3>7, <3>8, <3>9, <3>10, <3>11, <3>14 DEF NewcomerKnows
      <4> QED BY <4>1 DEF Newcomer
    <3> QED BY <3>1, <3>12, <3>13, <3>14 DEF Newcomer
  <2> QED BY <2>1, <2>3, <2>4 DEF Informed
<1> QED BY <1>6, <1>12, <1>17 DEF StarInv

-----------------------------------------------------------------------------
LEMMA StarInit == ASSUME Starlike, Init PROVE StarInv
<1> DEFINE ask == [type |-> "network_details_request"]
<1>1. /\ running = Node /\ scheduled = << >> /\ up = Conn
      /\ seen = [n \in Node |-> {}]
  BY DEF Init
<1>2. Marks
  BY <1>1 DEF Marks
<1>3. ASSUME NEW n \in Joined PROVE JoinedInformed(n)
  BY <1>1, PoaAssumption DEF Init, JoinedInformed
<1>4. ASSUME NEW n \in Node \ Joined PROVE Newcomer(n)
  <2>1. <<n, Founder>> \in Conn /\ n # Founder /\ Founder \in Node
    BY NewcomersLink
  <2>2. PICK d \in Conn : d = <<n, Founder>>
    BY <2>1
  <2>3. \A m \in Node : inbox[d][m] = IF m = d[2] /\ d[1] \notin Joined THEN <<ask>> ELSE << >>
    BY DEF Init
  <2>4. inbox[d][Founder] = <<ask>> /\ inbox[d][n] = << >>
    BY <2>1, <2>2, <2>3
  <2>5. Asking(<<ask>>)
    <3>1. /\ <<ask>> # << >> /\ Head(<<ask>>) = ask /\ Tail(<<ask>>) = << >>
          /\ ask.type = "network_details_request"
      OBVIOUS
    <3> HIDE DEF ask
    <3>2. ~ Has(<< >>, "network_details_request")
      BY DEF Has
    <3> QED BY <3>1, <3>2 DEF Asking
  <2>6. \A type : ~ Has(<< >>, type)
    BY DEF Has
  <2>7. chain[n] = << >>
    BY DEF Init
  <2> QED BY <2>2, <2>4, <2>5, <2>6, <2>7 DEF Newcomer, NewcomerAsks, Mail
<1> QED BY <1>1, <1>2, <1>3, <1>4 DEF StarInv, Informed

LEMMA StarStep ==
  ASSUME Starlike, NetInv, LineInv, StarInv, [Next]_vars
  PROVE  StarInv'
<1>1. ASSUME NEW n \in Node, NEW rec \in Account \ {n}, NEW amt \in Amount,
             create_and_broadcast_tx(n, rec, amt)
      PROVE  StarInv'
  BY <1>1, StarCreate
<1>2. ASSUME NEW n \in Node, NEW member \in Node, user_input_handler(n, member)
      PROVE  StarInv'
  BY <1>2, StarSchedule
<1>3. ASSUME NEW n \in Node,
             \/ \E task \in live[n] : MinerWakes(n, task)
             \/ LateMinerWakes(n) \/ StartWaiting(n) \/ ShiftMiner(n)
      PROVE  StarInv'
  BY <1>3, StarWakes
<1>4. ASSUME NEW n \in Node, find_longest_chain(n) \/ Stop(n) PROVE StarInv'
  BY <1>4, StarFind, NobodyStops
<1>5. ASSUME NEW c \in Conn, NEW n \in Ends(c), HandleMessage(c, n) PROVE StarInv'
  BY <1>5, StarNewTx, StarNewBlock, StarUpdate, StarDetailsRequest, StarDetails,
     StarChainRequest, StarChain DEF HandleMessage
<1>6. ASSUME NEW c \in Conn, Disconnect(c) \/ connect_to_peer(c) PROVE StarInv'
  BY <1>6, StarConnections
<1>7. CASE UNCHANGED vars
  BY <1>7, StarStill DEF vars, peerVars, historyVars
<1> QED BY <1>1, <1>2, <1>3, <1>4, <1>5, <1>6, <1>7 DEF Next

\* With nothing under way, who has a chain has the list, or it is in the chain.
LEMMA QuietHeard ==
  ASSUME NetInv, LineInv, Starlike, Informed, Quiet, scheduled # << >>,
         NEW n \in Node, chain[n] # << >>
  PROVE  Heard(n)
<1>1. \A q : Has(q, "miners_list_update") \/ Has(q, "network_details") => q # << >>
  BY DEF Has
<1>2. CASE n \in Joined
  <2>1. JoinedInformed(n)
    BY <1>2 DEF Informed
  <2>2. ASSUME NEW c \in Conn, Ends(c) = {n, Founder}
        PROVE  ~ Has(inbox[c][n], "miners_list_update")
    BY <1>1, <2>2 DEF Quiet
  <2> QED BY <2>1, <2>2 DEF JoinedInformed
<1>3. CASE n \notin Joined
  <2>1. Newcomer(n) /\ <<n, Founder>> \in Conn /\ n \in Ends(<<n, Founder>>)
    BY <1>3, NewcomersLink DEF Informed
  <2>2. Mail(n) = << >>
    BY <2>1 DEF Quiet, Mail
  <2>3. ~ Has(Mail(n), "miners_list_update") /\ ~ Has(Mail(n), "network_details")
    BY <1>1, <2>2
  <2>4. ~ OneDetails(Mail(n)) /\ ~ UpdateLast(Mail(n))
    BY <2>3 DEF OneDetails, UpdateLast, Has
  <2>5. Heard(n) \/ Coming(n)
    BY <2>1, <2>4 DEF Newcomer, NewcomerAsks, NewcomerAnswered, NewcomerKnows
  <2> QED BY <2>4, <2>5 DEF Coming, Past, Heard
<1> QED BY <1>2, <1>3

LEMMA StarAgrees ==
  ASSUME Starlike, NetInv, ChainsValid, LineInv, StarInv
  PROVE  ScheduleAgrees
<1> SUFFICES ASSUME Quiet, drops = 0, NEW m \in Node, NEW n \in Node,
                    chain[m] # << >>, Len(chain[m]) = Len(chain[n])
             PROVE  get_current_miners_list(chain[m], miners[m]) =
                    get_current_miners_list(chain[n], miners[n])
  BY DEF ScheduleAgrees
<1>1. Informed /\ OneSchedule
  BY DEF StarInv, Starlike
<1>2. chain[n] # << >>
  <2>1. chain[m] \in KnownChain /\ chain[n] \in KnownChain
    BY DEF NetInv
  <2> QED BY <2>1 DEF KnownChain
<1>3. ASSUME NEW k \in Node, chain[k] # << >>
      PROVE  get_current_miners_list(chain[k], miners[k]) = ListAt(Len(chain[k]))
  <2>1. ASSUME scheduled # << >>, miners[k] = << >>,
               Len(chain[k]) = scheduled[1].activation_block
        PROVE  FALSE
    <3>1. Heard(k) /\ scheduled[1].activation_block \in Nat
      BY <1>1, <1>3, <2>1, QuietHeard, OnlyEntry
    <3> QED BY <2>1, <3>1 DEF Heard
  <2> QED BY <1>1, <1>3, <2>1, Expected
<1> QED BY <1>2, <1>3

(***************************************************************************)
(* Where besides everyone is connected with the admin, and newcomers join  *)
(* there, nobody stops and no connection is lost, peers whose chains have  *)
(* the same length expect the same miners once everything under way is     *)
(* read: the list reaches every peer, with the update, with the details or *)
(* with a chain that is past it.                                           *)
(***************************************************************************)
THEOREM PoaScheduleAgrees == ASSUME Starlike PROVE Spec => []ScheduleAgrees
<1>1. OneSchedule
  BY DEF Starlike
<1>2. Spec => []LineInv
  BY <1>1, LineInvariant
<1>3. Init => StarInv
  BY StarInit
<1>4. NetInv /\ LineInv /\ StarInv /\ [Next]_vars => StarInv'
  BY StarStep
<1>5. NetInv /\ ChainsValid /\ LineInv /\ StarInv => ScheduleAgrees
  BY StarAgrees
<1> QED BY <1>2, <1>3, <1>4, <1>5, NetInvariant, PoaChainsValid, PTL DEF Spec
=============================================================================
