------------------------- MODULE ChainReplicaProofs -------------------------
(***************************************************************************)
(* Theorems about ChainReplica: its chains are well formed, two peers that *)
(* hold the same block hold the same history below it, and no chain gets   *)
(* shorter.                                                                *)
(***************************************************************************)
EXTENDS ChainReplica, LeastNumber

(***************************************************************************)
(* The strengthening PrefixAgreement needs: a hash names one header, only  *)
(* the genesis header has no predecessor, and every chain is linked.       *)
(***************************************************************************)
HashesUnique == \A a, b \in minted : a.hash = b.hash => a = b

ReplicaInv ==
  /\ TypeOK
  /\ genesis \in minted
  /\ HashesUnique
  /\ \A n \in Node : chain[n] = << >> \/ Linked(chain[n])

(***************************************************************************)
(* Two linked chains over headers with unique hashes agree up to and       *)
(* including any header they share: going back from it, both follow the    *)
(* same prevHash, and only genesis has none.                               *)
(***************************************************************************)
LEMMA LinkedAgree ==
  ASSUME NEW M \in SUBSET Header,
         \A a, b \in M : a.hash = b.hash => a = b,
         NEW c \in Seq(M), Linked(c),
         NEW d \in Seq(M), Linked(d)
  PROVE  \A i \in 1..Len(c), j \in 1..Len(d) :
           c[i].hash = d[j].hash => i = j /\ \A p \in 1..i : c[p] = d[p]
<1> DEFINE Agrees(i, j) == i = j /\ \A p \in 1..i : c[p] = d[p]
           Bad == {i \in 1..Len(c) :
                     \E j \in 1..Len(d) : c[i].hash = d[j].hash /\ ~ Agrees(i, j)}
<1>1. SUFFICES Bad = {}
  OBVIOUS
<1>2. SUFFICES ASSUME Bad # {} PROVE FALSE
  OBVIOUS
<1>3. PICK i \in Bad : \A k \in Bad : i <= k
  <2>1. Bad \in SUBSET Nat
    OBVIOUS
  <2> HIDE DEF Bad
  <2> QED BY <1>2, <2>1, LeastElement
<1>4. PICK j \in 1..Len(d) : c[i].hash = d[j].hash /\ ~ Agrees(i, j)
  OBVIOUS
<1>5. i \in 1..Len(c) /\ c[i] \in M /\ d[j] \in M /\ c[i] = d[j]
  BY <1>4
<1>6. /\ i = 1 => c[i].prevHash = None
      /\ j = 1 => d[j].prevHash = None
  BY DEF Linked, genesis
<1>7. /\ i # 1 => c[i-1] \in M /\ c[i].prevHash = c[i-1].hash /\ c[i-1].hash \in Hash
      /\ j # 1 => d[j-1] \in M /\ d[j].prevHash = d[j-1].hash /\ d[j-1].hash \in Hash
  BY <1>5 DEF Linked, Header
<1>8. (i = 1) <=> (j = 1)
  BY <1>5, <1>6, <1>7, ReplicaAssumption
<1>9. CASE i = 1
  BY <1>4, <1>5, <1>8, <1>9
<1>10. CASE i # 1
  <2>1. i - 1 \in 1..Len(c) /\ j - 1 \in 1..Len(d) /\ c[i-1].hash = d[j-1].hash
    BY <1>5, <1>7, <1>8, <1>10
  <2>2. i - 1 \notin Bad
    BY <1>3, <1>5
  <2>3. Agrees(i - 1, j - 1)
    BY <2>1, <2>2
  <2>4. Agrees(i, j)
    BY <2>1, <2>3, <1>5
  <2> QED BY <1>4, <2>4
<1> QED BY <1>9, <1>10

-----------------------------------------------------------------------------
(***************************************************************************)
(* Appending a header that names the tip keeps a chain linked.             *)
(***************************************************************************)
LEMMA AppendLinked ==
  ASSUME NEW S, NEW c \in Seq(S), c # << >>, Linked(c),
         NEW b, b.prevHash = tip(c)
  PROVE  Linked(Append(c, b))
<1>1. Len(Append(c, b)) = Len(c) + 1 /\ Append(c, b)[Len(c) + 1] = b
  OBVIOUS
<1>2. \A i \in 1..Len(c) : Append(c, b)[i] = c[i]
  OBVIOUS
<1>3. Len(c) \in Nat /\ Len(c) >= 1
  OBVIOUS
<1>4. Append(c, b) # << >> /\ Append(c, b)[1] = genesis
  BY <1>1, <1>2, <1>3 DEF Linked
<1>5. ASSUME NEW i \in 2..Len(Append(c, b))
      PROVE  Append(c, b)[i].prevHash = Append(c, b)[i-1].hash
  <2>1. CASE i \in 2..Len(c)
    BY <1>2, <1>3, <2>1 DEF Linked
  <2>2. CASE i = Len(c) + 1
    BY <1>1, <1>2, <1>3, <2>2 DEF tip
  <2> QED BY <1>1, <1>3, <2>1, <2>2
<1> QED BY <1>4, <1>5 DEF Linked

LEMMA ReplicaInit == Init => ReplicaInv
<1> SUFFICES ASSUME Init PROVE ReplicaInv
  OBVIOUS
<1> USE DEF Init
<1>1. genesis \in Header
  BY ReplicaAssumption DEF genesis, Header
<1>2. <<genesis>> \in Seq(minted) /\ << >> \in Seq(minted)
  OBVIOUS
<1>3. Linked(<<genesis>>)
  BY DEF Linked
<1> QED BY <1>1, <1>2, <1>3 DEF ReplicaInv, TypeOK, HashesUnique

LEMMA ReplicaStep == ReplicaInv /\ [Next]_vars => ReplicaInv'
<1> SUFFICES ASSUME ReplicaInv, [Next]_vars PROVE ReplicaInv'
  OBVIOUS
<1> USE DEF ReplicaInv, TypeOK
<1>1. ASSUME NEW n \in Node, NEW h, Mint(n, h) PROVE ReplicaInv'
  <2>1. /\ h \in Hash
        /\ \A b \in minted : b.hash # h
        /\ minted' = minted \cup {[hash |-> h, prevHash |-> tip(chain[n])]}
        /\ chain' = [chain EXCEPT ![n] =
                       Append(@, [hash |-> h, prevHash |-> tip(chain[n])])]
    BY <1>1 DEF Mint
  <2> DEFINE b == [hash |-> h, prevHash |-> tip(chain[n])]
  <2>2. chain[n] \in Seq(minted) /\ chain[n] # << >> /\ tip(chain[n]) \in Hash
    BY <1>1 DEF Mint, tip, Header
  <2>3. b \in Header
    BY <2>1, <2>2 DEF Header
  <2>4. minted' \in SUBSET Header /\ genesis \in minted' /\ minted \subseteq minted'
    BY <2>1, <2>3
  <2>5. HashesUnique'
    BY <2>1 DEF HashesUnique
  <2>6. Append(chain[n], b) \in Seq(minted')
    BY <2>1, <2>2, <2>4
  <2>7. chain' \in [Node -> Seq(minted')]
    BY <2>1, <2>4, <2>6
  <2>8. Linked(Append(chain[n], b))
    BY <2>2, AppendLinked
  <2>9. \A m \in Node : chain'[m] = << >> \/ Linked(chain'[m])
    BY <2>1, <2>8
  <2> QED BY <2>4, <2>5, <2>7, <2>9
<1>2. ASSUME NEW n \in Node, Accept(n) PROVE ReplicaInv'
  <2>1. PICK b \in minted :
          /\ b.prevHash = tip(chain[n])
          /\ chain' = [chain EXCEPT ![n] = Append(@, b)]
    BY <1>2 DEF Accept
  <2>2. minted' = minted /\ chain[n] \in Seq(minted) /\ chain[n] # << >>
    BY <1>2 DEF Accept
  <2>3. Linked(Append(chain[n], b))
    BY <2>1, <2>2, AppendLinked
  <2> QED BY <2>1, <2>2, <2>3 DEF HashesUnique
<1>3. ASSUME NEW n \in Node, Adopt(n, chain'[n]) PROVE ReplicaInv'
  BY <1>3 DEF Adopt, HashesUnique
<1>4. CASE UNCHANGED vars
  BY <1>4 DEF vars, HashesUnique
<1> QED BY <1>1, <1>2, <1>3, <1>4 DEF Next

THEOREM ReplicaInvariant == Spec => []ReplicaInv
BY ReplicaInit, ReplicaStep, PTL DEF Spec

(***************************************************************************)
(* Type correctness: every copy is a sequence of headers that were made.   *)
(***************************************************************************)
THEOREM ReplicaTypeOK == Spec => []TypeOK
<1>1. ReplicaInv => TypeOK
  BY DEF ReplicaInv
<1> QED BY <1>1, ReplicaInvariant, PTL

(***************************************************************************)
(* Peers that share a block share the history below it.                    *)
(***************************************************************************)
THEOREM ReplicaAgreement == Spec => []PrefixAgreement
<1>1. ReplicaInv => PrefixAgreement
  <2> SUFFICES ASSUME ReplicaInv,
                      NEW m \in Node, NEW n \in Node,
                      NEW i \in DOMAIN chain[m], NEW j \in DOMAIN chain[n],
                      chain[m][i].hash = chain[n][j].hash
               PROVE  i = j /\ SubSeq(chain[m], 1, i) = SubSeq(chain[n], 1, j)
    BY DEF PrefixAgreement
  <2>1. chain[m] \in Seq(minted) /\ chain[n] \in Seq(minted) /\ minted \in SUBSET Header
    BY DEF ReplicaInv, TypeOK
  <2>2. Linked(chain[m]) /\ Linked(chain[n])
    BY <2>1 DEF ReplicaInv
  <2>3. i \in 1..Len(chain[m]) /\ j \in 1..Len(chain[n])
    BY <2>1
  <2>4. \A a, b \in minted : a.hash = b.hash => a = b
    BY DEF ReplicaInv, HashesUnique
  <2>5. i = j /\ \A p \in 1..i : chain[m][p] = chain[n][p]
    BY <2>1, <2>2, <2>3, <2>4, LinkedAgree
  <2>6. SubSeq(chain[m], 1, i) = SubSeq(chain[n], 1, j)
    BY <2>1, <2>3, <2>5
  <2> QED BY <2>5, <2>6
<1> QED BY <1>1, ReplicaInvariant, PTL

(***************************************************************************)
(* No step shortens a chain or exchanges it for one of the same length.    *)
(***************************************************************************)
THEOREM ReplicaGrowth == Spec => ChainsGrow
<1> DEFINE Grows == \A n \in Node :
                      \/ chain'[n] = chain[n]
                      \/ Len(chain'[n]) > Len(chain[n])
<1>1. ReplicaInv /\ [Next]_vars => [Grows]_vars
  <2> SUFFICES ASSUME ReplicaInv, Next PROVE Grows
    OBVIOUS
  <2> USE DEF ReplicaInv, TypeOK
  <2>1. \A n \in Node : \A b : Len(Append(chain[n], b)) > Len(chain[n])
    OBVIOUS
  <2>2. ASSUME NEW n \in Node, NEW h, Mint(n, h) PROVE Grows
    BY <2>1, <2>2 DEF Mint
  <2>3. ASSUME NEW n \in Node, Accept(n) PROVE Grows
    BY <2>1, <2>3 DEF Accept
  <2>4. ASSUME NEW n \in Node, Adopt(n, chain'[n]) PROVE Grows
    BY <2>4 DEF Adopt
  <2> QED BY <2>2, <2>3, <2>4 DEF Next
<1> QED BY <1>1, ReplicaInvariant, PTL DEF Spec, ChainsGrow
=============================================================================
