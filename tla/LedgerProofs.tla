---------------------------- MODULE LedgerProofs ----------------------------
(***************************************************************************)
(* Lemmas about the operators the ledgers are built from: sums of          *)
(* balances, what sweeping and purging a pool returns, appending to a      *)
(* chain, how the confirmed length grows.                                  *)
(***************************************************************************)
EXTENDS Transfers, Confirmations, LeastNumber

(***************************************************************************)
(* A longer chain has at least as many confirmed blocks, whatever its      *)
(* length (the rule that the comment above valid_chain_length in           *)
(* webApp/blockchain/pow asks for).                                        *)
(***************************************************************************)
THEOREM ConfirmedLengthGrows ==
  ASSUME NEW i \in Nat, NEW j \in Nat, i <= j
  PROVE  valid_chain_length(i) <= valid_chain_length(j)
BY DEF valid_chain_length

(***************************************************************************)
(* The genesis block is confirmed in every chain, and no block beyond the  *)
(* chain's end is.                                                         *)
(***************************************************************************)
LEMMA ConfirmedLengthRange ==
  ASSUME NEW i \in Nat \ {0}
  PROVE  valid_chain_length(i) \in 1..i
BY DEF valid_chain_length

Sweeping(S) == [kept : Seq(S), taken : Seq(S), skip : BOOLEAN]

\* scan runs through what the sweep of a pool of members of S has left and collected.
Sweeps(scan, S, pool, gone) ==
  /\ scan \in [0..Len(pool) -> Sweeping(S)]
  /\ scan[0] = Swept
  /\ \A k \in 1..Len(pool) : scan[k] = Visit(scan[k-1], pool[k], gone)
  /\ Sweep(pool, gone) = scan[Len(pool)]

(***************************************************************************)
(* The loop of Sweep, turn by turn: what it has left and collected before  *)
(* the first transaction, after each one, and in the end.                  *)
(***************************************************************************)
LEMMA SweepLoop ==
  ASSUME NEW S, NEW pool \in Seq(S), NEW gone
  PROVE  \E scan : Sweeps(scan, S, pool, gone)
<1> DEFINE N == Len(pool)
           V == Sweeping(S)
           step == [kv \in (1..N) \X V |-> Visit(kv[2], pool[kv[1]], gone)]
           scan == CHOOSE f : f = [k \in 0..N |-> IF k = 0 THEN Swept
                                                  ELSE Visit(f[k-1], pool[k], gone)]
<1> HIDE DEF scan
<1>1. N \in Nat /\ \A k \in 1..N : pool[k] \in S
  OBVIOUS
<1>2. Swept \in V
  BY DEF Swept, Sweeping
<1>3. \A v \in V, tx \in S : Visit(v, tx, gone) \in V
  BY DEF Visit, Sweeping
<1>4. step \in [(1..N) \X V -> V]
  BY <1>1, <1>3
<1>5. \E f \in [0..N -> V] : Follows(f, N, Swept, step)
  <2>1. N \in Nat
    BY <1>1
  <2> HIDE DEF N, V, step
  <2> QED BY <2>1, <1>2, <1>4, RecursionExists, Zenon
<1>6. PICK f \in [0..N -> V] :
        /\ f[0] = Swept
        /\ \A k \in 1..N : f[k] = step[<<k, f[k-1]>>]
  BY <1>5 DEF Follows
<1>7. f = [k \in 0..N |-> IF k = 0 THEN Swept ELSE Visit(f[k-1], pool[k], gone)]
  <2>1. ASSUME NEW k \in 0..N, k # 0
        PROVE  f[k] = Visit(f[k-1], pool[k], gone)
    <3>1. k \in 1..N /\ k - 1 \in 0..N
      BY <1>1, <2>1
    <3>2. f[k-1] \in V
      BY <3>1
    <3> QED BY <1>6, <3>1, <3>2
  <2> HIDE DEF step, V, N
  <2> QED BY <1>6, <2>1
<1>8. scan = [k \in 0..N |-> IF k = 0 THEN Swept ELSE Visit(scan[k-1], pool[k], gone)]
  <2> HIDE DEF N
  <2> QED BY <1>7 DEF scan
<1>9. Sweep(pool, gone) = scan[N]
  BY DEF Sweep, scan
<1> HIDE DEF V
<1>10. scan[0] = Swept
  <2>1. 0 \in 0..N
    BY <1>1
  <2> HIDE DEF N
  <2> QED BY <1>8, <2>1
<1>11. \A k \in 1..N : scan[k] = Visit(scan[k-1], pool[k], gone)
  <2>1. \A k \in 1..N : k \in 0..N /\ k # 0
    BY <1>1
  <2> HIDE DEF N
  <2> QED BY <1>8, <2>1
<1>12. \A k \in 0..N : scan[k] \in V
  <2> DEFINE Bad == {k \in 0..N : scan[k] \notin V}
  <2>1. SUFFICES ASSUME Bad # {} PROVE FALSE
    OBVIOUS
  <2>2. PICK k \in Bad : \A j \in Bad : k <= j
    <3>1. Bad \in SUBSET Nat
      OBVIOUS
    <3> HIDE DEF Bad
    <3> QED BY <2>1, <3>1, LeastElement
  <2>3. k \in 0..N /\ scan[k] \notin V
    OBVIOUS
  <2>4. k \in 1..N /\ k - 1 \in 0..N /\ k - 1 \notin Bad
    BY <1>1, <1>2, <1>10, <2>2, <2>3
  <2>5. scan[k-1] \in V /\ pool[k] \in S
    BY <1>1, <2>4
  <2> QED BY <1>3, <1>11, <2>3, <2>4, <2>5
<1>13. scan \in [0..N -> V]
  <2> HIDE DEF N
  <2> QED BY <1>8, <1>12
<1>14. Sweeps(scan, S, pool, gone)
  BY <1>9, <1>10, <1>11, <1>13 DEF V, Sweeps
<1> QED BY <1>14

(***************************************************************************)
(* Sweeping a pool of members of S leaves and collects members of S, and   *)
(* whatever it collects it also leaves.                                    *)
(***************************************************************************)
LEMMA SweepType ==
  ASSUME NEW S, NEW pool \in Seq(S), NEW gone
  PROVE  /\ Sweep(pool, gone).kept \in Seq(S)
         /\ Sweep(pool, gone).taken \in Seq(S)
         /\ \A i \in DOMAIN Sweep(pool, gone).taken :
              \E j \in DOMAIN Sweep(pool, gone).kept :
                Sweep(pool, gone).kept[j] = Sweep(pool, gone).taken[i]
<1> DEFINE N == Len(pool)
           Leaves(v) == \A i \in DOMAIN v.taken :
                          \E j \in DOMAIN v.kept : v.kept[j] = v.taken[i]
<1>a. PICK scan : Sweeps(scan, S, pool, gone)
  BY SweepLoop
<1>1. /\ scan \in [0..N -> Sweeping(S)]
      /\ scan[0] = Swept
      /\ \A k \in 1..N : scan[k] = Visit(scan[k-1], pool[k], gone)
      /\ Sweep(pool, gone) = scan[N]
  BY <1>a DEF Sweeps
<1>2. N \in Nat /\ \A k \in 1..N : pool[k] \in S
  OBVIOUS
<1>3. ASSUME NEW v \in Sweeping(S), NEW tx \in S, Leaves(v)
      PROVE  Leaves(Visit(v, tx, gone))
  <2> DEFINE w == Visit(v, tx, gone)
  <2>1. v.kept \in Seq(S) /\ v.taken \in Seq(S)
    BY DEF Sweeping
  <2>2. \/ w.kept = v.kept /\ w.taken = v.taken
        \/ w.kept = Append(v.kept, tx) /\ w.taken = v.taken
        \/ w.kept = Append(v.kept, tx) /\ w.taken = Append(v.taken, tx)
    BY <2>1 DEF Visit
  <2>3. ASSUME NEW q \in Seq(S)
        PROVE  /\ Len(Append(q, tx)) = Len(q) + 1 /\ Append(q, tx)[Len(q) + 1] = tx
               /\ \A i \in DOMAIN q : i \in DOMAIN Append(q, tx) /\ Append(q, tx)[i] = q[i]
               /\ DOMAIN Append(q, tx) = DOMAIN q \cup {Len(q) + 1}
    OBVIOUS
  <2>4. CASE w.kept = v.kept /\ w.taken = v.taken
    BY <1>3, <2>4
  <2>5. CASE w.kept = Append(v.kept, tx) /\ w.taken = v.taken
    <3> HIDE DEF w
    <3>1. Leaves(w)
      BY <1>3, <2>1, <2>3, <2>5
    <3> QED BY <3>1 DEF w
  <2>6. CASE w.kept = Append(v.kept, tx) /\ w.taken = Append(v.taken, tx)
    <3> SUFFICES ASSUME NEW i \in DOMAIN w.taken
                 PROVE  \E j \in DOMAIN w.kept : w.kept[j] = w.taken[i]
      OBVIOUS
    <3> HIDE DEF w
    <3>2. CASE i \in DOMAIN v.taken
      BY <1>3, <2>1, <2>3, <2>6, <3>2
    <3>3. CASE i = Len(v.taken) + 1
      <4>1. w.taken[i] = tx
        BY <2>1, <2>3, <2>6, <3>3
      <4>2. Len(v.kept) + 1 \in DOMAIN w.kept /\ w.kept[Len(v.kept) + 1] = tx
        BY <2>1, <2>3, <2>6
      <4> QED BY <4>1, <4>2
    <3> QED BY <2>1, <2>3, <2>6, <3>2, <3>3
  <2> QED BY <2>2, <2>4, <2>5, <2>6
<1>4. Leaves(scan[0])
  BY <1>1 DEF Swept
<1>5. \A k \in 0..N : Leaves(scan[k])
  <2> HIDE DEF Leaves
  <2> DEFINE Bad == {k \in 0..N : ~ Leaves(scan[k])}
  <2>1. SUFFICES ASSUME Bad # {} PROVE FALSE
    OBVIOUS
  <2>2. PICK k \in Bad : \A j \in Bad : k <= j
    <3>1. Bad \in SUBSET Nat
      OBVIOUS
    <3> HIDE DEF Bad
    <3> QED BY <2>1, <3>1, LeastElement
  <2>3. k \in 1..N /\ k - 1 \in 0..N /\ k - 1 \notin Bad
    BY <1>2, <1>4, <2>2
  <2>4. scan[k-1] \in Sweeping(S) /\ Leaves(scan[k-1]) /\ pool[k] \in S
    BY <1>1, <1>2, <2>3
  <2> QED BY <1>1, <1>3, <2>3, <2>4
<1>6. N \in 0..N /\ scan[N] \in Sweeping(S)
  BY <1>1, <1>2
<1>7. Leaves(scan[N])
  <2> HIDE DEF Leaves, N
  <2> QED BY <1>5, <1>6
<1> HIDE DEF N
<1> QED BY <1>1, <1>6, <1>7 DEF Sweeping

(***************************************************************************)
(* No two transactions of a sequence have the same id.                     *)
(***************************************************************************)
DistinctIds(txs) == \A k, l \in DOMAIN txs : txs[k].id = txs[l].id => k = l

(***************************************************************************)
(* Sweeping puts nothing twice: what it leaves and what it collects come   *)
(* from different places of the pool.                                      *)
(***************************************************************************)
LEMMA SweepDistinct ==
  ASSUME NEW S, NEW pool \in Seq(S), NEW gone, DistinctIds(pool)
  PROVE  /\ DistinctIds(Sweep(pool, gone).kept)
         /\ DistinctIds(Sweep(pool, gone).taken)
<1> DEFINE N == Len(pool)
           From(q, k) == /\ \A i \in DOMAIN q : \E p \in 1..k : q[i] = pool[p]
                         /\ DistinctIds(q)
           Good(k, v) == From(v.kept, k) /\ From(v.taken, k)
<1>a. PICK scan : Sweeps(scan, S, pool, gone)
  BY SweepLoop
<1>1. /\ scan \in [0..N -> Sweeping(S)]
      /\ scan[0] = Swept
      /\ \A k \in 1..N : scan[k] = Visit(scan[k-1], pool[k], gone)
      /\ Sweep(pool, gone) = scan[N]
  BY <1>a DEF Sweeps
<1>2. N \in Nat /\ DOMAIN pool = 1..N /\ \A k \in 1..N : pool[k] \in S
  OBVIOUS
<1>3. ASSUME NEW k \in 1..N, NEW q \in Seq(S), From(q, k - 1)
      PROVE  From(q, k) /\ From(Append(q, pool[k]), k)
  <2> DEFINE r == Append(q, pool[k])
  <2>1. /\ DOMAIN r = DOMAIN q \cup {Len(q) + 1} /\ r[Len(q) + 1] = pool[k]
        /\ Len(q) + 1 \notin DOMAIN q
        /\ \A i \in DOMAIN q : r[i] = q[i]
    BY <1>2
  <2>2. \A i \in DOMAIN q : \E p \in 1..(k-1) : q[i] = pool[p]
    BY <1>3
  <2>3. 1..(k-1) \subseteq 1..k /\ k \in 1..k /\ k \notin 1..(k-1)
    BY <1>2
  <2>4. From(q, k)
    BY <1>3, <2>2, <2>3
  <2>5. ASSUME NEW i \in DOMAIN q PROVE q[i].id # pool[k].id
    <3>1. PICK p \in 1..(k-1) : q[i] = pool[p]
      BY <2>2
    <3>2. p \in DOMAIN pool /\ k \in DOMAIN pool /\ p # k
      BY <1>2, <2>3
    <3> QED BY <3>1, <3>2 DEF DistinctIds
  <2>6. DistinctIds(q)
    BY <1>3
  <2> HIDE DEF r
  <2>7. DistinctIds(r)
    BY <2>1, <2>5, <2>6 DEF DistinctIds
  <2>8. \A i \in DOMAIN r : \E p \in 1..k : r[i] = pool[p]
    BY <2>1, <2>2, <2>3
  <2> QED BY <2>4, <2>7, <2>8 DEF r
<1>4. Good(0, scan[0])
  BY <1>1 DEF Swept, DistinctIds
<1> HIDE DEF From
<1>5. ASSUME NEW k \in 1..N, NEW v \in Sweeping(S), Good(k - 1, v)
      PROVE  Good(k, Visit(v, pool[k], gone))
  <2>1. v.kept \in Seq(S) /\ v.taken \in Seq(S)
    BY DEF Sweeping
  <2>2. /\ From(v.kept, k) /\ From(Append(v.kept, pool[k]), k)
        /\ From(v.taken, k) /\ From(Append(v.taken, pool[k]), k)
    BY <1>3, <1>5, <2>1
  <2> QED BY <2>2 DEF Visit
<1>6. \A k \in 0..N : Good(k, scan[k])
  <2> HIDE DEF Good
  <2> DEFINE Bad == {k \in 0..N : ~ Good(k, scan[k])}
  <2>1. SUFFICES ASSUME Bad # {} PROVE FALSE
    OBVIOUS
  <2>2. PICK k \in Bad : \A j \in Bad : k <= j
    <3>1. Bad \in SUBSET Nat
      OBVIOUS
    <3> HIDE DEF Bad
    <3> QED BY <2>1, <3>1, LeastElement
  <2>3. k \in 1..N /\ k - 1 \in 0..N /\ k - 1 \notin Bad
    BY <1>2, <1>4, <2>2
  <2>4. scan[k-1] \in Sweeping(S) /\ Good(k - 1, scan[k-1])
    BY <1>1, <1>2, <2>3
  <2> QED BY <1>1, <1>5, <2>3, <2>4
<1>7. N \in 0..N
  BY <1>2
<1> QED BY <1>1, <1>6, <1>7 DEF From

-----------------------------------------------------------------------------
\* One turn of Without.
Keep(kept, tx, gone) == IF tx \in gone THEN kept ELSE Append(kept, tx)

\* rest runs through what Without has left of a pool of members of S.
Purges(rest, S, pool, gone) ==
  /\ rest \in [0..Len(pool) -> Seq(S)]
  /\ rest[0] = << >>
  /\ \A k \in 1..Len(pool) : rest[k] = Keep(rest[k-1], pool[k], gone)
  /\ Without(pool, gone) = rest[Len(pool)]

(***************************************************************************)
(* The loop of Without, turn by turn: what it has left before the first    *)
(* transaction, after each one, and in the end.                            *)
(***************************************************************************)
LEMMA WithoutLoop ==
  ASSUME NEW S, NEW pool \in Seq(S), NEW gone
  PROVE  \E rest : Purges(rest, S, pool, gone)
<1> DEFINE N == Len(pool)
           V == Seq(S)
           step == [kv \in (1..N) \X V |-> Keep(kv[2], pool[kv[1]], gone)]
           rest == CHOOSE f : f = [k \in 0..N |-> IF k = 0 THEN << >>
                       ELSE IF pool[k] \in gone THEN f[k-1] ELSE Append(f[k-1], pool[k])]
<1> HIDE DEF rest
<1>1. N \in Nat /\ \A k \in 1..N : pool[k] \in S
  OBVIOUS
<1>2. << >> \in V
  OBVIOUS
<1>3. \A k \in 1..N, q \in V : Keep(q, pool[k], gone) \in V
  BY <1>1 DEF Keep
<1>4. step \in [(1..N) \X V -> V]
  <2> HIDE DEF N, V
  <2> QED BY <1>3
<1>5. \E f \in [0..N -> V] : Follows(f, N, << >>, step)
  <2> HIDE DEF N, V, step
  <2> QED BY <1>1, <1>2, <1>4, RecursionExists, Zenon
<1>6. PICK f \in [0..N -> V] :
        /\ f[0] = << >>
        /\ \A k \in 1..N : f[k] = step[<<k, f[k-1]>>]
  BY <1>5 DEF Follows
<1>7. f = [k \in 0..N |-> IF k = 0 THEN << >>
             ELSE IF pool[k] \in gone THEN f[k-1] ELSE Append(f[k-1], pool[k])]
  <2>1. ASSUME NEW k \in 0..N, k # 0
        PROVE  f[k] = IF pool[k] \in gone THEN f[k-1] ELSE Append(f[k-1], pool[k])
    <3>1. k \in 1..N /\ k - 1 \in 0..N
      BY <1>1, <2>1
    <3>2. f[k-1] \in V
      BY <3>1
    <3>3. step[<<k, f[k-1]>>] = Keep(f[k-1], pool[k], gone)
      <4> HIDE DEF V, N
      <4> QED BY <3>1, <3>2
    <3> QED BY <1>6, <3>1, <3>3 DEF Keep
  <2> HIDE DEF step, V, N
  <2> QED BY <1>6, <2>1
<1>8. rest = [k \in 0..N |-> IF k = 0 THEN << >>
          ELSE IF pool[k] \in gone THEN rest[k-1] ELSE Append(rest[k-1], pool[k])]
  <2> HIDE DEF N
  <2> QED BY <1>7 DEF rest
<1>9. Without(pool, gone) = rest[N]
  BY DEF Without, rest
<1> HIDE DEF V
<1>10. rest[0] = << >>
  <2>1. 0 \in 0..N
    BY <1>1
  <2> HIDE DEF N
  <2> QED BY <1>8, <2>1
<1>11. \A k \in 1..N : rest[k] = Keep(rest[k-1], pool[k], gone)
  <2>1. \A k \in 1..N : k \in 0..N /\ k # 0
    BY <1>1
  <2> HIDE DEF N
  <2> QED BY <1>8, <2>1 DEF Keep
<1>12. \A k \in 0..N : rest[k] \in V
  <2> DEFINE Bad == {k \in 0..N : rest[k] \notin V}
  <2>1. SUFFICES ASSUME Bad # {} PROVE FALSE
    OBVIOUS
  <2>2. PICK k \in Bad : \A j \in Bad : k <= j
    <3>1. Bad \in SUBSET Nat
      OBVIOUS
    <3> HIDE DEF Bad
    <3> QED BY <2>1, <3>1, LeastElement
  <2>3. k \in 0..N /\ rest[k] \notin V
    OBVIOUS
  <2>4. k \in 1..N /\ k - 1 \in 0..N /\ k - 1 \notin Bad
    BY <1>1, <1>2, <1>10, <2>2, <2>3
  <2>5. rest[k-1] \in V
    BY <2>4
  <2>6. rest[k] = Keep(rest[k-1], pool[k], gone)
    BY <1>11, <2>4
  <2> HIDE DEF Bad, V
  <2> QED BY <1>3, <2>3, <2>4, <2>5, <2>6
<1>13. rest \in [0..N -> V]
  <2> HIDE DEF N
  <2> QED BY <1>8, <1>12
<1>14. Purges(rest, S, pool, gone)
  BY <1>9, <1>10, <1>11, <1>13 DEF V, Purges
<1> QED BY <1>14

(***************************************************************************)
(* What is left of a pool when every transaction is examined is of the     *)
(* pool, not gone, and nothing of it is there twice.                       *)
(***************************************************************************)
LEMMA WithoutType ==
  ASSUME NEW S, NEW pool \in Seq(S), NEW gone
  PROVE  /\ Without(pool, gone) \in Seq(S)
         /\ \A i \in DOMAIN Without(pool, gone) :
              /\ Without(pool, gone)[i] \notin gone
              /\ \E p \in DOMAIN pool : Without(pool, gone)[i] = pool[p]
         /\ DistinctIds(pool) => DistinctIds(Without(pool, gone))
<1> DEFINE N == Len(pool)
           From(q, k) == /\ \A i \in DOMAIN q : /\ q[i] \notin gone
                                               /\ \E p \in 1..k : q[i] = pool[p]
                         /\ DistinctIds(pool) => DistinctIds(q)
<1>a. PICK rest : Purges(rest, S, pool, gone)
  BY WithoutLoop
<1>1. /\ rest \in [0..N -> Seq(S)]
      /\ rest[0] = << >>
      /\ \A k \in 1..N : rest[k] = Keep(rest[k-1], pool[k], gone)
      /\ Without(pool, gone) = rest[N]
  BY <1>a DEF Purges
<1>2. N \in Nat /\ DOMAIN pool = 1..N /\ \A k \in 1..N : pool[k] \in S
  OBVIOUS
<1>3. ASSUME NEW k \in 1..N, NEW q \in Seq(S), From(q, k - 1)
      PROVE  From(q, k) /\ (pool[k] \notin gone => From(Append(q, pool[k]), k))
  <2> DEFINE r == Append(q, pool[k])
  <2>1. /\ DOMAIN r = DOMAIN q \cup {Len(q) + 1} /\ r[Len(q) + 1] = pool[k]
        /\ Len(q) + 1 \notin DOMAIN q
        /\ \A i \in DOMAIN q : r[i] = q[i]
    BY <1>2
  <2>2. \A i \in DOMAIN q : q[i] \notin gone /\ \E p \in 1..(k-1) : q[i] = pool[p]
    BY <1>3
  <2>3. 1..(k-1) \subseteq 1..k /\ k \in 1..k /\ k \notin 1..(k-1)
    BY <1>2
  <2>4. From(q, k)
    BY <1>3, <2>2, <2>3
  <2>5. ASSUME NEW i \in DOMAIN q, DistinctIds(pool) PROVE q[i].id # pool[k].id
    <3>1. PICK p \in 1..(k-1) : q[i] = pool[p]
      BY <2>2
    <3>2. p \in DOMAIN pool /\ k \in DOMAIN pool /\ p # k
      BY <1>2, <2>3
    <3> QED BY <2>5, <3>1, <3>2 DEF DistinctIds
  <2>6. DistinctIds(pool) => DistinctIds(q)
    BY <1>3
  <2> HIDE DEF r
  <2>7. DistinctIds(pool) => DistinctIds(r)
    BY <2>1, <2>5, <2>6 DEF DistinctIds
  <2>8. pool[k] \notin gone
          => \A i \in DOMAIN r : r[i] \notin gone /\ \E p \in 1..k : r[i] = pool[p]
    BY <2>1, <2>2, <2>3
  <2> QED BY <2>4, <2>7, <2>8 DEF r
<1>4. From(rest[0], 0)
  BY <1>1 DEF DistinctIds
<1>5. \A k \in 0..N : From(rest[k], k)
  <2> HIDE DEF From
  <2> DEFINE Bad == {k \in 0..N : ~ From(rest[k], k)}
  <2>1. SUFFICES ASSUME Bad # {} PROVE FALSE
    OBVIOUS
  <2>2. PICK k \in Bad : \A j \in Bad : k <= j
    <3>1. Bad \in SUBSET Nat
      OBVIOUS
    <3> HIDE DEF Bad
    <3> QED BY <2>1, <3>1, LeastElement
  <2>3. k \in 1..N /\ k - 1 \in 0..N /\ k - 1 \notin Bad
    BY <1>2, <1>4, <2>2
  <2>4. rest[k-1] \in Seq(S) /\ From(rest[k-1], k - 1)
    BY <1>1, <1>2, <2>3
  <2> QED BY <1>1, <1>3, <2>3, <2>4 DEF Keep
<1>6. N \in 0..N
  BY <1>2
<1>7. From(rest[N], N) /\ rest[N] \in Seq(S)
  <2> HIDE DEF N, From
  <2> QED BY <1>1, <1>5, <1>6
<1> HIDE DEF N
<1> QED BY <1>1, <1>2, <1>7

-----------------------------------------------------------------------------
(***************************************************************************)
(* A sequence with one more member, and without its first.                 *)
(***************************************************************************)
LEMMA AppendFacts ==
  ASSUME NEW S, NEW q \in Seq(S), NEW x
  PROVE  /\ DOMAIN Append(q, x) = DOMAIN q \cup {Len(q) + 1}
         /\ Len(q) + 1 \notin DOMAIN q
         /\ Append(q, x)[Len(q) + 1] = x
         /\ \A i \in DOMAIN q : Append(q, x)[i] = q[i]
OBVIOUS

LEMMA TailFacts ==
  ASSUME NEW S, NEW q \in Seq(S), q # << >>
  PROVE  /\ Head(q) = q[1] /\ 1 \in DOMAIN q
         /\ \A i \in DOMAIN Tail(q) : /\ Tail(q)[i] = q[i + 1]
                                      /\ i + 1 \in DOMAIN q /\ i \in Nat /\ i + 1 # 1
OBVIOUS

(***************************************************************************)
(* An id names one transaction of K; no two blocks of c hold the same one. *)
(***************************************************************************)
UniqueIds(K) == \A s, t \in K : s.id = t.id => s = t

Apart(c) ==
  \A i, j \in DOMAIN c : \A k \in DOMAIN c[i].transactions, l \in DOMAIN c[j].transactions :
    c[i].transactions[k].id = c[j].transactions[l].id => i = j

\* The block b brings no id that is in c.
Fresh(c, b) ==
  \A i \in DOMAIN c : \A k \in DOMAIN c[i].transactions, l \in DOMAIN b.transactions :
    c[i].transactions[k].id # b.transactions[l].id

LEMMA ApartAppend ==
  ASSUME NEW S, NEW c \in Seq(S), NEW b, Apart(c), Fresh(c, b)
  PROVE  Apart(Append(c, b))
<1> DEFINE d == Append(c, b)
           e == Len(c) + 1
<1>1. /\ DOMAIN d = DOMAIN c \cup {e} /\ d[e] = b
      /\ \A i \in DOMAIN c : d[i] = c[i]
  BY AppendFacts
<1> HIDE DEF d, e
<1>2. Apart(d)
  BY <1>1 DEF Apart, Fresh
<1> QED BY <1>2 DEF d

-----------------------------------------------------------------------------
\* sum runs through the sums of f's first elements.
Sums(sum, f, n) ==
  /\ sum \in [0..n -> Int]
  /\ sum[0] = 0
  /\ \A k \in 1..n : sum[k] = sum[k-1] + f[k]

(***************************************************************************)
(* SumTo, turn by turn.                                                    *)
(***************************************************************************)
LEMMA SumLoop ==
  ASSUME NEW n \in Nat, NEW f, \A i \in 1..n : f[i] \in Int
  PROVE  \E sum : Sums(sum, f, n) /\ SumTo(f, n) = sum[n]
<1> DEFINE step == [kv \in (1..n) \X Int |-> kv[2] + f[kv[1]]]
           sum == CHOOSE g : g = [k \in 0..n |-> IF k = 0 THEN 0 ELSE g[k-1] + f[k]]
<1> HIDE DEF sum
<1>1. step \in [(1..n) \X Int -> Int]
  OBVIOUS
<1>2. PICK g \in [0..n -> Int] : Follows(g, n, 0, step)
  <2>1. 0 \in Int
    OBVIOUS
  <2> HIDE DEF step
  <2> QED BY <1>1, <2>1, RecursionExists, Zenon
<1>3. g[0] = 0 /\ \A k \in 1..n : g[k] = step[<<k, g[k-1]>>]
  BY <1>2 DEF Follows
<1>4. g = [k \in 0..n |-> IF k = 0 THEN 0 ELSE g[k-1] + f[k]]
  <2>1. ASSUME NEW k \in 0..n, k # 0
        PROVE  g[k] = g[k-1] + f[k]
    <3>1. k \in 1..n /\ k - 1 \in 0..n
      BY <2>1
    <3>2. g[k-1] \in Int
      BY <3>1
    <3> QED BY <1>3, <3>1, <3>2
  <2> HIDE DEF step
  <2> QED BY <1>3, <2>1
<1>5. sum = [k \in 0..n |-> IF k = 0 THEN 0 ELSE sum[k-1] + f[k]]
  BY <1>4 DEF sum
<1>6. SumTo(f, n) = sum[n]
  BY DEF SumTo, sum
<1>7. sum[0] = 0 /\ \A k \in 1..n : sum[k] = sum[k-1] + f[k]
  <2>1. 0 \in 0..n /\ \A k \in 1..n : k \in 0..n /\ k # 0
    OBVIOUS
  <2> QED BY <1>5, <2>1
<1>8. \A k \in 0..n : sum[k] \in Int
  <2> DEFINE Bad == {k \in 0..n : sum[k] \notin Int}
  <2>1. SUFFICES ASSUME Bad # {} PROVE FALSE
    OBVIOUS
  <2>2. PICK k \in Bad : \A j \in Bad : k <= j
    <3>1. Bad \in SUBSET Nat
      OBVIOUS
    <3> HIDE DEF Bad
    <3> QED BY <2>1, <3>1, LeastElement
  <2>3. k \in 1..n /\ k - 1 \in 0..n /\ k - 1 \notin Bad
    BY <1>7, <2>2
  <2>4. sum[k-1] \in Int /\ f[k] \in Int
    BY <2>3
  <2> QED BY <1>7, <2>3, <2>4
<1>9. Sums(sum, f, n)
  BY <1>5, <1>7, <1>8 DEF Sums
<1> QED BY <1>6, <1>9

LEMMA SumsAgree ==
  ASSUME NEW n \in Nat, NEW m \in Nat, NEW k \in Nat, k <= n, k <= m,
         NEW f, NEW g, \A i \in 1..k : f[i] = g[i],
         NEW s, NEW t, Sums(s, f, n), Sums(t, g, m)
  PROVE  s[k] = t[k]
<1> DEFINE Bad == {i \in 0..k : s[i] # t[i]}
<1>1. SUFFICES ASSUME Bad # {} PROVE FALSE
  OBVIOUS
<1>2. PICK i \in Bad : \A j \in Bad : i <= j
  <2>1. Bad \in SUBSET Nat
    OBVIOUS
  <2> HIDE DEF Bad
  <2> QED BY <1>1, <2>1, LeastElement
<1>3. i \in 1..k /\ i - 1 \in 0..k /\ i - 1 \notin Bad
  BY <1>2 DEF Sums
<1>4. s[i-1] = t[i-1] /\ i \in 1..n /\ i \in 1..m
  BY <1>3
<1>5. s[i] = t[i]
  BY <1>3, <1>4 DEF Sums
<1> QED BY <1>5

(***************************************************************************)
(* A sum is that of the elements it is over, whatever else f holds.        *)
(***************************************************************************)
LEMMA SumSame ==
  ASSUME NEW n \in Nat, NEW f, NEW g,
         \A i \in 1..n : f[i] \in Int /\ g[i] = f[i]
  PROVE  SumTo(f, n) = SumTo(g, n) /\ SumTo(f, n) \in Int
<1>1. PICK s : Sums(s, f, n) /\ SumTo(f, n) = s[n]
  BY SumLoop
<1>2. PICK t : Sums(t, g, n) /\ SumTo(g, n) = t[n]
  BY SumLoop
<1>3. s[n] = t[n]
  BY <1>1, <1>2, SumsAgree
<1>4. s[n] \in Int
  BY <1>1 DEF Sums
<1> QED BY <1>1, <1>2, <1>3, <1>4

LEMMA SumZero ==
  ASSUME NEW f
  PROVE  SumTo(f, 0) = 0
<1>1. \A i \in 1..0 : f[i] \in Int
  OBVIOUS
<1>2. PICK s : Sums(s, f, 0) /\ SumTo(f, 0) = s[0]
  BY <1>1, SumLoop
<1> QED BY <1>2 DEF Sums

(***************************************************************************)
(* One element more adds that element.                                     *)
(***************************************************************************)
LEMMA SumStep ==
  ASSUME NEW n \in Nat, n # 0, NEW f, \A i \in 1..n : f[i] \in Int
  PROVE  SumTo(f, n) = SumTo(f, n - 1) + f[n]
<1>1. PICK s : Sums(s, f, n) /\ SumTo(f, n) = s[n]
  BY SumLoop
<1>2. n - 1 \in Nat /\ \A i \in 1..(n-1) : f[i] \in Int
  OBVIOUS
<1>3. PICK t : Sums(t, f, n - 1) /\ SumTo(f, n - 1) = t[n-1]
  BY <1>2, SumLoop
<1>4. s[n-1] = t[n-1]
  <2>1. n - 1 <= n /\ n - 1 <= n - 1
    OBVIOUS
  <2> QED BY <1>1, <1>2, <1>3, <2>1, SumsAgree
<1>5. s[n] = s[n-1] + f[n]
  BY <1>1 DEF Sums
<1> QED BY <1>1, <1>3, <1>4, <1>5

-----------------------------------------------------------------------------
\* The member that a fold over s begins with.
AnyOf(s) == CHOOSE x \in s : TRUE

\* g sums f over the subsets of S, taking one element at a time away.
SetSums(g, S, f) ==
  g = [s \in SUBSET S |-> IF s = {} THEN 0 ELSE f[AnyOf(s)] + g[s \ {AnyOf(s)}]]

(***************************************************************************)
(* Taking a member away makes a finite set one smaller.                    *)
(***************************************************************************)
LEMMA TakeAway ==
  ASSUME NEW S, IsFiniteSet(S), NEW s \in SUBSET S
  PROVE  /\ IsFiniteSet(s) /\ Cardinality(s) \in Nat
         /\ s # {} => /\ AnyOf(s) \in S
                      /\ s \ {AnyOf(s)} \in SUBSET S
                      /\ Cardinality(s \ {AnyOf(s)}) = Cardinality(s) - 1
                      /\ Cardinality(s) # 0
         /\ Cardinality(s) = 0 => s = {}
<1>1. IsFiniteSet(s) /\ Cardinality(s) \in Nat
  BY FS_Subset, FS_CardinalityType
<1>2. Cardinality(s) = 0 <=> s = {}
  BY <1>1, FS_EmptySet
<1>3. ASSUME s # {}
      PROVE  AnyOf(s) \in s
  BY <1>3 DEF AnyOf
<1>4. ASSUME s # {}
      PROVE  Cardinality(s \ {AnyOf(s)}) = Cardinality(s) - 1
  BY <1>1, <1>3, <1>4, FS_RemoveElement
<1> QED BY <1>1, <1>2, <1>3, <1>4

(***************************************************************************)
(* The sums over the subsets of a finite set exist ...                     *)
(***************************************************************************)
LEMMA SetSumsExist ==
  ASSUME NEW S, IsFiniteSet(S), NEW f \in [S -> Int]
  PROVE  \E g : SetSums(g, S, f)
<1> DEFINE N == Cardinality(S)
           Small(m) == {s \in SUBSET S : Cardinality(s) <= m}
           Turn(g, s) == IF s = {} THEN 0 ELSE f[AnyOf(s)] + g[s \ {AnyOf(s)}]
           Fits(g, m) == \A s \in Small(m) : g[s] = Turn(g, s)
           Bad == {m \in 0..N : ~ \E g \in [Small(m) -> Int] : Fits(g, m)}
<1>1. N \in Nat /\ S \in Small(N) /\ Small(N) = SUBSET S
  <2>1. N \in Nat /\ \A s \in SUBSET S : Cardinality(s) <= N
    BY FS_CardinalityType, FS_Subset
  <2> QED BY <2>1
<1>2. \A s \in SUBSET S : s # {} => /\ AnyOf(s) \in S
                                    /\ s \ {AnyOf(s)} \in SUBSET S
                                    /\ Cardinality(s \ {AnyOf(s)}) = Cardinality(s) - 1
  BY TakeAway
<1>3. \A s \in SUBSET S : Cardinality(s) \in Nat /\ (Cardinality(s) = 0 => s = {})
  BY TakeAway
<1>4. ASSUME NEW m \in 0..N, m # 0, NEW g \in [Small(m-1) -> Int], Fits(g, m - 1)
      PROVE  \E h \in [Small(m) -> Int] : Fits(h, m)
  <2> DEFINE h == [s \in Small(m) |-> Turn(g, s)]
  <2>1. \A s \in Small(m) : s # {} => s \ {AnyOf(s)} \in Small(m-1) /\ AnyOf(s) \in S
    BY <1>1, <1>2, <1>3
  <2>2. h \in [Small(m) -> Int]
    <3> HIDE DEF Small
    <3> QED BY <2>1
  <2>3. \A s \in Small(m-1) : s \in Small(m) /\ h[s] = g[s]
    <3>1. \A s \in Small(m-1) : s \in Small(m)
      BY <1>1, <1>3
    <3> HIDE DEF Small
    <3> QED BY <1>4, <3>1
  <2>4. Fits(h, m)
    <3> SUFFICES ASSUME NEW s \in Small(m) PROVE h[s] = Turn(h, s)
      OBVIOUS
    <3> HIDE DEF Small
    <3> QED BY <2>1, <2>3
  <2> QED BY <2>2, <2>4
<1>5. Bad = {}
  <2>1. SUFFICES ASSUME Bad # {} PROVE FALSE
    OBVIOUS
  <2>2. PICK m \in Bad : \A k \in Bad : m <= k
    <3>1. Bad \in SUBSET Nat
      OBVIOUS
    <3> HIDE DEF Bad
    <3> QED BY <2>1, <3>1, LeastElement
  <2>3. m # 0
    <3>1. \A s \in Small(0) : s = {}
      BY <1>3
    <3> DEFINE g == [s \in Small(0) |-> 0]
    <3>2. g \in [Small(0) -> Int] /\ Fits(g, 0)
      <4> HIDE DEF Small
      <4> QED BY <3>1
    <3>3. 0 \notin Bad
      <4> HIDE DEF Small, Fits, g
      <4> QED BY <3>2
    <3> QED BY <2>2, <3>3
  <2>4. m \in 0..N /\ m - 1 \in 0..N /\ ~ (m <= m - 1)
    BY <1>1, <2>2, <2>3
  <2>5. m - 1 \notin Bad
    <3> HIDE DEF Bad
    <3> QED BY <2>2, <2>4
  <2>6. PICK g \in [Small(m-1) -> Int] : Fits(g, m - 1)
    <3> HIDE DEF Small, Fits
    <3> QED BY <2>4, <2>5
  <2>7. \E h \in [Small(m) -> Int] : Fits(h, m)
    <3> HIDE DEF Small, Fits
    <3> QED BY <1>4, <2>3, <2>4, <2>6
  <2> HIDE DEF Small, Fits
  <2> QED BY <2>2, <2>7
<1>6. PICK g \in [SUBSET S -> Int] : \A s \in SUBSET S : g[s] = Turn(g, s)
  <2>1. N \in 0..N /\ N \notin Bad
    <3> HIDE DEF Bad, N
    <3> QED BY <1>1, <1>5
  <2>2. \E g \in [Small(N) -> Int] : Fits(g, N)
    <3> HIDE DEF Small, Fits
    <3> QED BY <2>1
  <2> QED BY <1>1, <2>2
<1>7. SetSums(g, S, f)
  BY <1>6 DEF SetSums
<1> QED BY <1>7

(***************************************************************************)
(* ... and are numbers.                                                    *)
(***************************************************************************)
LEMMA SetSumsType ==
  ASSUME NEW S, IsFiniteSet(S), NEW f \in [S -> Int], NEW g, SetSums(g, S, f)
  PROVE  g[S] \in Int
<1> DEFINE Wrong == {s \in SUBSET S : g[s] \notin Int}
           Bad == {Cardinality(s) : s \in Wrong}
<1>1. SUFFICES ASSUME Wrong # {} PROVE FALSE
  BY DEF SetSums
<1>2. Bad \in SUBSET Nat /\ Bad # {}
  <2>1. \A s \in Wrong : Cardinality(s) \in Nat
    BY TakeAway
  <2> HIDE DEF Wrong
  <2> QED BY <1>1, <2>1
<1>3. PICK k \in Bad : \A j \in Bad : k <= j
  <2> HIDE DEF Bad
  <2> QED BY <1>2, LeastElement
<1>4. PICK s \in SUBSET S : g[s] \notin Int /\ k = Cardinality(s)
  OBVIOUS
<1>5. s # {}
  BY <1>4 DEF SetSums
<1>6. /\ AnyOf(s) \in S /\ s \ {AnyOf(s)} \in SUBSET S /\ k \in Nat
      /\ Cardinality(s \ {AnyOf(s)}) = k - 1
  BY <1>4, <1>5, TakeAway
<1>7. g[s \ {AnyOf(s)}] \in Int
  <2>1. ASSUME s \ {AnyOf(s)} \in Wrong PROVE FALSE
    <3>1. k - 1 \in Bad
      BY <1>6, <2>1
    <3> HIDE DEF Bad
    <3> QED BY <1>3, <1>6, <3>1
  <2> QED BY <1>6, <2>1
<1>8. g[s] = f[AnyOf(s)] + g[s \ {AnyOf(s)}]
  BY <1>5 DEF SetSums
<1> QED BY <1>4, <1>6, <1>7, <1>8

-----------------------------------------------------------------------------
\* What ChainReplica sees of a block and of a chain.
HeaderOf(b) == [hash |-> b.hash, prevHash |-> b.prevHash]

HeadersOf(c) == [i \in DOMAIN c |-> HeaderOf(c[i])]

LEMMA HeadersType ==
  ASSUME NEW S, NEW H, \A b \in S : HeaderOf(b) \in H, NEW c \in Seq(S)
  PROVE  /\ HeadersOf(c) \in Seq(H)
         /\ Len(HeadersOf(c)) = Len(c)
         /\ DOMAIN c = 1..Len(c) /\ Len(c) \in Nat
         /\ \A i \in DOMAIN c : /\ HeadersOf(c)[i] = HeaderOf(c[i])
                                /\ HeadersOf(c)[i].hash = c[i].hash
                                /\ HeadersOf(c)[i].prevHash = c[i].prevHash
<1>1. /\ DOMAIN c = 1..Len(c) /\ Len(c) \in Nat
      /\ \A i \in 1..Len(c) : c[i] \in S
  OBVIOUS
<1>2. HeadersOf(c) \in Seq(H) /\ Len(HeadersOf(c)) = Len(c)
  BY <1>1 DEF HeadersOf
<1> QED BY <1>1, <1>2 DEF HeadersOf, HeaderOf

(***************************************************************************)
(* Appending a block appends its header.                                   *)
(***************************************************************************)
LEMMA HeadersAppend ==
  ASSUME NEW S, NEW c \in Seq(S), NEW b
  PROVE  HeadersOf(Append(c, b)) = Append(HeadersOf(c), HeaderOf(b))
<1> DEFINE H == {HeaderOf(x) : x \in S}
           q == Append(HeadersOf(c), HeaderOf(b))
<1>1. /\ DOMAIN Append(c, b) = 1..(Len(c) + 1) /\ Len(c) \in Nat
      /\ Append(c, b)[Len(c) + 1] = b
      /\ \A i \in 1..Len(c) : Append(c, b)[i] = c[i]
  OBVIOUS
<1>2. /\ HeadersOf(c) \in Seq(H) /\ Len(HeadersOf(c)) = Len(c)
      /\ \A i \in 1..Len(c) : HeadersOf(c)[i] = HeaderOf(c[i])
  <2>1. \A x \in S : HeaderOf(x) \in H
    OBVIOUS
  <2> HIDE DEF H
  <2> QED BY <2>1, HeadersType
<1> HIDE DEF H
<1>3. /\ q \in Seq(H \cup {HeaderOf(b)}) /\ Len(q) = Len(c) + 1
      /\ q[Len(c) + 1] = HeaderOf(b)
      /\ \A i \in 1..Len(c) : q[i] = HeaderOf(c[i])
  BY <1>2
<1> HIDE DEF q
<1>4. q = [i \in 1..(Len(c) + 1) |-> q[i]]
  <2>1. ASSUME NEW T, NEW r \in Seq(T)
        PROVE  r = [i \in 1..Len(r) |-> r[i]]
    OBVIOUS
  <2>2. q = [i \in 1..Len(q) |-> q[i]]
    BY <1>3, <2>1
  <2> QED BY <1>3, <2>2
<1>5. \A i \in 1..(Len(c) + 1) : HeaderOf(Append(c, b)[i]) = q[i]
  <2>1. \A i \in 1..(Len(c) + 1) : i \in 1..Len(c) \/ i = Len(c) + 1
    BY <1>1
  <2> QED BY <1>1, <1>3, <2>1
<1>6. HeadersOf(Append(c, b)) = [i \in 1..(Len(c) + 1) |-> HeaderOf(Append(c, b)[i])]
  BY <1>1 DEF HeadersOf
<1> QED BY <1>4, <1>5, <1>6 DEF q
=============================================================================
