---------------------------- MODULE LeastNumber ----------------------------
(***************************************************************************)
(* Every non-empty set of natural numbers has a least element: how the     *)
(* proof modules argue by induction, as the absence of a least             *)
(* counterexample.                                                         *)
(***************************************************************************)
EXTENDS Integers, FiniteSets, FiniteSetTheorems, WellFoundedInduction, TLAPS

(***************************************************************************)
(* A non-empty set T of natural numbers has a least element; used for the  *)
(* positions of a chain.  n is read as the finite set 1..n, and strict     *)
(* inclusion of finite sets is well-founded.                               *)
(***************************************************************************)
LEMMA LeastElement ==
  ASSUME NEW T \in SUBSET Nat, T # {}
  PROVE  \E x \in T : \A y \in T : x <= y
<1> DEFINE U == {1..n : n \in T}
<1>1. IsWellFoundedOn(StrictSubsetOrdering(Nat), FiniteSubsetsOf(Nat))
  BY FS_StrictSubsetOrderingWellFounded
<1>2. U \subseteq FiniteSubsetsOf(Nat) /\ U # {}
  <2>1. \A n \in Nat : IsFiniteSet(1..n)
    BY FS_Interval
  <2>2. \A n \in T : 1..n \in FiniteSubsetsOf(Nat)
    BY <2>1 DEF FiniteSubsetsOf
  <2> QED BY <2>2
<1>3. \E u \in U : \A v \in U : ~ (<<v, u>> \in StrictSubsetOrdering(Nat))
  <2> HIDE DEF U
  <2> QED BY <1>1, <1>2, WFMin, Zenon
<1>4. PICK x \in T : \A y \in T : <<1..y, 1..x>> \notin StrictSubsetOrdering(Nat)
  BY <1>3
<1>5. ASSUME NEW y \in T, y < x
      PROVE  <<1..y, 1..x>> \in StrictSubsetOrdering(Nat)
  <2>1. 1..y \subseteq 1..x /\ x \in 1..x /\ x \notin 1..y
    BY <1>5
  <2> QED BY <2>1 DEF StrictSubsetOrdering
<1>6. \A y \in T : ~ (y < x)
  BY <1>4, <1>5
<1> QED BY <1>6

(***************************************************************************)
(* A non-empty set of natural numbers up to N has a greatest element.      *)
(***************************************************************************)
LEMMA GreatestElement ==
  ASSUME NEW N \in Nat, NEW T \in SUBSET (0..N), T # {}
  PROVE  \E x \in T : \A y \in T : y <= x
<1> DEFINE U == {k \in 0..N : N - k \in T}
<1>1. U \in SUBSET Nat /\ U # {}
  <2>1. PICK t \in T : TRUE
    OBVIOUS
  <2>2. t \in Nat /\ N - t \in 0..N /\ N - (N - t) = t
    OBVIOUS
  <2> QED BY <2>1, <2>2
<1>2. PICK u \in U : \A k \in U : u <= k
  <2> HIDE DEF U
  <2> QED BY <1>1, LeastElement
<1>3. N - u \in T /\ u \in 0..N
  OBVIOUS
<1>4. ASSUME NEW y \in T PROVE y <= N - u
  <2>1. y \in 0..N /\ N - y \in 0..N /\ N - (N - y) = y
    OBVIOUS
  <2>2. N - y \in U
    BY <2>1
  <2> QED BY <1>2, <1>3, <2>1, <2>2
<1> QED BY <1>3, <1>4

\* f runs from start by step: f[k] comes from k and f[k-1].
Follows(f, N, start, step) ==
  /\ f[0] = start
  /\ \A k \in 1..N : f[k] = step[<<k, f[k-1]>>]

(***************************************************************************)
(* A function on 0..N may be defined by its value at 0 and, at every k     *)
(* after it, from its value at k - 1; it then takes its values in V if the *)
(* first one is in V and each one follows from one in V.                   *)
(***************************************************************************)
LEMMA RecursionExists ==
  ASSUME NEW N \in Nat, NEW V, NEW start \in V,
         NEW step \in [(1..N) \X V -> V]
  PROVE  \E f \in [0..N -> V] : Follows(f, N, start, step)
<1> DEFINE Defines(f, m) ==
             /\ f[0] = start
             /\ \A k \in 1..m : f[k] = step[<<k, f[k-1]>>]
           Bad == {m \in 0..N : ~ \E f \in [0..m -> V] : Defines(f, m)}
<1>1. Bad = {}
  <2>1. SUFFICES ASSUME Bad # {} PROVE FALSE
    OBVIOUS
  <2>2. PICK m \in Bad : \A k \in Bad : m <= k
    <3>1. Bad \in SUBSET Nat
      OBVIOUS
    <3> HIDE DEF Bad
    <3> QED BY <2>1, <3>1, LeastElement
  <2>3. CASE m = 0
    <3>1. [k \in 0..0 |-> start] \in [0..0 -> V] /\ Defines([k \in 0..0 |-> start], 0)
      OBVIOUS
    <3> QED BY <2>3, <3>1
  <2>4. CASE m # 0
    <3>1. m - 1 \in 0..N /\ m - 1 \notin Bad
      BY <2>2, <2>4
    <3>2. PICK f \in [0..(m-1) -> V] : Defines(f, m - 1)
      BY <3>1
    <3> DEFINE g == [k \in 0..m |-> IF k = m THEN step[<<m, f[m-1]>>] ELSE f[k]]
    <3>3. m \in 1..N /\ m \in Nat /\ f[m-1] \in V /\ step[<<m, f[m-1]>>] \in V
      BY <2>4
    <3>4. g \in [0..m -> V]
      BY <3>3
    <3>5. \A k \in 0..(m-1) : g[k] = f[k]
      BY <3>3
    <3>6. g[m] = step[<<m, f[m-1]>>] /\ g[m-1] = f[m-1]
      BY <3>3, <3>5
    <3>7. g[0] = start
      <4>1. 0 \in 0..(m-1)
        BY <3>3
      <4> QED BY <3>2, <3>5, <4>1
    <3>8. ASSUME NEW k \in 1..m PROVE g[k] = step[<<k, g[k-1]>>]
      <4>1. CASE k = m
        BY <3>6, <4>1
      <4>2. CASE k # m
        <5>1. k \in 1..(m-1) /\ k \in 0..(m-1) /\ k - 1 \in 0..(m-1)
          BY <3>3, <4>2
        <5>2. f[k] = step[<<k, f[k-1]>>]
          BY <3>2, <5>1
        <5> QED BY <3>5, <5>1, <5>2
      <4> QED BY <4>1, <4>2
    <3>9. Defines(g, m)
      BY <3>7, <3>8
    <3> QED BY <3>4, <3>9
  <2> QED BY <2>3, <2>4
<1>2. N \in 0..N
  OBVIOUS
<1>3. N \notin Bad
  <2> HIDE DEF Bad
  <2> QED BY <1>1
<1>4. \E f \in [0..N -> V] : Defines(f, N)
  <2> HIDE DEF Defines
  <2> QED BY <1>2, <1>3
<1> QED BY <1>4 DEF Follows
=============================================================================
