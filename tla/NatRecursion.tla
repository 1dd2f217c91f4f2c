---------------------------- MODULE NatRecursion ----------------------------
(***************************************************************************)
(* Induction and recursion on natural numbers, for the proofs about        *)
(* recursive functions: every set that holds 0 and is closed under + 1     *)
(* holds every natural number, a recursion along 0..n has a solution, and  *)
(* of some numbers one is the least.                                       *)
(***************************************************************************)
EXTENDS Naturals, WellFoundedInduction, TLAPS

\* A set that holds 0 and is closed under + 1 holds every number.
LEMMA Induction ==
  ASSUME NEW S, 0 \in S, \A n \in Nat : n \in S => n + 1 \in S
  PROVE  Nat \subseteq S
<1> DEFINE T == {n \in Nat : n \notin S}
<1> SUFFICES ASSUME T # {} PROVE FALSE
  OBVIOUS
<1>1. PICK x \in T : \A y \in T : ~(<<y, x>> \in OpToRel(<, Nat))
  BY NatLessThanWellFounded, WFMin, T \subseteq Nat
<1>2. x \in Nat /\ x # 0 /\ x - 1 \in Nat /\ x - 1 < x
  OBVIOUS
<1>3. x - 1 \in T
  BY <1>2
<1>4. <<x - 1, x>> \in OpToRel(<, Nat)
  BY <1>2 DEF OpToRel
<1> QED  BY <1>1, <1>3, <1>4

\* There is a function on 0..n that begins with a and goes on by g.
Goes(V, a, n, g) ==
  \E f \in [0..n -> V] : f[0] = a /\ \A k \in 1..n : f[k] = g[<<k, f[k - 1]>>]

\* Such a function exists: it is built up one value at a time.
LEMMA Recursion ==
  ASSUME NEW V, NEW a \in V, NEW n \in Nat, NEW g \in [(1..n) \X V -> V]
  PROVE  Goes(V, a, n, g)
<1> DEFINE S == {m \in Nat : \E f \in [0..n -> V] :
                   f[0] = a /\ \A k \in 1..n : k <= m => f[k] = g[<<k, f[k - 1]>>]}
<1>1. 0 \in S
  <2> DEFINE f == [k \in 0..n |-> a]
  <2>1. f \in [0..n -> V] /\ f[0] = a /\ \A k \in 1..n : k <= 0 => f[k] = g[<<k, f[k - 1]>>]
    OBVIOUS
  <2> QED  BY <2>1
<1>2. ASSUME NEW m \in Nat, m \in S PROVE m + 1 \in S
  <2>1. PICK f \in [0..n -> V] : f[0] = a /\ \A k \in 1..n : k <= m => f[k] = g[<<k, f[k - 1]>>]
    BY <1>2
  <2>2. CASE m + 1 > n
    <3>1. \A k \in 1..n : k <= m + 1 => k <= m
      BY <2>2
    <3> QED  BY <2>1, <3>1
  <2>3. CASE m + 1 <= n
    <3> DEFINE h == [f EXCEPT ![m + 1] = g[<<m + 1, f[m]>>]]
    <3>1. m \in 0..n /\ m + 1 \in 1..n /\ m + 1 \in 0..n /\ g[<<m + 1, f[m]>>] \in V
      BY <2>3
    <3>2. h \in [0..n -> V] /\ h[0] = a
      BY <2>1, <3>1
    <3>3. ASSUME NEW k \in 1..n, k <= m + 1 PROVE h[k] = g[<<k, h[k - 1]>>]
      <4>1. k - 1 \in 0..n /\ k \in 0..n /\ k - 1 # m + 1 /\ h[k - 1] = f[k - 1]
        BY <3>3
      <4>2. CASE k = m + 1
        BY <3>1, <4>1, <4>2
      <4>3. CASE k # m + 1
        <5>1. k <= m /\ h[k] = f[k]
          BY <3>3, <4>1, <4>3
        <5> QED  BY <2>1, <4>1, <5>1
      <4> QED  BY <4>2, <4>3
    <3> HIDE DEF h
    <3>4. \A k \in 1..n : k <= m + 1 => h[k] = g[<<k, h[k - 1]>>]
      BY <3>3
    <3> QED  BY <3>2, <3>4
  <2> QED  BY <2>2, <2>3
<1>3. n \in S
  <2> HIDE DEF S
  <2> QED  BY <1>1, <1>2, Induction
<1> QED  BY <1>3 DEF Goes

\* Among some numbers there is a least one.
LEMMA HasLeast ==
  ASSUME NEW S \in SUBSET Nat, S # {}
  PROVE  \E x \in S : \A y \in S : x =< y
<1>1. PICK x \in S : \A y \in S : ~(<<y, x>> \in OpToRel(<, Nat))
  BY NatLessThanWellFounded, WFMin
<1>2. ASSUME NEW y \in S PROVE x =< y
  <2>1. x \in Nat /\ y \in Nat
    OBVIOUS
  <2>2. y < x => <<y, x>> \in OpToRel(<, Nat)
    BY <2>1 DEF OpToRel
  <2>3. ~(y < x)
    BY <1>1, <2>2
  <2> QED  BY <2>1, <2>3
<1> QED  BY <1>2
=============================================================================
