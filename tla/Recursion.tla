----------------------------- MODULE Recursion -----------------------------
(***************************************************************************)
(* Definition by recursion up to a bound and induction up to a bound, with *)
(* sets and functions in place of operators: what the proofs about a loop  *)
(* over a queue need (ConnState's servicing pass, ServerDriver's retain,   *)
(* the frames of a datagram in ClientDriver), or along a list (the links   *)
(* of RateLimiter).                                                        *)
(***************************************************************************)
EXTENDS Integers, WellFoundedInduction, TLAPS

\* Every set of natural numbers that is not empty has a least element.
LEMMA LeastNat ==
  ASSUME NEW T, T \subseteq Nat, T # {}
  PROVE  \E m \in T : \A k \in T : m <= k
<1> DEFINE R == {ss \in Nat \X Nat : ss[1] < ss[2]}
<1>1. IsWellFoundedOn(R, Nat)
  BY NatLessThanWellFounded DEF OpToRel
<1> HIDE DEF R
<1>2. PICK x \in T : \A y \in T : ~ (<<y, x>> \in R)
  BY <1>1, WFMin
<1>3. ASSUME NEW k \in T PROVE x <= k
  <2>1. <<k, x>> \notin R
    BY <1>2
  <2> QED BY <2>1 DEF R
<1> QED BY <1>3

\* Induction up to a bound, over a set in place of a predicate.
LEMMA UpTo ==
  ASSUME NEW n \in Nat, NEW T, 0 \in T, \A k \in 0..n : k \in T /\ k < n => k + 1 \in T
  PROVE  0..n \subseteq T
<1> SUFFICES ASSUME (0..n) \ T # {} PROVE FALSE
  OBVIOUS
<1>1. PICK m \in (0..n) \ T : \A k \in (0..n) \ T : m <= k
  <2>1. (0..n) \ T \subseteq Nat
    OBVIOUS
  <2> QED BY <2>1, LeastNat
<1>2. m \in 0..n /\ m \notin T /\ m # 0
  BY <1>1
<1>3. m - 1 \in 0..n /\ m - 1 < n /\ ~(m <= m - 1) /\ (m - 1) + 1 = m
  BY <1>2
<1>4. m - 1 \in T
  BY <1>1, <1>3
<1> QED BY <1>2, <1>3, <1>4

\* f is v to begin with, then g of the index and the value before.
Iterates(V, v, n, g, f) ==
  f \in [0..n -> V] /\ f[0] = v /\ \A i \in 1..n : f[i] = g[<<i, f[i - 1]>>]

\* There is such a function, for every bound and every step.
LEMMA PrimRec ==
  ASSUME NEW V, NEW v \in V, NEW n \in Nat, NEW g \in [Nat \X V -> V]
  PROVE  \E f : Iterates(V, v, n, g, f)
<1> DEFINE Approx(k, f) == f \in [0..k -> V] /\ f[0] = v /\ \A i \in 1..k : f[i] = g[<<i, f[i - 1]>>]
           T == {k \in 0..n : \E f : Approx(k, f)}
<1>1. 0 \in T
  <2>1. Approx(0, [i \in 0..0 |-> v])
    OBVIOUS
  <2> HIDE DEF Approx
  <2> QED BY <2>1
<1>2. ASSUME NEW k \in 0..n, k \in T, k < n PROVE k + 1 \in T
  <2>1. PICK f : Approx(k, f)
    BY <1>2
  <2> DEFINE h == [i \in 0..(k + 1) |-> IF i = k + 1 THEN g[<<k + 1, f[k]>>] ELSE f[i]]
  <2>2. g[<<k + 1, f[k]>>] \in V
    <3>1. <<k + 1, f[k]>> \in Nat \X V
      BY <2>1
    <3> QED BY <3>1
  <2>3. h \in [0..(k + 1) -> V] /\ h[0] = v
    BY <2>1, <2>2
  <2>4. ASSUME NEW i \in 1..(k + 1) PROVE h[i] = g[<<i, h[i - 1]>>]
    <3>1. CASE i = k + 1
      <4>1. h[i] = g[<<k + 1, f[k]>>] /\ h[i - 1] = f[k] /\ i - 1 = k
        BY <3>1
      <4> QED BY <3>1, <4>1
    <3>2. CASE i # k + 1
      <4>1. i \in 1..k /\ i - 1 \in 0..k /\ h[i] = f[i] /\ h[i - 1] = f[i - 1]
        BY <3>2
      <4> QED BY <2>1, <4>1
    <3> QED BY <3>1, <3>2
  <2>5. Approx(k + 1, h)
    BY <2>3, <2>4
  <2>6. k + 1 \in 0..n
    BY <1>2
  <2> HIDE DEF Approx, h
  <2> QED BY <2>5, <2>6
<1> HIDE DEF T
<1>3. n \in T
  BY <1>1, <1>2, UpTo
<1>4. PICK f : Approx(n, f)
  BY <1>3 DEF T
<1> QED BY <1>4 DEF Iterates
=============================================================================
