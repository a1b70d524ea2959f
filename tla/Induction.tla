------------------------------ MODULE Induction ------------------------------
(***************************************************************************)
(* Induction over the natural numbers, said of sets: what the proofs about *)
(* recursive functions over sequences and frames rest on.                  *)
(***************************************************************************)
EXTENDS Integers, WellFoundedInduction, TLAPS

Below == {p \in Nat \X Nat : p[1] < p[2]}

LEMMA BelowWellFounded == IsWellFoundedOn(Below, Nat)
BY NatLessThanWellFounded DEF Below, OpToRel

\* A set of numbers that has 0 and, with each of its members, the next one,
\* has them all: the least number it lacked could be neither 0 nor a successor.
LEMMA SetInduction ==
  ASSUME NEW S, 0 \in S, \A n \in S : n \in Nat => n + 1 \in S
  PROVE  Nat \subseteq S
<1> DEFINE T == Nat \ S
<1>1. CASE T # {}
  <2>1. PICK x \in T : \A y \in T : ~(<<y, x>> \in Below)
    BY <1>1, BelowWellFounded, WFMin
  <2>2. x - 1 \in Nat /\ <<x - 1, x>> \in Below
    BY <2>1 DEF Below
  <2>3. x - 1 \in S
    BY <2>1, <2>2
  <2>4. (x - 1) + 1 \in S
    BY <2>2, <2>3
  <2> QED  BY <2>1, <2>2, <2>4
<1> QED  BY <1>1
-----------------------------------------------------------------------------
(* Functions that are defined by recursion over 0..m.                      *)

Recurs(f, a, G, m) == f = [n \in 0..m |-> IF n = 0 THEN a ELSE G[<<n, f[n - 1]>>]]

\* There is one, whatever the step G, and its values are where the step's are.
LEMMA RecursionExists ==
  ASSUME NEW V, NEW a \in V, NEW G \in [Nat \X V -> V]
  PROVE  \A m \in Nat : \E f \in [0..m -> V] : Recurs(f, a, G, m)
<1> DEFINE S == {m \in Nat : \E f \in [0..m -> V] : Recurs(f, a, G, m)}
<1>1. 0 \in S
  <2> DEFINE f == [n \in 0..0 |-> a]
  <2>1. f \in [0..0 -> V] /\ Recurs(f, a, G, 0)
    BY DEF Recurs
  <2> QED  BY <2>1
<1>2. ASSUME NEW m \in S, m \in Nat PROVE m + 1 \in S
  <2>1. PICK f \in [0..m -> V] : Recurs(f, a, G, m)
    OBVIOUS
  <2> DEFINE g == [n \in 0..(m + 1) |-> IF n = 0 THEN a ELSE G[<<n, f[n - 1]>>]]
  <2>2. m \in Nat /\ 0..m \subseteq 0..(m + 1)
    BY <1>2
  <2>3. \A n \in 0..(m + 1) : n # 0 => n - 1 \in 0..m /\ n \in Nat
    BY <2>2
  <2>4. g \in [0..(m + 1) -> V]
    BY <2>1, <2>3
  <2>5. \A n \in 0..m : g[n] = f[n]
    <3>1. \A n \in 0..m : f[n] = IF n = 0 THEN a ELSE G[<<n, f[n - 1]>>]
      BY <2>1 DEF Recurs
    <3> QED  BY <2>2, <3>1
  <2>6. Recurs(g, a, G, m + 1)
    BY <2>3, <2>5 DEF Recurs
  <2> HIDE DEF g
  <2> QED  BY <2>2, <2>4, <2>6
<1> HIDE DEF S
<1>3. Nat \subseteq S
  BY <1>1, <1>2, SetInduction
<1> QED  BY <1>3 DEF S
=============================================================================
