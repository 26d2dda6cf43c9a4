------------------------------ MODULE Induction ------------------------------
(***************************************************************************)
(* Induction and recursion over the natural numbers in terms of sets and   *)
(* functions: what the proofs about queues, tables and searches need to    *)
(* reason about recursive functions.                                       *)
(***************************************************************************)
EXTENDS Naturals, WellFoundedInduction, TLAPS

\* Every non-empty set of natural numbers has a least element.
LEMMA LeastNatural ==
  ASSUME NEW S \in SUBSET Nat, S # {}
  PROVE  \E x \in S : \A y \in S : x <= y
<1> DEFINE R == OpToRel(<, Nat)
<1>1. IsWellFoundedOn(R, Nat)
  BY NatLessThanWellFounded
<1>2. R = {ss \in Nat \X Nat : ss[1] < ss[2]}
  BY DEF OpToRel
<1> HIDE DEF R
<1>3. PICK x \in S : \A y \in S : ~ (<<y, x>> \in R)
  BY <1>1, WFMin
<1>4. ASSUME NEW y \in S, y < x
      PROVE  FALSE
  <2>1. <<y, x>> \in R
    BY <1>2, <1>4
  <2> QED
    BY <1>3, <2>1
<1> QED
  BY <1>4

\* A set that holds 0, and the successor of each of its elements, holds every number.
LEMMA SetInduction ==
  ASSUME NEW S, 0 \in S, \A n \in Nat : n \in S => n + 1 \in S
  PROVE  Nat \subseteq S
<1> SUFFICES ASSUME Nat \ S # {}
             PROVE  FALSE
  OBVIOUS
<1>1. PICK x \in Nat \ S : \A y \in Nat \ S : x <= y
  BY LeastNatural
<1>2. x # 0 /\ x - 1 \in Nat
  BY <1>1
<1> QED
  BY <1>1, <1>2

\* The same up to a bound.
LEMMA BoundedInduction ==
  ASSUME NEW N \in Nat, NEW S, 0 \in S, \A n \in 0 .. N - 1 : n \in S => n + 1 \in S
  PROVE  0 .. N \subseteq S
<1> DEFINE T == {n \in Nat : n <= N => n \in S}
<1>1. 0 \in T /\ \A n \in Nat : n \in T => n + 1 \in T
  OBVIOUS
<1> HIDE DEF T
<1>2. Nat \subseteq T
  BY <1>1, SetInduction
<1> QED
  BY <1>2 DEF T

\* What a recursive function does with its value at n - 1 to get its value at n.
Steps(N, B) == [1 .. N -> [B -> B]]

IsRun(f, N, B, b, g) ==
  f \in [0 .. N -> B] /\ f[0] = b /\ \A n \in 1 .. N : f[n] = g[n][f[n - 1]]

\* A function is defined by its value at 0 and its steps.  (Steps and IsRun are operators so
\* that the lemma is cited with the sets and functions of the place where it is used.)
LEMMA RecursionExists ==
  ASSUME NEW N \in Nat, NEW B, NEW b \in B, NEW g \in Steps(N, B)
  PROVE  \E f : IsRun(f, N, B, b, g)
<1> DEFINE Upto(k, f) == f[0] = b /\ \A n \in 1 .. k : f[n] = g[n][f[n - 1]]
           S == {k \in 0 .. N : \E f \in [0 .. k -> B] : Upto(k, f)}
<1>0. g \in [1 .. N -> [B -> B]]
  BY DEF Steps
<1>1. 0 \in S
  <2> DEFINE h == [n \in 0 .. 0 |-> b]
  <2>1. h \in [0 .. 0 -> B] /\ Upto(0, h)
    OBVIOUS
  <2> HIDE DEF h, Upto
  <2>2. \E f \in [0 .. 0 -> B] : Upto(0, f)
    BY <2>1
  <2> QED
    BY <2>2
<1>2. ASSUME NEW k \in 0 .. N - 1, k \in S
      PROVE  k + 1 \in S
  <2>1. PICK f \in [0 .. k -> B] : Upto(k, f)
    BY <1>2
  <2> DEFINE h == [n \in 0 .. k + 1 |-> IF n = k + 1 THEN g[k + 1][f[k]] ELSE f[n]]
  <2>2. g[k + 1][f[k]] \in B
    BY <1>0
  <2>3. h \in [0 .. k + 1 -> B]
    BY <2>2
  <2>4. Upto(k + 1, h)
    BY <2>1
  <2> HIDE DEF h, Upto
  <2>5. \E e \in [0 .. k + 1 -> B] : Upto(k + 1, e)
    BY <2>3, <2>4
  <2> QED
    BY <2>5
<1> HIDE DEF S
<1>3. 0 .. N \subseteq S
  BY <1>1, <1>2, BoundedInduction
<1>4. N \in S
  BY <1>3
<1> QED
  BY <1>4 DEF S, IsRun

=============================================================================
