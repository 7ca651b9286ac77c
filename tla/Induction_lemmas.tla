--------------------------- MODULE Induction_lemmas ---------------------------
(***************************************************************************)
(* Induction on the natural numbers, stated of a set of them, and what it  *)
(* gives for the recursive functions of the models.                        *)
(***************************************************************************)
EXTENDS Integers, WellFoundedInduction, TLAPS

(* A set that has 0, and n + 1 when it has n, has every natural number.    *)
LEMMA SetInduction ==
    ASSUME NEW S, 0 \in S, \A n \in Nat : n \in S => n + 1 \in S
    PROVE  Nat \subseteq S
<1> DEFINE T == Nat \ S
           R == OpToRel(<, Nat)
<1>1. SUFFICES ASSUME T # {} PROVE FALSE
  OBVIOUS
<1>2. IsWellFoundedOn(R, Nat)
  BY NatLessThanWellFounded, Zenon
<1>3. PICK x \in T : \A y \in T : <<y, x>> \notin R
  <2> HIDE DEF R
  <2>1. T \subseteq Nat
    OBVIOUS
  <2> HIDE DEF T
  <2>2. QED
    BY <1>1, <1>2, <2>1, WFMin
<1>4. x # 0 /\ x - 1 \in Nat
  OBVIOUS
<1>5. <<x - 1, x>> \in R
  BY <1>4 DEF OpToRel
<1>6. x - 1 \in S
  BY <1>3, <1>4, <1>5
<1>7. x \in S
  <2>1. (x - 1) + 1 \in S
    BY <1>4, <1>6
  <2>2. QED
    BY <2>1
<1>8. QED
  BY <1>7

(* Steps that are numbered from 1 to m, and the results of taking them.     *)
Steps(g, m, S) == g \in [1 .. m -> [S -> S]]
Results(f, g, m, S, s0) ==
    f \in [0 .. m -> S] /\ f[0] = s0 /\ \A k \in 1 .. m : f[k] = g[k][f[k - 1]]

(* Steps can be taken from anywhere: a function that is defined by          *)
(* recursion on what a loop has counted is one.                            *)
LEMMA Iteration ==
    ASSUME NEW m \in Nat, NEW S, NEW s0 \in S, NEW g, Steps(g, m, S)
    PROVE  \E f : Results(f, g, m, S, s0)
<1> DEFINE Upto(n) == \E f : Results(f, g, n, S, s0)
           N == {n \in Nat : n <= m => Upto(n)}
<1>1. 0 \in N
  <2> DEFINE f == [k \in 0 .. 0 |-> s0]
  <2>1. f \in [0 .. 0 -> S] /\ f[0] = s0 /\ \A k \in 1 .. 0 : f[k] = g[k][f[k - 1]]
    OBVIOUS
  <2> HIDE DEF f
  <2>2. QED
    BY <2>1 DEF Results
<1>2. ASSUME NEW n \in Nat, n \in N PROVE n + 1 \in N
  <2> SUFFICES ASSUME n + 1 <= m PROVE Upto(n + 1)
    OBVIOUS
  <2>1. PICK f : Results(f, g, n, S, s0)
    BY <1>2
  <2> DEFINE h == [k \in 0 .. n + 1 |-> IF k = n + 1 THEN g[n + 1][f[n]] ELSE f[k]]
  <2>2. f[n] \in S /\ n + 1 \in 1 .. m
    BY <2>1 DEF Results
  <2>3. g[n + 1][f[n]] \in S
    BY <2>2 DEF Steps
  <2>4. h \in [0 .. n + 1 -> S]
    BY <2>1, <2>3 DEF Results
  <2>5. h[0] = s0 /\ h[n + 1] = g[n + 1][f[n]] /\ \A k \in 0 .. n : h[k] = f[k]
    BY <2>1 DEF Results
  <2> HIDE DEF h
  <2>6. ASSUME NEW k \in 1 .. n + 1 PROVE h[k] = g[k][h[k - 1]]
    <3>1. CASE k = n + 1
      <4>1. k - 1 = n /\ n \in 0 .. n
        BY <3>1
      <4>2. QED
        BY <2>5, <3>1, <4>1
    <3>2. CASE k # n + 1
      <4>1. k \in 1 .. n /\ k \in 0 .. n /\ k - 1 \in 0 .. n
        BY <3>2
      <4>2. QED
        BY <2>1, <2>5, <4>1 DEF Results
    <3>3. QED
      BY <3>1, <3>2
  <2>7. Results(h, g, n + 1, S, s0)
    BY <2>4, <2>5, <2>6 DEF Results
  <2>8. QED
    BY <2>7
<1> HIDE DEF Upto
<1>3. Nat \subseteq N
  <2> HIDE DEF N
  <2>1. QED
    BY <1>1, <1>2, SetInduction
<1>4. QED
  BY <1>3 DEF Upto

(* A set of natural numbers that is not empty has a least one.             *)
LEMMA LeastElement ==
    ASSUME NEW S, S \in SUBSET Nat, S # {}
    PROVE  \E x \in S : \A y \in S : x <= y
<1> DEFINE R == OpToRel(<, Nat)
<1>1. IsWellFoundedOn(R, Nat)
  BY NatLessThanWellFounded, Zenon
<1>2. PICK x \in S : \A y \in S : <<y, x>> \notin R
  <2> HIDE DEF R
  <2>1. QED
    BY <1>1, WFMin
<1>3. ASSUME NEW y \in S PROVE x <= y
  <2>1. x \in Nat /\ y \in Nat
    OBVIOUS
  <2>2. y < x => <<y, x>> \in R
    BY <2>1 DEF OpToRel
  <2>3. <<y, x>> \notin R
    BY <1>2
  <2> HIDE DEF R
  <2>4. ~(y < x)
    BY <2>2, <2>3
  <2>5. QED
    BY <2>1, <2>4
<1>4. QED
  BY <1>3

(* What holds of 0, and of the next number up to m, holds up to m.         *)
LEMMA CountingUp ==
    ASSUME NEW m \in Nat, NEW S, 0 \in S, \A k \in 1 .. m : k - 1 \in S => k \in S
    PROVE  0 .. m \subseteq S
<1> DEFINE N == {k \in Nat : k <= m => k \in S}
<1>1. 0 \in N
  OBVIOUS
<1>2. ASSUME NEW k \in Nat, k \in N PROVE k + 1 \in N
  <2> SUFFICES ASSUME k + 1 <= m PROVE k + 1 \in S
    OBVIOUS
  <2>1. k \in S /\ k + 1 \in 1 .. m /\ (k + 1) - 1 = k
    BY <1>2
  <2>2. QED
    BY <2>1
<1>3. Nat \subseteq N
  <2> HIDE DEF N
  <2>1. QED
    BY <1>1, <1>2, SetInduction
<1>4. QED
  BY <1>3
=============================================================================
