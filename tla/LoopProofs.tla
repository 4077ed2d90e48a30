----------------------------- MODULE LoopProofs -----------------------------
(***************************************************************************)
(* What the proofs about loops need: a loop that is written as a recursive *)
(* function has values, and what every step of it keeps holds of them all. *)
(* Each is proved by its least counterexample.                             *)
(***************************************************************************)
EXTENDS Integers, WellFoundedInduction, TLAPS

(* A set of natural numbers that is not empty has a least one.              *)
LEMMA LeastNumber ==
    ASSUME NEW T \in SUBSET Nat, T # {}
    PROVE  \E n \in T : \A m \in T : n <= m
<1> DEFINE R == OpToRel(<, Nat)
<1>1. IsWellFoundedOn(R, Nat)
  BY NatLessThanWellFounded
<1>2. \A m, n \in Nat : m < n => <<m, n>> \in R
  BY DEF OpToRel
<1> HIDE DEF R
<1>3. \E n \in T : \A m \in T : ~ (<<m, n>> \in R)
  BY <1>1, WFMin
<1>4. PICK n \in T : \A m \in T : ~ (<<m, n>> \in R)
  BY <1>3
<1>5. ASSUME NEW m \in T PROVE n <= m
  <2>1. m \in Nat /\ n \in Nat
    OBVIOUS
  <2>2. ~ (m < n)
    BY <1>2, <1>4, <2>1, Zenon
  <2> QED BY <2>1, <2>2
<1> QED BY <1>5

-----------------------------------------------------------------------------
(* Loops written as recursive functions.                                    *)
IsLoop(f, m, a, step) == f = [i \in 0..m |-> IF i = 0 THEN a ELSE step[i][f[i - 1]]]

(* A loop of any length has values, each in the set its steps stay in.      *)
LEMMA LoopExists ==
    ASSUME NEW T, NEW a \in T, NEW step \in [Nat -> [T -> T]], NEW last \in Nat
    PROVE  \E f \in [0..last -> T] : IsLoop(f, last, a, step)
<1> DEFINE Bad == {m \in Nat : ~ \E f \in [0..m -> T] : IsLoop(f, m, a, step)}
<1> SUFFICES ASSUME Bad # {} PROVE FALSE
  OBVIOUS
<1>1. PICK m \in Bad : \A n \in Bad : m <= n
  <2>1. Bad \in SUBSET Nat
    OBVIOUS
  <2> HIDE DEF Bad
  <2> QED BY <2>1, LeastNumber
<1>2. CASE m = 0
  <2> DEFINE f == [i \in 0..0 |-> a]
  <2>1. f \in [0..0 -> T]
    OBVIOUS
  <2>2. f = [i \in 0..0 |-> IF i = 0 THEN a ELSE step[i][f[i - 1]]]
    <3>1. \A i \in 0..0 : i = 0
      OBVIOUS
    <3> QED BY <3>1
  <2> HIDE DEF f
  <2> QED BY <1>1, <1>2, <2>1, <2>2 DEF IsLoop
<1>3. CASE m # 0
  <2>1. m - 1 \in Nat /\ m - 1 \notin Bad /\ m \in Nat
    BY <1>1, <1>3
  <2>2. PICK f \in [0..m - 1 -> T] : IsLoop(f, m - 1, a, step)
    BY <2>1
  <2> DEFINE next == step[m][f[m - 1]]
             g == [i \in 0..m |-> IF i = m THEN next ELSE f[i]]
             h == [i \in 0..m |-> IF i = 0 THEN a ELSE step[i][g[i - 1]]]
  <2>3. next \in T
    <3>1. f[m - 1] \in T /\ step[m] \in [T -> T]
      BY <2>1
    <3> QED BY <3>1
  <2>4. g \in [0..m -> T]
    <3> HIDE DEF next
    <3>1. \A i \in 0..m : i # m => i \in 0..m - 1
      BY <2>1
    <3> QED BY <2>3, <3>1
  <2>5. ASSUME NEW i \in 0..m PROVE g[i] = h[i]
    <3>1. CASE i = m
      <4>1. g[m - 1] = f[m - 1]
        BY <2>1
      <4> QED BY <1>3, <3>1, <4>1
    <3>2. CASE i # m
      <4>1. i \in 0..m - 1
        BY <2>1, <3>2
      <4>2. f[i] = IF i = 0 THEN a ELSE step[i][f[i - 1]]
        BY <2>2, <4>1 DEF IsLoop
      <4>3. i # 0 => g[i - 1] = f[i - 1]
        BY <2>1, <4>1
      <4> QED BY <3>2, <4>2, <4>3
    <3> QED BY <3>1, <3>2
  <2>6. g = h
    <3>1. g = [i \in 0..m |-> g[i]] /\ h = [i \in 0..m |-> h[i]]
      OBVIOUS
    <3> HIDE DEF g, h
    <3> QED BY <2>5, <3>1
  <2>7. IsLoop(g, m, a, step)
    <3> HIDE DEF g
    <3> QED BY <2>6 DEF IsLoop
  <2> HIDE DEF g
  <2> QED BY <1>1, <2>4, <2>7
<1> QED BY <1>2, <1>3

(* What the first value is in and every step stays in, all values are in.   *)
LEMMA LoopStays ==
    ASSUME NEW last \in Nat, NEW T, NEW g, g[0] \in T,
           \A i \in 1..last : g[i - 1] \in T => g[i] \in T
    PROVE  \A i \in 0..last : g[i] \in T
<1> DEFINE Bad == {i \in 0..last : g[i] \notin T}
<1> SUFFICES ASSUME Bad # {} PROVE FALSE
  OBVIOUS
<1>1. PICK i \in Bad : \A n \in Bad : i <= n
  <2>1. Bad \in SUBSET Nat
    OBVIOUS
  <2> HIDE DEF Bad
  <2> QED BY <2>1, LeastNumber
<1>2. i \in 1..last /\ i - 1 \in 0..last /\ i - 1 \notin Bad
  BY <1>1
<1> QED BY <1>1, <1>2
=============================================================================
