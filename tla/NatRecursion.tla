---------------------------- MODULE NatRecursion ----------------------------
(***************************************************************************)
(* Recursive functions on the natural numbers are total: whatever a step   *)
(* computes from the value before, some function takes every step.  TLA+   *)
(* defines a recursive function by a CHOOSE, so this is what allows one to *)
(* reason about what it computes.                                          *)
(*                                                                         *)
(* A module instantiates Start and Step for a recursion of its own; the    *)
(* context is what that recursion depends on (a log, a cost function).     *)
(* Induction is over a set of numbers, which every prover can instantiate. *)
(***************************************************************************)
EXTENDS Integers, NaturalsInduction, WellFoundedInduction, TLAPS

CONSTANTS Start(_), Step(_, _, _)

\* What the recursion in context c gives at n, if f is what it gives before n.
At(c, f, n) == IF n = 0 THEN Start(c) ELSE Step(c, n, f[n - 1])

IsRecursion(c, f) == f = [n \in Nat |-> At(c, f, n)]

(* A set that holds 0 and, with a number, the next one holds all of them:  *)
(* the least number it lacks would have a predecessor that it holds.       *)
THEOREM Induction ==
    ASSUME NEW K, 0 \in K, \A n \in Nat : n \in K => n + 1 \in K
    PROVE  Nat \subseteq K
  <1> DEFINE R == OpToRel(<, Nat)
             T == Nat \ K
  <1>1. IsWellFoundedOn(R, Nat)
    BY NatLessThanWellFounded
  <1>2. \A y, x \in Nat : y < x => <<y, x>> \in R
    BY DEF OpToRel
  <1> HIDE DEF R
  <1>3. SUFFICES ASSUME T # {} PROVE FALSE
    OBVIOUS
  <1>4. PICK x \in T : \A y \in T : ~ (<<y, x>> \in R)
    BY <1>1, <1>3, WFMin
  <1>5. x \in Nat /\ x # 0 /\ x - 1 \in Nat /\ x - 1 < x /\ (x - 1) + 1 = x
    BY <1>4
  <1>6. x - 1 \in T
    BY <1>4, <1>5
  <1> QED
    BY <1>2, <1>4, <1>5, <1>6

\* f is right up to n.
Begins(c, f, n) == \A i \in 0..n : f[i] = At(c, f, i)

\* Every beginning can be continued by one step.
LEMMA BeginningExists ==
    ASSUME NEW c, NEW n \in Nat
    PROVE  \E f : Begins(c, f, n)
  <1> DEFINE K == {m \in Nat : \E f : Begins(c, f, m)}
  <1>1. 0 \in K
    <2>1. Begins(c, [i \in 0..0 |-> Start(c)], 0)
      BY DEF Begins, At
    <2> QED
      BY <2>1
  <1>2. ASSUME NEW m \in Nat, m \in K PROVE m + 1 \in K
    <2>1. PICK f : Begins(c, f, m)
      BY <1>2
    <2> DEFINE next == Step(c, m + 1, f[m])
               g    == [i \in 0..(m + 1) |-> IF i = m + 1 THEN next ELSE f[i]]
    <2>2. g[m + 1] = next /\ \A i \in 0..m : g[i] = f[i]
      OBVIOUS
    <2> HIDE DEF g
    <2>3. ASSUME NEW i \in 0..(m + 1) PROVE g[i] = At(c, g, i)
      <3>1. CASE i = 0
        <4>1. 0 \in 0..m /\ f[0] = Start(c)
          BY <2>1 DEF Begins, At
        <4> QED
          BY <2>2, <3>1, <4>1 DEF At
      <3>2. CASE i \in 1..m
        <4>1. i \in 0..m /\ i - 1 \in 0..m /\ i # 0
          BY <3>2
        <4>2. f[i] = Step(c, i, f[i - 1])
          BY <2>1, <4>1 DEF Begins, At
        <4> QED
          BY <2>2, <4>1, <4>2 DEF At
      <3>3. CASE i = m + 1
        <4>1. i # 0 /\ i - 1 = m /\ m \in 0..m
          BY <3>3
        <4>2. g[m] = f[m]
          BY <2>2, <4>1
        <4> QED
          BY <2>2, <3>3, <4>1, <4>2 DEF At
      <3> QED
        BY <3>1, <3>2, <3>3
    <2>4. Begins(c, g, m + 1)
      BY <2>3 DEF Begins
    <2> QED
      BY <2>4
  <1> HIDE DEF K
  <1>3. Nat \subseteq K
    BY <1>1, <1>2, Induction
  <1> QED
    BY <1>3 DEF K

\* Two beginnings agree where both are defined.
LEMMA BeginningUnique ==
    ASSUME NEW c, NEW n \in Nat, NEW m \in Nat,
           NEW f, Begins(c, f, n), NEW g, Begins(c, g, m),
           NEW i \in Nat, i <= n, i <= m
    PROVE  f[i] = g[i]
  <1> DEFINE K == {j \in Nat : j <= n /\ j <= m => f[j] = g[j]}
  <1>1. 0 \in K
    BY DEF Begins, At
  <1>2. ASSUME NEW j \in Nat, j \in K PROVE j + 1 \in K
    <2>1. SUFFICES ASSUME j + 1 <= n, j + 1 <= m PROVE f[j + 1] = g[j + 1]
      OBVIOUS
    <2>2. /\ j + 1 \in 0..n /\ j + 1 \in 0..m /\ f[j] = g[j]
          /\ j + 1 # 0 /\ (j + 1) - 1 = j
      BY <1>2, <2>1
    <2>3. f[j + 1] = Step(c, j + 1, f[j]) /\ g[j + 1] = Step(c, j + 1, g[j])
      BY <2>2 DEF Begins, At
    <2> QED
      BY <2>2, <2>3
  <1> HIDE DEF K
  <1>3. Nat \subseteq K
    BY <1>1, <1>2, Induction
  <1> QED
    BY <1>3 DEF K

(* The recursion has a solution: at n, the n-th value of a beginning that  *)
(* reaches n.                                                              *)
THEOREM RecursionExists == ASSUME NEW c PROVE \E f : IsRecursion(c, f)
  <1> DEFINE F(n) == CHOOSE f : Begins(c, f, n)
             g    == [n \in Nat |-> F(n)[n]]
  <1>1. \A n \in Nat : Begins(c, F(n), n)
    BY BeginningExists
  <1> HIDE DEF F
  <1>2. ASSUME NEW n \in Nat PROVE g[n] = At(c, g, n)
    <2>1. F(n)[n] = At(c, F(n), n)
      BY <1>1 DEF Begins
    <2>2. CASE n = 0
      BY <2>1, <2>2 DEF At
    <2>3. CASE n # 0
      <3>1. n - 1 \in Nat /\ n - 1 <= n /\ n - 1 <= n - 1
        BY <2>3
      <3>2. F(n)[n - 1] = F(n - 1)[n - 1]
        BY <1>1, <3>1, BeginningUnique
      <3>3. g[n] = F(n)[n] /\ g[n - 1] = F(n - 1)[n - 1]
        BY <3>1
      <3> HIDE DEF g
      <3> QED
        BY <2>1, <2>3, <3>2, <3>3 DEF At
    <2> QED
      BY <2>2, <2>3
  <1>3. g = [n \in Nat |-> g[n]]
    OBVIOUS
  <1> HIDE DEF g
  <1>4. IsRecursion(c, g)
    BY <1>2, <1>3 DEF IsRecursion
  <1> QED
    BY <1>4

(* What a recursion computes, one step at a time.                          *)
THEOREM RecursionSteps ==
    ASSUME NEW c, NEW f, IsRecursion(c, f)
    PROVE  f[0] = Start(c) /\ \A n \in Nat : f[n + 1] = Step(c, n + 1, f[n])
  <1>1. ASSUME NEW n \in Nat PROVE f[n + 1] = Step(c, n + 1, f[n])
    <2>1. n + 1 \in Nat /\ n + 1 # 0 /\ (n + 1) - 1 = n
      OBVIOUS
    <2>2. f[n + 1] = At(c, f, n + 1)
      BY <2>1 DEF IsRecursion
    <2> QED
      BY <2>1, <2>2 DEF At
  <1>2. f[0] = Start(c)
    BY DEF IsRecursion, At
  <1> QED
    BY <1>1, <1>2

\* Two contexts that the steps up to m do not tell apart.
SameSteps(c, d, m) ==
    Start(c) = Start(d) /\ \A n \in 1..m : \A before : Step(c, n, before) = Step(d, n, before)

(* Recursions that start alike and take the same steps up to m agree there. *)
THEOREM RecursionsAgree ==
    ASSUME NEW c, NEW d, NEW f, IsRecursion(c, f), NEW g, IsRecursion(d, g),
           NEW m \in Nat, SameSteps(c, d, m)
    PROVE  f[m] = g[m]
  <1> DEFINE K == {n \in Nat : n <= m => f[n] = g[n]}
  <1>1. 0 \in K
    BY RecursionSteps DEF SameSteps
  <1>2. ASSUME NEW n \in Nat, n \in K PROVE n + 1 \in K
    <2>1. SUFFICES ASSUME n + 1 <= m PROVE f[n + 1] = g[n + 1]
      OBVIOUS
    <2>2. n + 1 \in 1..m /\ f[n] = g[n]
      BY <1>2, <2>1
    <2>3. f[n + 1] = Step(c, n + 1, f[n]) /\ g[n + 1] = Step(d, n + 1, g[n])
      BY RecursionSteps
    <2> QED
      BY <2>2, <2>3 DEF SameSteps
  <1> HIDE DEF K
  <1>3. Nat \subseteq K
    BY <1>1, <1>2, Induction
  <1> QED
    BY <1>3 DEF K
=============================================================================
