------------------------------ MODULE Induction ------------------------------
(***************************************************************************)
(* Induction and recursion over the natural numbers, with sets in the      *)
(* place of predicates: the least-number principle of a well-founded       *)
(* relation gives both.  The other proof modules use them to reason about  *)
(* the recursive functions of the model.                                   *)
(***************************************************************************)
EXTENDS Integers, WellFoundedInduction, TLAPS

(* A set of natural numbers that is not empty has a least element.         *)
LEMMA LeastElement ==
    ASSUME NEW T, T \subseteq Nat, T # {}
    PROVE  \E x \in T : \A y \in T : x <= y
<1> DEFINE Less == {p \in Nat \X Nat : p[1] < p[2]}
<1>1. IsWellFoundedOn(Less, Nat)
  BY NatLessThanWellFounded DEF OpToRel
<1>2. \E x \in T : \A y \in T : <<y, x>> \notin Less
  <2> HIDE DEF Less
  <2> QED BY <1>1, WFMin
<1>3. \A x, y \in Nat : <<y, x>> \notin Less => x <= y
  <2>1. \A x, y \in Nat : y < x => <<y, x>> \in Less
    OBVIOUS
  <2> HIDE DEF Less
  <2> QED BY <2>1
<1> HIDE DEF Less
<1> QED BY <1>2, <1>3

(* A set that holds zero, and with a number the next one, holds them all.  *)
THEOREM Induction ==
    ASSUME NEW S, 0 \in S, \A n \in Nat : n \in S => n + 1 \in S
    PROVE  \A n \in Nat : n \in S
<1> SUFFICES ASSUME Nat \ S # {} PROVE FALSE
  OBVIOUS
<1>1. PICK x \in Nat \ S : \A y \in Nat \ S : x <= y
  BY LeastElement
<1>2. x # 0 /\ x - 1 \in Nat /\ x - 1 \notin Nat \ S
  BY <1>1
<1> QED
  BY <1>1, <1>2

(* The same for the numbers up to a bound.                                 *)
THEOREM InductionUpTo ==
    ASSUME NEW n \in Nat, NEW S, 0 \in S,
           \A i \in 0..n : (i < n /\ i \in S) => i + 1 \in S
    PROVE  \A i \in 0..n : i \in S
<1> DEFINE T == S \cup {i \in Nat : i > n}
<1>1. 0 \in T
  OBVIOUS
<1>2. \A i \in Nat : i \in T => i + 1 \in T
  <2> SUFFICES ASSUME NEW i \in Nat, i \in T PROVE i + 1 \in T
    OBVIOUS
  <2>1. CASE i < n
    BY <2>1
  <2>2. CASE i >= n
    BY <2>2
  <2> QED BY <2>1, <2>2
<1>3. \A i \in Nat : i \in T
  <2> HIDE DEF T
  <2> QED BY <1>1, <1>2, Induction
<1> QED BY <1>3

(* A function that starts with a value and goes on with a step.            *)
Unfolds(f, D, a, step, n) ==
    /\ f \in [0..n -> D]
    /\ f[0] = a
    /\ \A i \in 1..n : f[i] = step[<<i, f[i - 1]>>]

(* A value and a step that stays in a set define such a function up to any *)
(* bound: what the recursive functions of the model rely on.               *)
THEOREM Recursion ==
    ASSUME NEW D, NEW a, a \in D, NEW step, step \in [Nat \X D -> D], NEW n, n \in Nat
    PROVE  \E f : Unfolds(f, D, a, step, n)
<1> DEFINE S == {m \in Nat : \E f : Unfolds(f, D, a, step, m)}
<1>1. 0 \in S
  <2> DEFINE f == [i \in 0..0 |-> a]
  <2>1. Unfolds(f, D, a, step, 0)
    BY DEF Unfolds
  <2> QED BY <2>1
<1>2. \A m \in Nat : m \in S => m + 1 \in S
  <2> SUFFICES ASSUME NEW m \in Nat, NEW f, Unfolds(f, D, a, step, m)
               PROVE  \E g : Unfolds(g, D, a, step, m + 1)
    OBVIOUS
  <2> USE DEF Unfolds
  <2> DEFINE g == [i \in 0..m + 1 |-> IF i <= m THEN f[i] ELSE step[<<m + 1, f[m]>>]]
  <2>1. step[<<m + 1, f[m]>>] \in D
    OBVIOUS
  <2>2. g \in [0..m + 1 -> D]
    BY <2>1
  <2>3. \A i \in 0..m : g[i] = f[i]
    OBVIOUS
  <2>4. g[m + 1] = step[<<m + 1, f[m]>>]
    OBVIOUS
  <2> HIDE DEF g
  <2>5. g[0] = a
    BY <2>3
  <2>6. ASSUME NEW i \in 1..m + 1 PROVE g[i] = step[<<i, g[i - 1]>>]
    <3>1. CASE i <= m
      <4>1. i \in 1..m /\ i \in 0..m /\ i - 1 \in 0..m
        BY <3>1
      <4> QED BY <4>1, <2>3
    <3>2. CASE i = m + 1
      BY <3>2, <2>3, <2>4
    <3> QED BY <3>1, <3>2
  <2> QED BY <2>2, <2>5, <2>6
<1>3. n \in S
  <2> HIDE DEF S
  <2> QED BY <1>1, <1>2, Induction
<1> QED BY <1>3
=============================================================================
