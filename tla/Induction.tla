------------------------------ MODULE Induction ------------------------------
(***************************************************************************)
(* Induction over numbers in a form that can be cited: the property is a   *)
(* set and a recursion step is a function, so that no lemma here has an    *)
(* operator for a parameter.                                               *)
(***************************************************************************)
EXTENDS Integers, WellFoundedInduction, TLAPS

\* Every set of numbers with a member has a least one.
LEMMA LeastNumber ==
  ASSUME NEW T, T \subseteq Nat, T # {}
  PROVE  \E x \in T : \A y \in T : x <= y
  <1> DEFINE R == OpToRel(<, Nat)
  <1>1. IsWellFoundedOn(R, Nat)
    BY NatLessThanWellFounded
  <1> HIDE DEF R
  <1>2. PICK x \in T : \A y \in T : ~(<< y, x >> \in R)
    BY <1>1, WFMin
  <1>3. \A y \in T : ~(y < x)
    BY <1>2 DEF R, OpToRel
  <1> QED
    BY <1>3

\* Induction up to a bound: S holds 0, and with each number below n the next.
LEMMA InductionUpTo ==
  ASSUME NEW n \in Nat, NEW S, 0 \in S,
         \A i \in 0..(n - 1) : i \in S => i + 1 \in S
  PROVE  \A i \in 0..n : i \in S
  <1> DEFINE T == { i \in 0..n : i \notin S }
  <1> SUFFICES ASSUME T # {} PROVE FALSE
    OBVIOUS
  <1>1. PICK x \in T : \A y \in T : x <= y
    <2>1. T \subseteq Nat
      OBVIOUS
    <2> HIDE DEF T
    <2> QED
      BY <2>1, LeastNumber
  <1>2. x \in 1..n /\ x - 1 \in 0..(n - 1)
    BY <1>1
  <1>3. x - 1 \in S
    BY <1>1, <1>2
  <1> QED
    BY <1>1, <1>2, <1>3

\* f is computed in n steps: from b on, each value is made of the one before it
\* and its number.
Computed(f, n, V, b, step) ==
  /\ f \in [0..n -> V]
  /\ f[0] = b
  /\ \A i \in 1..n : f[i] = step[<< f[i - 1], i >>]

\* There is such a function, so a recursive definition is one.
LEMMA RecursionUpTo ==
  ASSUME NEW n \in Nat, NEW V, NEW b \in V, NEW step \in [V \X (1..n) -> V]
  PROVE  \E f : Computed(f, n, V, b, step)
  <1> DEFINE Good(m, f) == /\ f[0] = b
                           /\ \A i \in 1..m : f[i] = step[<< f[i - 1], i >>]
             S == { m \in 0..n : \E f \in [0..m -> V] : Good(m, f) }
  <1>1. 0 \in S
    <2> DEFINE f == [i \in 0..0 |-> b]
    <2>1. f \in [0..0 -> V] /\ Good(0, f)
      OBVIOUS
    <2> HIDE DEF Good, f
    <2> QED
      BY <2>1
  <1>2. ASSUME NEW m \in 0..(n - 1), m \in S
        PROVE  m + 1 \in S
    <2>1. PICK f \in [0..m -> V] : Good(m, f)
      BY <1>2
    <2> DEFINE v == step[<< f[m], m + 1 >>]
               g == [i \in 0..(m + 1) |-> IF i = m + 1 THEN v ELSE f[i]]
    <2>2. m + 1 \in 1..n /\ m \in 0..m
      OBVIOUS
    <2>3. v \in V
      BY <2>2
    <2>4. g \in [0..(m + 1) -> V]
      BY <2>3
    <2>5. g[0] = b
      BY <2>1
    <2>6. ASSUME NEW i \in 1..(m + 1)
          PROVE  g[i] = step[<< g[i - 1], i >>]
      <3>1. CASE i = m + 1
        <4>1. g[i] = v /\ i - 1 = m /\ g[m] = f[m]
          BY <3>1
        <4> HIDE DEF g
        <4> QED
          BY <3>1, <4>1
      <3>2. CASE i # m + 1
        BY <2>1, <3>2
      <3> QED
        BY <3>1, <3>2
    <2>7. Good(m + 1, g)
      BY <2>5, <2>6
    <2> HIDE DEF Good, g
    <2> QED
      BY <2>2, <2>4, <2>7
  <1>3. n \in S
    <2> HIDE DEF S
    <2>1. \A i \in 0..n : i \in S
      BY <1>1, <1>2, InductionUpTo
    <2> QED
      BY <2>1
  <1> QED
    BY <1>3 DEF Computed

\* One step of the computation.
LEMMA ComputedStep ==
  ASSUME NEW n \in Nat, NEW V, NEW b, NEW step, NEW f,
         Computed(f, n, V, b, step), NEW i \in 1..n
  PROVE  f[i - 1] \in V /\ f[i] \in V /\ f[i] = step[<< f[i - 1], i >>]
  <1>1. i \in 0..n /\ i - 1 \in 0..n
    OBVIOUS
  <1> QED
    BY <1>1 DEF Computed

\* A function that takes the same steps, while its values are in V, is the one
\* that is computed.
LEMMA ComputedByEquation ==
  ASSUME NEW n \in Nat, NEW V, NEW b \in V, NEW step \in [V \X (1..n) -> V],
         NEW f, f = [i \in 0..n |-> f[i]], f[0] = b,
         \A i \in 1..n : f[i - 1] \in V => f[i] = step[<< f[i - 1], i >>]
  PROVE  Computed(f, n, V, b, step)
  <1> DEFINE S == { i \in 0..n : f[i] \in V }
  <1>1. 0 \in S
    OBVIOUS
  <1>2. ASSUME NEW i \in 0..(n - 1), i \in S
        PROVE  i + 1 \in S
    <2>1. i + 1 \in 1..n /\ (i + 1) - 1 = i /\ f[i] \in V
      BY <1>2
    <2>2. f[i + 1] = step[<< f[i], i + 1 >>]
      BY <2>1
    <2> QED
      BY <2>1, <2>2
  <1>3. \A i \in 0..n : f[i] \in V
    <2> HIDE DEF S
    <2>1. \A i \in 0..n : i \in S
      BY <1>1, <1>2, InductionUpTo
    <2> QED
      BY <2>1 DEF S
  <1>4. f \in [0..n -> V]
    BY <1>3
  <1>5. ASSUME NEW i \in 1..n PROVE f[i] = step[<< f[i - 1], i >>]
    <2>1. i - 1 \in 0..n
      OBVIOUS
    <2> QED
      BY <1>3, <2>1
  <1> QED
    BY <1>4, <1>5 DEF Computed
=============================================================================
