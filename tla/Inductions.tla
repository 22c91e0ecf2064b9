----------------------------- MODULE Inductions -----------------------------
(***************************************************************************)
(* Induction over numbers and recursive functions, in a form without       *)
(* operators as parameters: a set stands for what holds, a function for    *)
(* the step.  They rest on the natural numbers being well-founded.         *)
(***************************************************************************)
EXTENDS Integers, NaturalsInduction, WellFoundedInduction, TLAPS

\* A set of natural numbers has a least element.
LEMMA LeastNat ==
  ASSUME NEW T, T \subseteq Nat, T # {}
  PROVE  \E x \in T : \A y \in T : x <= y
<1> DEFINE R == {ss \in Nat \X Nat : ss[1] < ss[2]}
<1>1. IsWellFoundedOn(R, Nat)
  BY NatLessThanWellFounded DEF OpToRel
<1>2. PICK x \in T : \A y \in T : ~ (<<y, x>> \in R)
  BY <1>1, WFMin
<1>3. \A y \in T : ~ (y < x)
  BY <1>2
<1> QED BY <1>2, <1>3

\* Induction up to n.
LEMMA UpTo ==
  ASSUME NEW n \in Nat, NEW S, 0 \in S, \A k \in 1..n : k - 1 \in S => k \in S
  PROVE  \A k \in 0..n : k \in S
<1> DEFINE T == {k \in 0..n : k \notin S}
<1> SUFFICES ASSUME T # {} PROVE FALSE
  OBVIOUS
<1>1. PICK k \in T : \A j \in T : k <= j
  <2>1. T \subseteq Nat
    OBVIOUS
  <2> QED BY <2>1, LeastNat
<1>2. k \in 1..n /\ k - 1 \in 0..n /\ ~ (k <= k - 1)
  BY <1>1
<1>3. k - 1 \notin T
  BY <1>1, <1>2
<1> QED BY <1>1, <1>2, <1>3

\* There is a function that begins with b and goes on by step.
StepsIn(n, D, step) == \A k \in 1..n, d \in D : step[k][d] \in D
Recurs(f, n, D, b, step) == f \in [0..n -> D] /\ f[0] = b /\ \A k \in 1..n : f[k] = step[k][f[k - 1]]

LEMMA Recursive ==
  ASSUME NEW n \in Nat, NEW D, NEW b \in D, NEW step, StepsIn(n, D, step)
  PROVE  \E f : Recurs(f, n, D, b, step)
<1> USE DEF StepsIn, Recurs
<1> DEFINE Is(j, f) == Recurs(f, j, D, b, step)
           S == {j \in 0..n : \E f : Is(j, f)}
<1>1. 0 \in S
  <2>1. Is(0, [k \in 0..0 |-> b])
    OBVIOUS
  <2> HIDE DEF Is
  <2>2. \E f : Is(0, f)
    BY <2>1
  <2> QED BY <2>2
<1>2. ASSUME NEW j \in 1..n, j - 1 \in S PROVE j \in S
  <2>1. PICK f : Is(j - 1, f)
    BY <1>2
  <2> DEFINE g == [k \in 0..j |-> IF k = j THEN step[j][f[j - 1]] ELSE f[k]]
  <2>2. g \in [0..j -> D]
    <3>1. f[j - 1] \in D
      BY <2>1
    <3>2. step[j][f[j - 1]] \in D
      BY <3>1
    <3>3. ASSUME NEW k \in 0..j, k # j PROVE f[k] \in D
      BY <2>1, <3>3
    <3> QED BY <3>2, <3>3
  <2>3. g[0] = b
    BY <2>1
  <2>4. ASSUME NEW k \in 1..j PROVE g[k] = step[k][g[k - 1]]
    <3>1. g[k - 1] = f[k - 1]
      OBVIOUS
    <3>2. CASE k = j
      <4>1. g[j] = step[j][f[j - 1]]
        OBVIOUS
      <4> HIDE DEF g
      <4> QED BY <3>1, <3>2, <4>1
    <3>3. CASE k # j
      <4>1. k \in 1..(j - 1) /\ g[k] = f[k]
        BY <3>3
      <4> QED BY <2>1, <3>1, <4>1
    <3> QED BY <3>2, <3>3
  <2>5. Is(j, g)
    BY <2>2, <2>3, <2>4
  <2> HIDE DEF Is
  <2>6. \E h : Is(j, h)
    BY <2>5
  <2> QED BY <2>6
<1> HIDE DEF S
<1>3. n \in S
  BY <1>1, <1>2, UpTo
<1> QED BY <1>3 DEF S
=============================================================================
