----------------------------- MODULE Inductions -----------------------------
(***************************************************************************)
(* Induction over numbers and what it gives: functions defined by          *)
(* recursion.  The provers cannot instantiate an operator parameter, so    *)
(* the statements are about sets and functions: a set of numbers instead   *)
(* of a predicate, a function of a step and a value instead of the body of *)
(* a recursive definition.                                                 *)
(***************************************************************************)
EXTENDS Integers, Sequences, WellFoundedInduction, TLAPS

Smaller == {p \in Nat \X Nat : p[1] < p[2]}

LEMMA SmallerWellFounded == IsWellFoundedOn(Smaller, Nat)
<1>1. Smaller = OpToRel(<, Nat)
  BY Zenon DEF Smaller, OpToRel
<1>2. QED BY <1>1, NatLessThanWellFounded, Zenon

\* Every set of numbers that is not empty has a least one.
LEMMA LeastNumber ==
  ASSUME NEW T \in SUBSET Nat, T # {}
  PROVE  \E x \in T : \A y \in T : x <= y
<1>1. PICK x \in T : \A y \in T : ~ (<<y, x>> \in Smaller)
  BY SmallerWellFounded, WFMin, Zenon
<1>2. ASSUME NEW y \in T PROVE x <= y
  <2>1. <<y, x>> \notin Smaller
    BY <1>1
  <2>2. x \in Nat /\ y \in Nat
    OBVIOUS
  <2>3. ~ (y < x)
    BY <2>1, <2>2 DEF Smaller
  <2>4. QED BY <2>2, <2>3
<1>3. QED BY <1>2

\* A set that holds 0, and with a number its successor, holds all of them.
LEMMA SetInduction ==
  ASSUME NEW S, 0 \in S, \A n \in Nat : n \in S => n + 1 \in S
  PROVE  \A n \in Nat : n \in S
<1> DEFINE T == Nat \ S
<1>1. SUFFICES ASSUME T # {} PROVE FALSE
  OBVIOUS
<1>2. PICK x \in T : \A y \in T : x <= y
  BY <1>1, LeastNumber
<1>3. x # 0 /\ x \in Nat
  BY <1>2
<1>4. x - 1 \in Nat /\ x - 1 \in S
  BY <1>2, <1>3
<1>5. x \in S
  BY <1>3, <1>4
<1>6. QED BY <1>5

\* f runs through the values that F gives, from b: F takes the number of a step and a value.
RunsOf(F, b, n, f) ==
  f = [i \in 0 .. n |-> IF i = 0 THEN b ELSE F[<<i, f[i - 1]>>]]

\* There is such an f, ...
LEMMA RunExists ==
  ASSUME NEW F, NEW b, NEW n \in Nat
  PROVE  \E f : RunsOf(F, b, n, f)
<1> DEFINE S == {m \in Nat : \E f : RunsOf(F, b, m, f)}
<1>1. 0 \in S
  <2> DEFINE f == [i \in 0 .. 0 |-> b]
  <2>1. f = [i \in 0 .. 0 |-> IF i = 0 THEN b ELSE F[<<i, f[i - 1]>>]]
    OBVIOUS
  <2>2. QED BY <2>1, Zenon DEF RunsOf
<1>2. ASSUME NEW m \in Nat, m \in S PROVE m + 1 \in S
  <2>1. PICK f : RunsOf(F, b, m, f)
    BY <1>2
  <2> DEFINE g == [i \in 0 .. m + 1 |-> IF i = m + 1 THEN F[<<m + 1, f[m]>>] ELSE f[i]]
  <2>2. ASSUME NEW i \in 0 .. m + 1
        PROVE  g[i] = IF i = 0 THEN b ELSE F[<<i, g[i - 1]>>]
    <3>1. f = [j \in 0 .. m |-> IF j = 0 THEN b ELSE F[<<j, f[j - 1]>>]]
      BY <2>1 DEF RunsOf
    <3>2. CASE i = m + 1
      <4>1. i # 0 /\ i - 1 = m /\ m \in 0 .. m + 1 /\ m # m + 1
        BY <3>2
      <4>2. g[i] = F[<<m + 1, f[m]>>] /\ g[m] = f[m]
        BY <3>2, <4>1
      <4>3. QED BY <3>2, <4>1, <4>2
    <3>3. CASE i # m + 1 /\ i # 0
      <4>1. i \in 0 .. m /\ i - 1 \in 0 .. m + 1 /\ i - 1 # m + 1
        BY <3>3
      <4>2. g[i] = f[i] /\ g[i - 1] = f[i - 1]
        BY <3>3, <4>1
      <4>3. f[i] = F[<<i, f[i - 1]>>]
        BY <3>1, <3>3, <4>1
      <4>4. QED BY <3>3, <4>2, <4>3
    <3>4. CASE i # m + 1 /\ i = 0
      <4>1. 0 \in 0 .. m /\ 0 \in 0 .. m + 1
        OBVIOUS
      <4>2. QED BY <3>1, <3>4, <4>1
    <3>5. QED BY <3>2, <3>3, <3>4
  <2> HIDE DEF g
  <2>3. g = [i \in 0 .. m + 1 |-> g[i]]
    BY DEF g
  <2>4. g = [i \in 0 .. m + 1 |-> IF i = 0 THEN b ELSE F[<<i, g[i - 1]>>]]
    BY <2>2, <2>3, Zenon
  <2>5. RunsOf(F, b, m + 1, g)
    BY <2>4, Zenon DEF RunsOf
  <2>6. QED BY <2>5
<1>3. \A m \in Nat : m \in S
  <2> HIDE DEF S
  <2>1. QED BY <1>1, <1>2, SetInduction
<1>4. QED BY <1>3

\* ... and any two agree wherever both are defined.
LEMMA RunUnique ==
  ASSUME NEW F, NEW b, NEW n \in Nat, NEW f, RunsOf(F, b, n, f),
         NEW m \in Nat, NEW g, RunsOf(F, b, m, g),
         NEW i \in Nat, i <= n, i <= m
  PROVE  f[i] = g[i]
<1> DEFINE S == {k \in Nat : k <= n /\ k <= m => f[k] = g[k]}
<1>0. \A k \in 0 .. n : f[k] = IF k = 0 THEN b ELSE F[<<k, f[k - 1]>>]
  BY Zenon DEF RunsOf
<1>1. \A k \in 0 .. m : g[k] = IF k = 0 THEN b ELSE F[<<k, g[k - 1]>>]
  BY Zenon DEF RunsOf
<1>2. 0 \in S
  <2>1. 0 \in 0 .. n /\ 0 \in 0 .. m
    OBVIOUS
  <2>2. QED BY <1>0, <1>1, <2>1
<1>3. ASSUME NEW k \in Nat, k \in S PROVE k + 1 \in S
  <2>1. SUFFICES ASSUME k + 1 <= n, k + 1 <= m PROVE f[k + 1] = g[k + 1]
    OBVIOUS
  <2>2. k + 1 \in 0 .. n /\ k + 1 \in 0 .. m /\ k + 1 # 0 /\ (k + 1) - 1 = k
    BY <2>1
  <2>3. f[k] = g[k]
    BY <1>3, <2>1
  <2>4. f[k + 1] = F[<<k + 1, f[k]>>] /\ g[k + 1] = F[<<k + 1, g[k]>>]
    BY <1>0, <1>1, <2>2
  <2>5. QED BY <2>3, <2>4
<1>4. \A k \in Nat : k \in S
  <2> HIDE DEF S
  <2>1. QED BY <1>2, <1>3, SetInduction
<1>5. QED BY <1>4
=============================================================================
