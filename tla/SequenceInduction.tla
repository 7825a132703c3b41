------------------------- MODULE SequenceInduction -------------------------
(***************************************************************************)
(* Induction and recursion over the natural numbers, stated with sets and  *)
(* functions: what the proofs about folds over sequences rest on.          *)
(***************************************************************************)
EXTENDS Integers, WellFoundedInduction, TLAPS

Less == {p \in Nat \X Nat : p[1] < p[2]}

\* The order of the natural numbers is well founded.
LEMMA LessIsWellFounded == IsWellFoundedOn(Less, Nat)
BY NatLessThanWellFounded DEF OpToRel, Less

\* Every set of natural numbers has a least one.
LEMMA Least ==
  ASSUME NEW S \in SUBSET Nat, S # {}
  PROVE  \E n \in S : \A m \in S : n <= m
<1>1. PICK n \in S : \A m \in S : ~ (<<m, n>> \in Less)
  BY LessIsWellFounded, WFMin
<1>2. ASSUME NEW m \in S PROVE n <= m
  <2>1. m \in Nat /\ n \in Nat /\ ~ (<<m, n>> \in Less)
    BY <1>1
  <2>2. ~ (m < n)
    BY <2>1 DEF Less
  <2> QED BY <2>1, <2>2
<1> QED BY <1>2

\* A set that has 0, and with a number the next, has all numbers.
LEMMA Induction ==
  ASSUME NEW S, 0 \in S, \A n \in Nat : n \in S => n + 1 \in S
  PROVE  Nat \subseteq S
<1>1. SUFFICES ASSUME Nat \ S # {} PROVE FALSE
  OBVIOUS
<1>2. PICK n \in Nat \ S : \A m \in Nat \ S : n <= m
  BY <1>1, Least
<1>3. n # 0 /\ n - 1 \in Nat /\ n - 1 \in S
  BY <1>2
<1> QED BY <1>2, <1>3

\* A first value, and a step from each value to the next, make a sequence of values.
LEMMA Recursion ==
  ASSUME NEW S, NEW base \in S, NEW n \in Nat, NEW step \in [1..n -> [S -> S]]
  PROVE  \E f \in [0..n -> S] : f[0] = base /\ \A i \in 1..n : f[i] = step[i][f[i - 1]]
<1> DEFINE Runs(f, k) == f[0] = base /\ \A i \in 1..k : f[i] = step[i][f[i - 1]]
           Some == {k \in Nat : k <= n => \E f \in [0..k -> S] : Runs(f, k)}
<1>1. 0 \in Some
  <2>1. [i \in 0..0 |-> base] \in [0..0 -> S] /\ Runs([i \in 0..0 |-> base], 0)
    OBVIOUS
  <2> QED BY <2>1
<1>2. ASSUME NEW k \in Nat, k \in Some PROVE k + 1 \in Some
  <2>1. SUFFICES ASSUME k + 1 <= n PROVE \E f \in [0..(k + 1) -> S] : Runs(f, k + 1)
    OBVIOUS
  <2>2. PICK f \in [0..k -> S] : Runs(f, k)
    BY <1>2, <2>1
  <2> DEFINE g == [i \in 0..(k + 1) |-> IF i <= k THEN f[i] ELSE step[k + 1][f[k]]]
  <2>3. step[k + 1][f[k]] \in S
    <3>1. step[k + 1] \in [S -> S] /\ f[k] \in S
      BY <2>1
    <3> QED BY <3>1
  <2>4. g \in [0..(k + 1) -> S]
    BY <2>3
  <2>5. Runs(g, k + 1)
    <3>1. g[0] = base
      BY <2>2
    <3>2. ASSUME NEW i \in 1..(k + 1) PROVE g[i] = step[i][g[i - 1]]
      <4>1. i - 1 \in 0..k /\ i \in 0..(k + 1) /\ g[i - 1] = f[i - 1]
        OBVIOUS
      <4>2. CASE i <= k
        BY <4>1, <4>2, <2>2
      <4>3. CASE ~ (i <= k)
        <5>1. i = k + 1
          BY <4>3
        <5>2. g[k + 1] = step[k + 1][f[k]] /\ g[k] = f[k]
          OBVIOUS
        <5>3. i - 1 = k
          BY <5>1
        <5> QED BY <5>1, <5>2, <5>3
      <4> QED BY <4>2, <4>3
    <3> QED BY <3>1, <3>2
  <2> QED BY <2>4, <2>5
<1> HIDE DEF Some
<1>3. n \in Some
  BY <1>1, <1>2, Induction
<1> QED BY <1>3 DEF Some

\* The step determines the values.
LEMMA RecursionIsUnique ==
  ASSUME NEW n \in Nat, NEW f, NEW g, f[0] = g[0],
         \A i \in 1..n : f[i - 1] = g[i - 1] => f[i] = g[i]
  PROVE  \A i \in 0..n : f[i] = g[i]
<1> DEFINE Same == {i \in Nat : i <= n => f[i] = g[i]}
<1>1. 0 \in Same
  OBVIOUS
<1>2. ASSUME NEW i \in Nat, i \in Same PROVE i + 1 \in Same
  <2>1. SUFFICES ASSUME i + 1 <= n PROVE f[i + 1] = g[i + 1]
    OBVIOUS
  <2>2. i + 1 \in 1..n /\ (i + 1) - 1 = i /\ f[i] = g[i]
    BY <1>2, <2>1
  <2> QED BY <2>2
<1> HIDE DEF Same
<1>3. Nat \subseteq Same
  BY <1>1, <1>2, Induction
<1> QED BY <1>3 DEF Same

\* What holds of the first value and is kept by each step holds of all.
LEMMA RecursionKeeps ==
  ASSUME NEW n \in Nat, NEW f, NEW S, f[0] \in S,
         \A i \in 1..n : f[i - 1] \in S => f[i] \in S
  PROVE  \A i \in 0..n : f[i] \in S
<1> DEFINE Kept == {i \in Nat : i <= n => f[i] \in S}
<1>1. 0 \in Kept
  OBVIOUS
<1>2. ASSUME NEW i \in Nat, i \in Kept PROVE i + 1 \in Kept
  <2>1. SUFFICES ASSUME i + 1 <= n PROVE f[i + 1] \in S
    OBVIOUS
  <2>2. i + 1 \in 1..n /\ (i + 1) - 1 = i /\ f[i] \in S
    BY <1>2, <2>1
  <2> QED BY <2>2
<1> HIDE DEF Kept
<1>3. Nat \subseteq Kept
  BY <1>1, <1>2, Induction
<1> QED BY <1>3 DEF Kept
=============================================================================
