------------------------------- MODULE Numbers --------------------------------
(***************************************************************************)
(* What several proofs need of numbers: induction and recursion, division  *)
(* and minima.                                                             *)
(***************************************************************************)
EXTENDS Integers, FiniteSetsExt, WellFoundedInduction, TLAPS

(* Induction and recursion.  The library's induction theorems are about    *)
(* predicates, which the provers cannot instantiate; over sets of numbers  *)
(* the same follows from its theorem on minimal elements.                  *)

LEMMA NatSetInduction ==
    ASSUME NEW T, T \subseteq Nat, 0 \in T, \A n \in T : n + 1 \in T
    PROVE  T = Nat
<1> SUFFICES ASSUME T # Nat PROVE FALSE
  OBVIOUS
<1> DEFINE M == Nat \ T
           less == OpToRel(<, Nat)
<1>1. IsWellFoundedOn(less, Nat)
  BY NatLessThanWellFounded
<1>2. \A x, y \in Nat : x < y => <<x, y>> \in less
  BY DEF OpToRel
<1> HIDE DEF less
<1>3. M \subseteq Nat /\ M # {}
  OBVIOUS
<1>4. PICK x \in M : \A y \in M : ~ (<<y, x>> \in less)
  BY <1>1, <1>3, WFMin
<1>5. x \in Nat /\ x # 0 /\ x - 1 \in Nat /\ x - 1 < x
  <2>1. x \in Nat /\ x \notin T
    BY <1>4
  <2>2. x # 0
    BY <2>1
  <2> QED
    BY <2>1, <2>2
<1>6. <<x - 1, x>> \in less
  BY <1>2, <1>5
<1>7. x - 1 \in T
  BY <1>4, <1>5, <1>6
<1>8. (x - 1) + 1 \in T /\ (x - 1) + 1 = x
  BY <1>5, <1>7
<1> QED
  BY <1>4, <1>8

(* A function on 0 .. n is defined by its value at 0 and a step.           *)
Recursion(f, n, S, base, step) ==
    /\ f \in [0 .. n -> S]
    /\ f[0] = base
    /\ \A i \in 1 .. n : f[i] = step[i][f[i - 1]]

LEMMA RecursionOnNat ==
    ASSUME NEW n \in Nat, NEW S, NEW base \in S, NEW step \in [1 .. n -> [S -> S]]
    PROVE  \E f : Recursion(f, n, S, base, step)
<1> DEFINE Upto(m) == \E f \in [0 .. m -> S] :
                         f[0] = base /\ \A i \in 1 .. m : f[i] = step[i][f[i - 1]]
           T == {m \in Nat : m <= n => Upto(m)}
<1>1. 0 \in T
  <2> DEFINE f == [i \in 0 .. 0 |-> base]
  <2>1. f \in [0 .. 0 -> S] /\ f[0] = base
    OBVIOUS
  <2> HIDE DEF f
  <2>2. \A i \in 1 .. 0 : f[i] = step[i][f[i - 1]]
    OBVIOUS
  <2>3. Upto(0)
    BY <2>1, <2>2
  <2> HIDE DEF Upto
  <2> QED
    BY <2>3
<1>2. ASSUME NEW m \in T PROVE m + 1 \in T
  <2>1. CASE m + 1 > n
    BY <2>1
  <2>2. CASE m + 1 <= n
    <3>1. m \in Nat /\ m + 1 \in 1 .. n /\ Upto(m)
      BY <2>2
    <3>2. PICK f \in [0 .. m -> S] :
              f[0] = base /\ \A i \in 1 .. m : f[i] = step[i][f[i - 1]]
      BY <3>1
    <3> DEFINE last == step[m + 1][f[m]]
               g == [i \in 0 .. m + 1 |-> IF i = m + 1 THEN last ELSE f[i]]
    <3>3. f[m] \in S
      BY <3>1, <3>2
    <3>4. last \in S
      BY <3>1, <3>3
    <3> HIDE DEF last
    <3>5. g \in [0 .. m + 1 -> S] /\ g[0] = base
      BY <3>1, <3>2, <3>4
    <3>6. ASSUME NEW i \in 1 .. m + 1 PROVE g[i] = step[i][g[i - 1]]
      <4>1. i - 1 \in 0 .. m /\ i - 1 # m + 1
        BY <3>1
      <4>2. g[i - 1] = f[i - 1]
        BY <4>1, <3>1
      <4>3. CASE i = m + 1
        BY <4>2, <4>3, <3>1 DEF last
      <4>4. CASE i # m + 1
        <5>1. i \in 1 .. m /\ g[i] = f[i]
          BY <4>4, <3>1
        <5> QED
          BY <5>1, <4>2, <3>2
      <4> QED
        BY <4>3, <4>4
    <3> HIDE DEF g
    <3>7. Upto(m + 1)
      BY <3>5, <3>6
    <3> HIDE DEF Upto
    <3> QED
      BY <3>1, <3>7
  <2>3. m \in Nat
    OBVIOUS
  <2> HIDE DEF T
  <2> QED
    BY <2>1, <2>2, <2>3
<1> HIDE DEF T
<1>3. T \subseteq Nat
  BY DEF T
<1>4. T = Nat
  BY <1>1, <1>2, <1>3, NatSetInduction
<1> QED
  BY <1>4 DEF T, Recursion

------------------------------------------------------------------------------
(* Division.  The provers find these with a quotient in their hand only.   *)

LEMMA Quotient ==
    ASSUME NEW n \in Nat \ {0}, NEW i \in Int
    PROVE  /\ i \div n \in Int /\ i % n \in 0 .. n - 1
           /\ i = n * (i \div n) + (i % n)
    OBVIOUS

LEMMA Remainder ==
    ASSUME NEW n \in Nat \ {0}, NEW i \in Int, NEW q \in Int, NEW r \in 0 .. n - 1,
           i = n * q + r
    PROVE  i % n = r /\ i \div n = q
    OBVIOUS

LEMMA Distributes ==
    ASSUME NEW n \in Int, NEW a \in Int, NEW b \in Int
    PROVE  n * (a + b) = n * a + n * b
    OBVIOUS

(* Going round a ring step by step is going round it at once.              *)
LEMMA RoundTheRing ==
    ASSUME NEW n \in Nat \ {0}, NEW i \in Int, NEW j \in Int
    PROVE  ((i % n) + j) % n = (i + j) % n
<1> DEFINE q == i \div n
           k == ((i % n) + j) \div n
           r == ((i % n) + j) % n
<1>1. q \in Int /\ i % n \in Int /\ i = n * q + (i % n)
  BY Quotient
<1>2. k \in Int /\ r \in 0 .. n - 1 /\ (i % n) + j = n * k + r
  BY <1>1, Quotient
<1>3. n * (q + k) = n * q + n * k
  BY <1>1, <1>2, Distributes
<1> HIDE DEF q, k, r
<1>4. i + j = n * (q + k) + r
  BY <1>1, <1>2, <1>3
<1>5. (i + j) % n = r
  <2> DEFINE s == i + j
             m == q + k
  <2>1. s \in Int /\ m \in Int /\ s = n * m + r /\ r \in 0 .. n - 1
    BY <1>1, <1>2, <1>4
  <2> HIDE DEF s, m
  <2>2. s % n = r
    BY <2>1, Remainder
  <2> QED
    BY <2>2 DEF s
<1> QED
  BY <1>5 DEF r

LEMMA OnceRound ==
    ASSUME NEW n \in Nat \ {0}, NEW i \in 0 .. n - 1
    PROVE  (i + n) % n = i /\ i % n = i
    BY Remainder, n * 1 = n, n * 0 = 0

LEMMA MinMax ==
    ASSUME NEW a \in Nat, NEW b \in Nat
    PROVE  /\ Min({a, b}) = IF a < b THEN a ELSE b
           /\ Max({a, b}) = IF a < b THEN b ELSE a
    BY DEF Min, Max

(* A set of numbers has a least one.                                       *)
LEMMA LeastNumber ==
    ASSUME NEW M, M \subseteq Nat, M # {}
    PROVE  Min(M) \in M /\ \A y \in M : Min(M) <= y
<1> DEFINE less == OpToRel(<, Nat)
<1>1. IsWellFoundedOn(less, Nat)
  BY NatLessThanWellFounded
<1>2. \A x, y \in Nat : x < y => <<x, y>> \in less
  BY DEF OpToRel
<1> HIDE DEF less
<1>3. M \subseteq Nat /\ M # {}
  OBVIOUS
<1>4. PICK x \in M : \A y \in M : ~ (<<y, x>> \in less)
  BY <1>1, <1>3, WFMin
<1>5. \A y \in M : x <= y
  <2> SUFFICES ASSUME NEW y \in M PROVE ~(y < x)
    BY <1>3
  <2> QED
    BY <1>2, <1>3, <1>4
<1> QED
  BY <1>4, <1>5 DEF Min
=============================================================================
