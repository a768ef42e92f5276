---------------------------- MODULE NumberProofs ----------------------------
(***************************************************************************)
(* The least number of a set of numbers, and induction, as facts about     *)
(* sets: what the proofs about searches, bounds and sequences rest on.     *)
(***************************************************************************)
EXTENDS Integers, WellFoundedInduction, TLAPS

\* A set of natural numbers that is not empty has a least element.
LEMMA LeastNumber ==
  ASSUME NEW S \in SUBSET Nat, S # {}
  PROVE  \E m \in S : \A n \in S : m <= n
<1> DEFINE less == {pair \in Nat \X Nat : pair[1] < pair[2]}
<1>1. IsWellFoundedOn(less, Nat)
  BY NatLessThanWellFounded DEF OpToRel
<1>2. \A m, n \in Nat : <<n, m>> \in less <=> n < m
  OBVIOUS
<1> HIDE DEF less
<1>3. PICK m \in S : \A n \in S : <<n, m>> \notin less
  BY <1>1, WFMin
<1>4. ASSUME NEW n \in S PROVE m <= n
  <2>1. m \in Nat /\ n \in Nat /\ ~(n < m)
    BY <1>2, <1>3
  <2> QED
    BY <2>1
<1> QED
  BY <1>4

\* A set of numbers between bounds that is not empty has a greatest element.
LEMMA GreatestNumber ==
  ASSUME NEW low \in Int, NEW high \in Int, NEW S \in SUBSET (low..high), S # {}
  PROVE  \E m \in S : \A n \in S : n <= m
<1> DEFINE T == {high - n : n \in S}
<1>1. T \in SUBSET Nat /\ T # {}
  OBVIOUS
<1>2. PICK k \in T : \A n \in T : k <= n
  BY <1>1, LeastNumber
<1>3. PICK m \in S : k = high - m
  OBVIOUS
<1>4. ASSUME NEW n \in S PROVE n <= m
  <2>1. high - m <= high - n
    BY <1>2, <1>3
  <2> QED
    BY <2>1
<1> QED
  BY <1>4

\* Induction: a set that holds 0 and with each number the next holds all.
LEMMA SetInduction ==
  ASSUME NEW S, 0 \in S, \A n \in Nat : n \in S => n + 1 \in S
  PROVE  Nat \subseteq S
<1> SUFFICES ASSUME ~(Nat \subseteq S) PROVE FALSE
  OBVIOUS
<1>1. Nat \ S \in SUBSET Nat /\ Nat \ S # {}
  OBVIOUS
<1>2. PICK m \in Nat \ S : \A n \in Nat \ S : m <= n
  BY <1>1, LeastNumber
<1>3. m - 1 \in Nat /\ m - 1 \in S
  BY <1>2
<1> QED
  BY <1>2, <1>3

\* The values of a function on 1..n have a least one and a greatest one.
LEMMA LeastValue ==
  ASSUME NEW n \in Nat \ {0}, NEW f, \A i \in 1..n : f[i] \in Int
  PROVE  \E i \in 1..n : \A j \in 1..n : f[i] <= f[j]
<1> DEFINE S == {k \in Nat : k < n =>
                   \E i \in 1 .. k + 1 : \A j \in 1 .. k + 1 : f[i] <= f[j]}
<1>1. 0 \in S
  <2>1. \A i, j \in 1 .. 0 + 1 : i = j
    OBVIOUS
  <2>2. 1 \in 1 .. 0 + 1 /\ f[1] \in Int
    OBVIOUS
  <2> QED
    BY <2>1, <2>2
<1>2. ASSUME NEW k \in Nat, k \in S PROVE k + 1 \in S
  <2> SUFFICES ASSUME k + 1 < n
               PROVE  \E i \in 1 .. k + 2 : \A j \in 1 .. k + 2 : f[i] <= f[j]
    OBVIOUS
  <2>1. PICK i \in 1 .. k + 1 : \A j \in 1 .. k + 1 : f[i] <= f[j]
    BY <1>2
  <2>2. f[i] \in Int /\ f[k + 2] \in Int /\ i \in 1 .. k + 2 /\ k + 2 \in 1 .. k + 2
    OBVIOUS
  <2>3. \A j \in 1 .. k + 2 : f[j] \in Int /\ (j \in 1 .. k + 1 \/ j = k + 2)
    OBVIOUS
  <2>4. CASE f[i] <= f[k + 2]
    BY <2>1, <2>2, <2>3, <2>4
  <2>5. CASE f[k + 2] < f[i]
    <3>1. ASSUME NEW j \in 1 .. k + 2 PROVE f[k + 2] <= f[j]
      <4>1. CASE j = k + 2
        BY <2>2, <4>1
      <4>2. CASE j \in 1 .. k + 1
        BY <2>1, <2>2, <2>3, <2>5, <4>2
      <4> QED
        BY <2>3, <4>1, <4>2
    <3> QED
      BY <2>2, <3>1
  <2> QED
    BY <2>2, <2>4, <2>5
<1>3. Nat \subseteq S
  <2> HIDE DEF S
  <2> QED
    BY <1>1, <1>2, SetInduction
<1>4. n - 1 \in Nat /\ (n - 1) + 1 = n /\ n - 1 < n
  OBVIOUS
<1>5. n - 1 \in S
  BY <1>3, <1>4
<1> QED
  BY <1>4, <1>5

LEMMA GreatestValue ==
  ASSUME NEW n \in Nat \ {0}, NEW f, \A i \in 1..n : f[i] \in Int
  PROVE  \E i \in 1..n : \A j \in 1..n : f[j] <= f[i]
<1> DEFINE g == [i \in 1..n |-> -f[i]]
<1>1. \A i \in 1..n : g[i] \in Int /\ f[i] \in Int /\ g[i] = -f[i]
  OBVIOUS
<1>2. PICK i \in 1..n : \A j \in 1..n : g[i] <= g[j]
  <2> HIDE DEF g
  <2>1. \A i \in 1..n : g[i] \in Int
    BY <1>1
  <2> QED
    BY <2>1, LeastValue
<1>3. \A j \in 1..n : f[j] <= f[i]
  <2> HIDE DEF g
  <2> QED
    BY <1>1, <1>2
<1> QED
  BY <1>3
=============================================================================
