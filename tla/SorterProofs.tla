---------------------------- MODULE SorterProofs ----------------------------
(***************************************************************************)
(* Proofs about the external sort: for any number of pairs, runs of any    *)
(* length and a disk that is full at any moment, the merge hands LMDB the  *)
(* pairs in order and builds the index.                                    *)
(***************************************************************************)
EXTENDS Sorter, NumberProofs

----------------------------------------------------------------------------
(* The order of pairs.                                                     *)

Pairs == Nat \X Nat

\* The numbers of a pair.
LEMMA PairParts ==
  \A a \in Pairs : a[1] \in Nat /\ a[2] \in Nat /\ a = <<a[1], a[2]>>
  BY DEF Pairs

\* Before is a strict linear order, with <<0, 0>> at its beginning.
LEMMA BeforeIsOrder ==
  /\ \A a, b \in Pairs : Before(a, b) \/ a = b \/ Before(b, a)
  /\ \A a, b \in Pairs : Before(a, b) => ~Before(b, a) /\ a # b
  /\ \A a, b, c \in Pairs : ~Before(b, a) /\ ~Before(c, b) => ~Before(c, a)
  /\ \A a \in Pairs : ~Before(a, <<0, 0>>) /\ ~Before(a, a)
<1>1. \A a, b \in Pairs : a = b <=> a[1] = b[1] /\ a[2] = b[2]
  BY DEF Pairs
<1>2. \A a \in Pairs : a[1] \in Nat /\ a[2] \in Nat
  BY DEF Pairs
<1> QED
  BY <1>1, <1>2 DEF Before

\* Among numbered pairs there is a first, and of equal ones the one of the least
\* number.
LEMMA FirstOfPairs ==
  ASSUME NEW Q \in SUBSET Nat, Q # {}, NEW f, \A i \in Q : f[i] \in Pairs
  PROVE  \E i \in Q : \A j \in Q \ {i} :
           Before(f[i], f[j]) \/ (f[i] = f[j] /\ i < j)
<1>1. \A i \in Q : f[i][1] \in Nat /\ f[i][2] \in Nat /\ f[i] = <<f[i][1], f[i][2]>>
  BY PairParts
<1>2. PICK k \in Q : \A j \in Q : f[k][1] <= f[j][1]
  <2> DEFINE S == {f[i][1] : i \in Q}
  <2>1. S \in SUBSET Nat /\ S # {}
    BY <1>1
  <2>2. PICK m \in S : \A n \in S : m <= n
    BY <2>1, LeastNumber
  <2> QED
    BY <2>2
<1> DEFINE Q1 == {i \in Q : f[i][1] = f[k][1]}
<1>3. PICK l \in Q1 : \A j \in Q1 : f[l][2] <= f[j][2]
  <2> DEFINE S == {f[i][2] : i \in Q1}
  <2>1. S \in SUBSET Nat /\ S # {}
    BY <1>1
  <2>2. PICK m \in S : \A n \in S : m <= n
    BY <2>1, LeastNumber
  <2> QED
    BY <2>2
<1> DEFINE Q2 == {i \in Q1 : f[i][2] = f[l][2]}
<1>4. PICK i \in Q2 : \A j \in Q2 : i <= j
  <2>1. Q2 \in SUBSET Nat /\ Q2 # {}
    OBVIOUS
  <2> QED
    BY <2>1, LeastNumber
<1>5. i \in Q /\ f[i][1] = f[k][1] /\ f[i][2] = f[l][2]
  OBVIOUS
<1>6. ASSUME NEW j \in Q \ {i}
      PROVE  Before(f[i], f[j]) \/ (f[i] = f[j] /\ i < j)
  <2>1. f[i][1] \in Nat /\ f[j][1] \in Nat /\ f[i][1] <= f[j][1]
    BY <1>1, <1>2, <1>5
  <2>2. CASE f[i][1] # f[j][1]
    BY <2>1, <2>2 DEF Before
  <2>3. CASE f[i][1] = f[j][1]
    <3>1. j \in Q1
      BY <1>5, <2>3
    <3>2. f[i][2] \in Nat /\ f[j][2] \in Nat /\ f[i][2] <= f[j][2]
      BY <1>1, <1>3, <1>5, <3>1
    <3>3. CASE f[i][2] # f[j][2]
      BY <2>3, <3>2, <3>3 DEF Before
    <3>4. CASE f[i][2] = f[j][2]
      <4>1. j \in Q2
        BY <1>5, <3>1, <3>4
      <4>2. i <= j /\ i # j /\ i \in Nat /\ j \in Nat
        BY <1>4, <4>1
      <4>3. f[i] = f[j]
        BY <1>1, <1>5, <2>3, <3>4
      <4> QED
        BY <4>2, <4>3
    <3> QED
      BY <3>3, <3>4
  <2> QED
    BY <2>2, <2>3
<1> QED
  BY <1>5, <1>6

----------------------------------------------------------------------------
(* Sorting.                                                                *)

Ascending(s, n) == \A i, j \in 1..n : i < j => ~Before(s[j], s[i])

\* An order of the numbers 1..n puts the pairs of s into ascending order.
Sorts(order, s, n) ==
  order \in Bijection(1..n, 1..n) /\ Ascending([i \in 1..n |-> s[order[i]]], n)

LEMMA BijectionIs ==
  ASSUME NEW n \in Nat, NEW p \in [1..n -> 1..n]
  PROVE  p \in Bijection(1..n, 1..n) <=>
           /\ \A i, j \in 1..n : p[i] = p[j] => i = j
           /\ \A k \in 1..n : \E i \in 1..n : p[i] = k
  BY DEF Bijection, Injection, Surjection, IsInjective

\* There is such an order: the first pair comes first, and the others are put in
\* order with the last of them in its place.
LEMMA OrderExists ==
  \A n \in Nat : \A s : (\A i \in 1..n : s[i] \in Pairs) => \E p : Sorts(p, s, n)
<1> DEFINE S == {n \in Nat :
                   \A s : (\A i \in 1..n : s[i] \in Pairs) => \E p : Sorts(p, s, n)}
<1>1. 0 \in S
  <2> SUFFICES ASSUME NEW s PROVE \E p : Sorts(p, s, 0)
    OBVIOUS
  <2>1. [i \in 1..0 |-> i] \in [1..0 -> 1..0] /\ 1..0 = {}
    OBVIOUS
  <2>2. [i \in 1..0 |-> i] \in Bijection(1..0, 1..0)
    BY <2>1, BijectionIs
  <2> QED
    BY <2>1, <2>2 DEF Sorts, Ascending
<1>2. ASSUME NEW n \in Nat, n \in S PROVE n + 1 \in S
  <2> SUFFICES ASSUME NEW s, \A i \in 1..n + 1 : s[i] \in Pairs
               PROVE  \E p : Sorts(p, s, n + 1)
    OBVIOUS
  <2>1. PICK m \in 1..n + 1 : \A j \in (1..n + 1) \ {m} :
                Before(s[m], s[j]) \/ (s[m] = s[j] /\ m < j)
    <3>1. 1..n + 1 \in SUBSET Nat /\ 1..n + 1 # {}
      OBVIOUS
    <3> QED
      BY <3>1, FirstOfPairs
  <2>2. \A j \in 1..n + 1 : ~Before(s[j], s[m])
    BY <2>1, BeforeIsOrder
  <2> DEFINE place(i) == IF i = m THEN n + 1 ELSE i
             t == [i \in 1..n |-> s[place(i)]]
  <2>3. \A i \in 1..n : place(i) \in 1..n + 1 /\ place(i) # m
    OBVIOUS
  <2>4. \A i, j \in 1..n : place(i) = place(j) => i = j
    OBVIOUS
  <2>5. \A k \in (1..n + 1) \ {m} : \E i \in 1..n : place(i) = k
    OBVIOUS
  <2> HIDE DEF place
  <2>6. PICK q : Sorts(q, t, n)
    <3>1. \A i \in 1..n : t[i] \in Pairs
      BY <2>3
    <3> HIDE DEF t
    <3> QED
      BY <1>2, <3>1
  <2>7. /\ q \in [1..n -> 1..n]
        /\ \A i, j \in 1..n : q[i] = q[j] => i = j
        /\ \A k \in 1..n : \E i \in 1..n : q[i] = k
    <3>1. q \in Bijection(1..n, 1..n)
      BY <2>6 DEF Sorts
    <3>2. q \in [1..n -> 1..n]
      BY <3>1 DEF Bijection, Injection
    <3> QED
      BY <3>1, <3>2, BijectionIs
  <2>8. \A i, j \in 1..n : i < j => ~Before(s[place(q[j])], s[place(q[i])])
    BY <2>6, <2>7 DEF Sorts, Ascending
  <2> HIDE DEF t
  <2> DEFINE p == [i \in 1..n + 1 |-> IF i = 1 THEN m ELSE place(q[i - 1])]
  <2>9. \A i \in 1..n + 1 : i # 1 => i - 1 \in 1..n
    OBVIOUS
  <2>10. p[1] = m /\ 1 \in 1..n + 1 /\ \A i \in 1..n + 1 : i # 1 => p[i] = place(q[i - 1])
    OBVIOUS
  <2>11. p \in [1..n + 1 -> 1..n + 1]
    BY <2>3, <2>7, <2>9
  <2> HIDE DEF p
  <2>12. ASSUME NEW i \in 1..n + 1, NEW j \in 1..n + 1, p[i] = p[j] PROVE i = j
    <3>0. ASSUME NEW k \in 1..n + 1, k # 1 PROVE p[k] # m
      <4>1. q[k - 1] \in 1..n
        BY <2>7, <2>9, <3>0
      <4> QED
        BY <2>3, <2>10, <3>0, <4>1
    <3>1. CASE i = 1 \/ j = 1
      BY <2>10, <2>12, <3>0, <3>1
    <3>2. CASE i # 1 /\ j # 1
      <4>1. i - 1 \in 1..n /\ j - 1 \in 1..n /\ place(q[i - 1]) = place(q[j - 1])
        BY <2>9, <2>10, <2>12, <3>2
      <4>2. i - 1 = j - 1
        BY <2>4, <2>7, <4>1
      <4> QED
        BY <4>2
    <3> QED
      BY <3>1, <3>2
  <2>13. ASSUME NEW k \in 1..n + 1 PROVE \E i \in 1..n + 1 : p[i] = k
    <3>1. CASE k = m
      BY <2>10, <3>1
    <3>2. CASE k # m
      <4>1. PICK l \in 1..n : place(l) = k
        BY <2>5, <3>2
      <4>2. PICK i \in 1..n : q[i] = l
        BY <2>7
      <4>3. i + 1 \in 1..n + 1 /\ i + 1 # 1 /\ (i + 1) - 1 = i
        OBVIOUS
      <4>4. p[i + 1] = k
        BY <2>10, <4>1, <4>2, <4>3
      <4> QED
        BY <4>3, <4>4
    <3> QED
      BY <3>1, <3>2
  <2>14. ASSUME NEW i \in 1..n + 1, NEW j \in 1..n + 1, i < j
         PROVE  ~Before(s[p[j]], s[p[i]])
    <3>1. CASE i = 1
      BY <2>2, <2>10, <2>11, <3>1
    <3>2. CASE i # 1
      <4>1. i - 1 \in 1..n /\ j - 1 \in 1..n /\ i - 1 < j - 1 /\ j # 1
        BY <2>14, <3>2
      <4> QED
        BY <2>8, <2>10, <3>2, <4>1
    <3> QED
      BY <3>1, <3>2
  <2>15. p \in Bijection(1..n + 1, 1..n + 1)
    <3>1. n + 1 \in Nat
      OBVIOUS
    <3> QED
      BY <2>11, <2>12, <2>13, <3>1, BijectionIs
  <2>16. Sorts(p, s, n + 1)
    BY <2>14, <2>15 DEF Sorts, Ascending
  <2> QED
    BY <2>16
<1>3. Nat \subseteq S
  <2> HIDE DEF S
  <2> QED
    BY <1>1, <1>2, SetInduction
<1> QED
  BY <1>3

\* Sorting yields the same pairs, in ascending order.
LEMMA SortedIs ==
  ASSUME NEW s \in Seq(Pairs)
  PROVE  /\ Sorted(s) \in Seq(Pairs) /\ Len(Sorted(s)) = Len(s)
         /\ Ascending(Sorted(s), Len(s))
         /\ ToSet(Sorted(s)) = ToSet(s)
<1> DEFINE n == Len(s)
           InOrder(p) == \A i, j \in 1..n : i < j => ~Before(s[p[j]], s[p[i]])
           order == CHOOSE p \in Bijection(1..n, 1..n) : InOrder(p)
<1>1. n \in Nat /\ DOMAIN s = 1..n /\ \A i \in 1..n : s[i] \in Pairs
  OBVIOUS
<1>2. Sorted(s) = [i \in 1..n |-> s[order[i]]]
  BY <1>1 DEF Sorted
<1>3. PICK p : Sorts(p, s, n)
  <2> HIDE DEF n
  <2> QED
    BY <1>1, OrderExists
<1>4. p \in Bijection(1..n, 1..n) /\ InOrder(p)
  BY <1>1, <1>3 DEF Sorts, Ascending
<1>5. order \in Bijection(1..n, 1..n) /\ InOrder(order)
  <2> HIDE DEF InOrder, n
  <2> QED
    BY <1>4
<1> HIDE DEF n, order
<1>6. order \in [1..n -> 1..n] /\ \A k \in 1..n : \E i \in 1..n : order[i] = k
  <2>1. order \in [1..n -> 1..n]
    BY <1>5 DEF Bijection, Injection
  <2> QED
    BY <1>1, <1>5, <2>1, BijectionIs
<1>7. \A i \in 1..n : Sorted(s)[i] = s[order[i]] /\ s[order[i]] \in Pairs
  BY <1>1, <1>2, <1>6
<1>8. Sorted(s) \in Seq(Pairs) /\ Len(Sorted(s)) = n /\ DOMAIN Sorted(s) = 1..n
  BY <1>1, <1>2, <1>7
<1>9. Ascending(Sorted(s), n)
  BY <1>5, <1>7 DEF Ascending
<1>10. ToSet(Sorted(s)) = ToSet(s)
  <2>1. \A i \in 1..n : Sorted(s)[i] \in ToSet(s)
    BY <1>1, <1>6, <1>7 DEF ToSet
  <2>2. ASSUME NEW k \in 1..n PROVE s[k] \in ToSet(Sorted(s))
    <3>1. PICK i \in 1..n : order[i] = k
      BY <1>6
    <3>2. s[k] = Sorted(s)[i]
      BY <1>7, <3>1
    <3> QED
      BY <1>8, <3>2 DEF ToSet
  <2> QED
    BY <1>1, <1>8, <2>1, <2>2 DEF ToSet
<1> QED
  BY <1>8, <1>9, <1>10 DEF n

----------------------------------------------------------------------------
(* The pairs in memory and in runs.                                        *)

\* Pairs are pairs of numbers, and so are the sequences of them.
LEMMA PairsOfNumbers ==
  Pair \subseteq Pairs /\ Seq(Pair) \subseteq Seq(Pairs) /\ <<0, 0>> \in Pairs
  BY PairAssumption DEF Pairs

\* The elements of sequences, and the pairs of memory and runs.
LEMMA ElementsIn ==
  ASSUME NEW T, NEW s \in Seq(T)
  PROVE  ToSet(s) \subseteq T
  BY DEF ToSet

LEMMA HeldArePairs ==
  ASSUME NEW pairs \in Seq(Pair), NEW files \in Seq(Seq(Pair))
  PROVE  Held(pairs, files) \subseteq Pair
<1>1. \A i \in DOMAIN files : files[i] \in Seq(Pair)
  OBVIOUS
<1> QED
  BY <1>1, ElementsIn DEF Held

\* One more element.
LEMMA AppendedSet ==
  ASSUME NEW T, NEW s \in Seq(T), NEW x \in T
  PROVE  Append(s, x) \in Seq(T) /\ ToSet(Append(s, x)) = ToSet(s) \cup {x}
<1>1. /\ Append(s, x) \in Seq(T) /\ DOMAIN s = 1..Len(s) /\ Len(s) \in Nat
      /\ DOMAIN Append(s, x) = 1..Len(s) + 1
      /\ \A i \in 1..Len(s) : Append(s, x)[i] = s[i]
      /\ Append(s, x)[Len(s) + 1] = x
  OBVIOUS
<1>2. ToSet(s) \cup {x} \subseteq ToSet(Append(s, x))
  <2>1. Len(s) + 1 \in 1..Len(s) + 1 /\ 1..Len(s) \subseteq 1..Len(s) + 1
    BY <1>1
  <2> QED
    BY <1>1, <2>1 DEF ToSet
<1>3. ToSet(Append(s, x)) \subseteq ToSet(s) \cup {x}
  <2>1. \A i \in 1..Len(s) + 1 : i \in 1..Len(s) \/ i = Len(s) + 1
    BY <1>1
  <2> QED
    BY <1>1, <2>1 DEF ToSet
<1> QED
  BY <1>1, <1>2, <1>3

\* One more run.
LEMMA AppendedRun ==
  ASSUME NEW T, NEW files \in Seq(Seq(T)), NEW run \in Seq(T), NEW pairs
  PROVE  /\ Append(files, run) \in Seq(Seq(T))
         /\ Held(pairs, Append(files, run)) = Held(pairs, files) \cup ToSet(run)
         /\ \A i \in DOMAIN Append(files, run) :
              \/ i \in DOMAIN files /\ Append(files, run)[i] = files[i]
              \/ Append(files, run)[i] = run
<1>1. /\ Append(files, run) \in Seq(Seq(T)) /\ DOMAIN files = 1..Len(files)
      /\ Len(files) \in Nat
      /\ DOMAIN Append(files, run) = 1..Len(files) + 1
      /\ \A i \in 1..Len(files) : Append(files, run)[i] = files[i]
      /\ Append(files, run)[Len(files) + 1] = run
  OBVIOUS
<1>2. \A i \in 1..Len(files) + 1 : i \in 1..Len(files) \/ i = Len(files) + 1
  BY <1>1
<1>3. Len(files) + 1 \in 1..Len(files) + 1 /\ 1..Len(files) \subseteq 1..Len(files) + 1
  BY <1>1
<1> DEFINE S == {ToSet(Append(files, run)[i]) : i \in DOMAIN Append(files, run)}
           S0 == {ToSet(files[i]) : i \in DOMAIN files}
<1>4. S = S0 \cup {ToSet(run)}
  BY <1>1, <1>2, <1>3
<1>5. UNION S = (UNION S0) \cup ToSet(run)
  <2> HIDE DEF S, S0
  <2> QED
    BY <1>4
<1> QED
  BY <1>1, <1>2, <1>5 DEF Held

\* A run cut short is still in order.
LEMMA FileIs ==
  ASSUME NEW pairs \in Seq(Pair), NEW run \in Files(pairs)
  PROVE  run \in Seq(Pair) /\ ToSet(run) \subseteq ToSet(pairs) /\ Ascending(run, Len(run))
<1> DEFINE all == Sorted(pairs)
<1>1. /\ all \in Seq(Pairs) /\ Len(all) = Len(pairs) /\ Ascending(all, Len(pairs))
      /\ ToSet(all) = ToSet(pairs)
  BY PairsOfNumbers, SortedIs
<1>2. PICK n \in 0..Len(pairs) : run = SubSeq(all, 1, n)
  BY DEF Files
<1> HIDE DEF all
<1>3. Len(pairs) \in Nat /\ n \in Nat /\ n <= Len(all) /\ 1..n \subseteq 1..Len(all)
  BY <1>1
<1>4. /\ run \in Seq(Pairs) /\ Len(run) = n /\ DOMAIN run = 1..n
      /\ \A i \in 1..n : run[i] = all[i]
  BY <1>1, <1>2, <1>3
<1>5. ToSet(run) \subseteq ToSet(pairs)
  <2>1. DOMAIN all = 1..Len(all)
    BY <1>1
  <2> QED
    BY <1>1, <1>3, <1>4, <2>1 DEF ToSet
<1>6. ToSet(pairs) \subseteq Pair
  BY DEF ToSet
<1>7. run \in Seq(Pair)
  <2>1. \A i \in 1..n : run[i] \in Pair
    BY <1>4, <1>5, <1>6 DEF ToSet
  <2> QED
    BY <1>3, <1>4, <2>1
<1>8. Ascending(run, Len(run))
  BY <1>1, <1>3, <1>4 DEF Ascending
<1> QED
  BY <1>5, <1>7, <1>8

\* The first pair of a run is the least one.
LEMMA HeadIsFirst ==
  ASSUME NEW run \in Seq(Pair), run # <<>>, Ascending(run, Len(run))
  PROVE  /\ Head(run) \in Pair /\ Tail(run) \in Seq(Pair)
         /\ ToSet(run) = {Head(run)} \cup ToSet(Tail(run))
         /\ Ascending(Tail(run), Len(Tail(run)))
         /\ \A pair \in ToSet(run) : ~Before(pair, Head(run))
<1> DEFINE n == Len(run)
<1>1. n \in Nat \ {0} /\ DOMAIN run = 1..n /\ \A i \in 1..n : run[i] \in Pair
  OBVIOUS
<1>2. /\ Head(run) = run[1] /\ Tail(run) \in Seq(Pair) /\ Len(Tail(run)) = n - 1
      /\ DOMAIN Tail(run) = 1..n - 1
      /\ \A i \in 1..n - 1 : Tail(run)[i] = run[i + 1]
  OBVIOUS
<1> HIDE DEF n
<1>3. \A i \in 1..n - 1 : i + 1 \in 1..n
  BY <1>1
<1>4. \A i \in 1..n : i = 1 \/ (i - 1 \in 1..n - 1 /\ (i - 1) + 1 = i)
  BY <1>1
<1>5. 1 \in 1..n
  BY <1>1
<1>6. ToSet(run) = {Head(run)} \cup ToSet(Tail(run))
  <2>1. \A i \in 1..n : run[i] \in {Head(run)} \cup ToSet(Tail(run))
    <3> SUFFICES ASSUME NEW i \in 1..n, i # 1 PROVE run[i] \in ToSet(Tail(run))
      BY <1>2
    <3>1. run[i] = Tail(run)[i - 1]
      BY <1>2, <1>4
    <3> QED
      BY <1>2, <1>4, <3>1 DEF ToSet
  <2>2. \A i \in 1..n - 1 : Tail(run)[i] \in ToSet(run)
    BY <1>1, <1>2, <1>3 DEF ToSet
  <2>3. Head(run) \in ToSet(run)
    BY <1>1, <1>2, <1>5 DEF ToSet
  <2> QED
    BY <1>1, <1>2, <2>1, <2>2, <2>3 DEF ToSet
<1>7. Ascending(Tail(run), Len(Tail(run)))
  <2>1. \A i, j \in 1..n - 1 : i < j => i + 1 < j + 1
    BY <1>1
  <2> QED
    BY <1>2, <1>3, <2>1 DEF Ascending, n
<1>8. \A pair \in ToSet(run) : ~Before(pair, Head(run))
  <2>1. \A i \in 1..n : i # 1 => 1 < i
    BY <1>1
  <2>2. ~Before(run[1], run[1])
    BY <1>1, <1>5, PairsOfNumbers, BeforeIsOrder
  <2>3. \A i \in 1..n : ~Before(run[i], run[1])
    BY <1>5, <2>1, <2>2 DEF Ascending, n
  <2> QED
    BY <1>1, <1>2, <2>3 DEF ToSet
<1> QED
  BY <1>1, <1>2, <1>5, <1>6, <1>7, <1>8

----------------------------------------------------------------------------
(* The inductive invariant.                                                *)

First == <<0, 0>>

\* The entries are the pairs that memory, runs and tables hold, so that nothing is
\* lost but what `lost' says.
ContentInv ==
  /\ Entries = (Held(storage, runs) \cup table \cup txn) \ {First}
  /\ ToSet(storage) \subseteq ToSet(put)

\* The runs are in order.
RunsInv == \A i \in DOMAIN runs : Ascending(runs[i], Len(runs[i]))

\* The pairs written come up to the last one taken, and those to come do not come
\* before it.
LastInv ==
  /\ \A e \in table \cup txn : ~Before(last, e)
  /\ \A e \in Held(storage, runs) : ~Before(e, last)
  /\ last \in table \cup txn \cup {First} /\ First \notin table \cup txn

\* Nothing is written before the merge, and memory is empty from then on.
PhaseInv ==
  /\ phase \in {"reading", "endless"} => table = {} /\ txn = {}
  /\ phase # "reading" => storage = <<>>

Inv == TypeOK /\ NeverAborts /\ ContentInv /\ RunsInv /\ LastInv /\ PhaseInv

----------------------------------------------------------------------------
(* Steps.                                                                  *)

LEMMA InvInit == Init => Inv
<1> SUFFICES ASSUME Init PROVE Inv
  OBVIOUS
<1>1. ToSet(<<>>) = {} /\ Held(<<>>, <<>>) = {}
  BY DEF ToSet, Held
<1>2. <<>> \in Seq(Pair) /\ <<>> \in Seq(Seq(Pair)) /\ DOMAIN <<>> = {}
  OBVIOUS
<1>3. TypeOK
  BY <1>1, <1>2, BoundAssumption DEF Init, TypeOK
<1>4. ContentInv
  BY <1>1 DEF Init, ContentInv, Entries
<1>5. RunsInv
  BY <1>2 DEF Init, RunsInv
<1>6. LastInv
  BY <1>1 DEF Init, LastInv, First
<1> QED
  BY <1>3, <1>4, <1>5, <1>6 DEF Init, Inv, NeverAborts, PhaseInv

\* What happens to some pairs in memory, kept or saved, when X are new.
LEMMA Collecting ==
  ASSUME Inv, phase = "reading", UNCHANGED <<last, txn, table, writes>>,
         phase' \in {"reading", "merging", "endless"},
         NEW X, put' \in Seq(Pair), ToSet(put') = ToSet(put) \cup X,
         NEW pairs \in Seq(Pair), ToSet(pairs) = ToSet(storage) \cup X,
         Persist(pairs) \/ (Keep(pairs) /\ (phase' # "reading" => pairs = <<>>))
  PROVE  Inv' /\ Entries' \subseteq Entries \cup X
<1>0. TypeOK /\ ContentInv /\ RunsInv /\ LastInv /\ table = {} /\ txn = {}
  BY DEF Inv, PhaseInv
<1>1. /\ storage \in Seq(Pair) /\ runs \in Seq(Seq(Pair)) /\ lost \subseteq ToSet(put)
      /\ Entries = Held(storage, runs) \ {First} /\ ToSet(storage) \subseteq ToSet(put)
  BY <1>0 DEF TypeOK, ContentInv
<1> DEFINE held == Held(storage', runs')
           saved == UNION {ToSet(runs[i]) : i \in DOMAIN runs}
<1>2. /\ storage' \in Seq(Pair) /\ runs' \in Seq(Seq(Pair)) /\ RunsInv'
      /\ held \subseteq ToSet(pairs) \cup saved /\ saved \subseteq held
      /\ ToSet(pairs) \subseteq held \cup lost'
      /\ lost \subseteq held \cup lost'
      /\ lost' \subseteq lost \cup ToSet(pairs)
      /\ lost' \cap held \subseteq lost \cap saved
      /\ (phase' # "reading" => storage' = <<>>)
      /\ ToSet(storage') \subseteq ToSet(pairs)
  <2>1. CASE Persist(pairs)
    <3>1. PICK run \in Files(pairs) :
            /\ runs' = Append(runs, run)
            /\ lost' = (lost \cup ToSet(pairs)) \ Held(<<>>, runs')
      BY <2>1 DEF Persist
    <3>2. run \in Seq(Pair) /\ ToSet(run) \subseteq ToSet(pairs) /\ Ascending(run, Len(run))
      BY FileIs
    <3>3. /\ runs' \in Seq(Seq(Pair)) /\ Held(<<>>, runs') = Held(<<>>, runs) \cup ToSet(run)
          /\ \A i \in DOMAIN runs' : (i \in DOMAIN runs /\ runs'[i] = runs[i]) \/ runs'[i] = run
      BY <1>1, <3>1, <3>2, AppendedRun
    <3>4. RunsInv'
      BY <1>0, <3>2, <3>3 DEF RunsInv
    <3>5. storage' = <<>> /\ Held(<<>>, runs) = saved
      BY <2>1 DEF Persist, Held, ToSet
    <3>6. storage' \in Seq(Pair) /\ ToSet(storage') = {}
      BY <3>5 DEF ToSet
    <3> QED
      BY <3>1, <3>2, <3>3, <3>4, <3>5, <3>6
  <2>2. CASE Keep(pairs) /\ (phase' # "reading" => pairs = <<>>)
    <3>1. storage' = pairs /\ runs' = runs /\ lost' = lost \ ToSet(pairs)
      BY <2>2 DEF Keep
    <3>2. held = ToSet(pairs) \cup saved
      BY <3>1 DEF Held
    <3>3. RunsInv'
      BY <1>0, <3>1 DEF RunsInv
    <3> QED
      BY <1>1, <2>2, <3>1, <3>2, <3>3
  <2> QED
    BY <2>1, <2>2
<1>3. Held(storage, runs) = ToSet(storage) \cup saved
  BY DEF Held
<1> HIDE DEF held, saved
<1>4. \A b : b \in Entries <=> b \in ToSet(put) /\ b \notin lost /\ b # First
  BY DEF Entries, First
<1>5. \A b : b \in Entries' <=> b \in ToSet(put') /\ b \notin lost' /\ b # First
  BY DEF Entries, First
<1>6. Entries' = held \ {First}
  <2>1. ASSUME NEW b \in Entries' PROVE b \in held
    <3>1. CASE b \in ToSet(pairs) \/ b \in lost
      BY <1>2, <1>5, <3>1
    <3>2. CASE b \notin ToSet(pairs) /\ b \notin lost
      <4>1. b \in ToSet(put) /\ b \notin ToSet(storage)
        BY <1>5, <3>2
      <4>2. b \in Entries
        BY <1>4, <1>5, <3>2, <4>1
      <4> QED
        BY <1>1, <1>2, <1>3, <4>1, <4>2
    <3> QED
      BY <3>1, <3>2
  <2>2. ASSUME NEW b \in held, b # First PROVE b \in Entries'
    <3>1. b \in ToSet(storage) \cup X \cup saved
      BY <1>2
    <3>2. b \in Entries \/ b \in X
      BY <1>1, <1>3, <2>2, <3>1
    <3>3. b \in ToSet(put')
      BY <1>4, <3>2
    <3>4. b \notin lost'
      <4>1. b \in lost' => b \in lost /\ b \in saved
        BY <1>2
      <4>2. b \in saved => b \in Entries
        BY <1>1, <1>3, <2>2
      <4> QED
        BY <1>4, <4>1, <4>2
    <3> QED
      BY <1>5, <2>2, <3>3, <3>4
  <2> QED
    BY <1>5, <2>1, <2>2
<1>7. Entries' \subseteq Entries \cup X
  BY <1>1, <1>2, <1>3, <1>6
<1>8. TypeOK'
  <2>1. lost' \subseteq ToSet(put')
    BY <1>1, <1>2
  <2> QED
    BY <1>0, <1>2, <2>1 DEF TypeOK
<1>9. ContentInv' /\ RunsInv'
  <2>1. ToSet(storage') \subseteq ToSet(put')
    BY <1>1, <1>2
  <2> QED
    BY <1>0, <1>2, <1>6, <2>1 DEF ContentInv, held
<1>10. LastInv'
  <2>1. last = First
    BY <1>0 DEF LastInv
  <2>2. Held(storage, runs)' \subseteq Pair
    BY <1>2, HeldArePairs
  <2>3. \A e \in Held(storage, runs)' : ~Before(e, First)
    BY <2>2, PairsOfNumbers, BeforeIsOrder DEF First
  <2> QED
    BY <1>0, <2>1, <2>3 DEF LastInv
<1> QED
  BY <1>0, <1>2, <1>7, <1>8, <1>9, <1>10 DEF Inv, NeverAborts, PhaseInv

\* The top of the queue is the first of the pairs that are left.
LEMMA TopIsFirst ==
  ASSUME TypeOK, RunsInv, Queue # {}
  PROVE  /\ Top \in Queue
         /\ \A e \in Held(<<>>, runs) : ~Before(e, Head(runs[Top]))
<1> DEFINE heads == [i \in Queue |-> Head(runs[i])]
<1>1. /\ Queue \in SUBSET Nat
      /\ \A i \in Queue : /\ i \in DOMAIN runs /\ runs[i] \in Seq(Pair) /\ runs[i] # <<>>
                          /\ Ascending(runs[i], Len(runs[i]))
  <2>1. DOMAIN runs = 1..Len(runs) /\ runs \in Seq(Seq(Pair))
    BY DEF TypeOK
  <2> QED
    BY <2>1 DEF Queue, RunsInv
<1>2. \A i \in Queue : heads[i] = Head(runs[i]) /\ heads[i] \in Pairs
  BY <1>1, HeadIsFirst, PairsOfNumbers
<1> HIDE DEF heads
<1>3. \E i \in Queue : \A j \in Queue \ {i} :
        Before(heads[i], heads[j]) \/ (heads[i] = heads[j] /\ i < j)
  BY <1>1, <1>2, FirstOfPairs
<1>4. /\ Top \in Queue
      /\ \A j \in Queue \ {Top} :
           \/ Before(Head(runs[Top]), Head(runs[j]))
           \/ Head(runs[Top]) = Head(runs[j]) /\ Top < j
  BY <1>2, <1>3 DEF Top
<1>5. \A j \in Queue : ~Before(Head(runs[j]), Head(runs[Top]))
  BY <1>2, <1>4, BeforeIsOrder
<1>6. ASSUME NEW e \in Held(<<>>, runs) PROVE ~Before(e, Head(runs[Top]))
  <2>1. PICK i \in DOMAIN runs : e \in ToSet(runs[i])
    BY DEF Held, ToSet
  <2>2. i \in Queue
    BY <2>1 DEF Queue, ToSet
  <2>3. ~Before(e, Head(runs[i])) /\ e \in Pairs
    <3>1. ToSet(runs[i]) \subseteq Pair
      BY <1>1, <2>2, ElementsIn
    <3> QED
      BY <1>1, <2>1, <2>2, <3>1, HeadIsFirst, PairsOfNumbers
  <2> QED
    BY <1>2, <1>4, <1>5, <2>2, <2>3, BeforeIsOrder
<1> QED
  BY <1>4, <1>6

\* A step of the merge: the pair taken follows those written, so LMDB appends it,
\* and a commit leaves a beginning of the entries in the table.
LEMMA MergeStep ==
  ASSUME Inv, MergeNext
  PROVE  /\ Inv' /\ UNCHANGED <<Entries, phase>>
         /\ table \subseteq table' /\ table' \subseteq Entries
         /\ table' # table => Build!IsPrefix(table', Entries)
<1> DEFINE pair == Head(runs[Top])
           rest == Tail(runs[Top])
           written == table \cup txn
           left == Held(<<>>, runs')
<1>0. /\ TypeOK /\ ContentInv /\ RunsInv /\ LastInv
      /\ phase = "merging" /\ Queue # {} /\ storage = <<>> /\ storage' = <<>>
  BY DEF Inv, PhaseInv, MergeNext
<1>1. /\ Top \in DOMAIN runs /\ runs[Top] \in Seq(Pair) /\ runs[Top] # <<>>
      /\ Ascending(runs[Top], Len(runs[Top]))
      /\ \A e \in Held(<<>>, runs) : ~Before(e, pair)
  <2>1. Top \in Queue /\ \A e \in Held(<<>>, runs) : ~Before(e, pair)
    BY <1>0, TopIsFirst
  <2>2. Top \in DOMAIN runs /\ runs[Top] # <<>>
    BY <2>1 DEF Queue
  <2> QED
    BY <1>0, <2>1, <2>2 DEF TypeOK, RunsInv
<1>2. /\ pair \in Pair /\ rest \in Seq(Pair) /\ Ascending(rest, Len(rest))
      /\ ToSet(runs[Top]) = {pair} \cup ToSet(rest)
  BY <1>1, HeadIsFirst
<1>3. runs' = [runs EXCEPT ![Top] = rest] /\ runs \in Seq(Seq(Pair))
  BY <1>0 DEF MergeNext, TypeOK
<1>4. /\ last' = pair /\ UNCHANGED <<put, lost>>
      /\ IF pair = last
         THEN UNCHANGED <<txn, table, writes, phase>>
         ELSE IF Appendable(pair)
              THEN WriteIndex(pair) /\ UNCHANGED phase
              ELSE phase' = "aborted"
  BY DEF MergeNext, Unwritten
<1> HIDE DEF pair, rest
<1>5. runs' \in Seq(Seq(Pair)) /\ Held(<<>>, runs) = left \cup {pair}
  <2>1. /\ runs' \in Seq(Seq(Pair)) /\ DOMAIN runs' = DOMAIN runs
        /\ runs'[Top] = rest /\ \A i \in DOMAIN runs : i = Top \/ runs'[i] = runs[i]
    BY <1>1, <1>2, <1>3
  <2>2. ASSUME NEW x PROVE x \in Held(<<>>, runs) <=> x \in left \/ x = pair
    <3>1. x \in Held(<<>>, runs) <=> \E i \in DOMAIN runs : x \in ToSet(runs[i])
      BY DEF Held, ToSet
    <3>2. x \in left <=> \E i \in DOMAIN runs : x \in ToSet(runs'[i])
      BY <2>1 DEF Held, ToSet
    <3>3. x \in ToSet(runs[Top]) <=> x \in ToSet(runs'[Top]) \/ x = pair
      BY <1>2, <2>1
    <3> QED
      BY <1>1, <2>1, <3>1, <3>2, <3>3
  <2> QED
    BY <2>1, <2>2
<1>6. RunsInv'
  <2>1. \A i \in DOMAIN runs : runs'[i] = IF i = Top THEN rest ELSE runs[i]
    BY <1>1, <1>3
  <2>2. DOMAIN runs' = DOMAIN runs
    BY <1>3
  <2> QED
    BY <1>0, <1>2, <2>1, <2>2 DEF RunsInv
<1>7. /\ written \subseteq Pair /\ last \in Pair \cup {First} /\ left \subseteq Pair
      /\ \A e \in written : e \in Pairs
      /\ pair \in Pairs /\ last \in Pairs
  <2>1. written \subseteq Pair /\ last \in Pair \cup {First}
    BY <1>0 DEF TypeOK, First
  <2>2. left \subseteq Pair
    <3>1. <<>> \in Seq(Pair)
      OBVIOUS
    <3> QED
      BY <1>5, <3>1, HeldArePairs
  <2> QED
    BY <1>2, <2>1, <2>2, PairsOfNumbers DEF First
<1>8. /\ \A e \in written : ~Before(last, e)
      /\ ~Before(pair, last)
      /\ last \in written \cup {First} /\ First \notin written
      /\ Entries = (left \cup {pair} \cup written) \ {First}
  <2>1. Held(storage, runs) = left \cup {pair}
    BY <1>0, <1>5
  <2> QED
    BY <1>0, <2>1 DEF LastInv, ContentInv
<1>9. \A e \in left : ~Before(e, pair)
  BY <1>1, <1>5
<1>10. \A e \in written : ~Before(pair, e)
  BY <1>7, <1>8, BeforeIsOrder
<1>11. ASSUME pair # last
       PROVE  /\ Before(last, pair) /\ pair # First
              /\ \A e \in written : Before(e, pair)
              /\ Appendable(pair)
  <2>1. Before(last, pair)
    BY <1>7, <1>8, <1>11, BeforeIsOrder
  <2>2. pair # First
    BY <1>7, <2>1, BeforeIsOrder DEF First
  <2>3. ASSUME NEW e \in written PROVE Before(e, pair)
    <3>1. e = pair => FALSE
      BY <1>7, <1>8, <2>1, BeforeIsOrder
    <3> QED
      BY <1>7, <1>10, <3>1, BeforeIsOrder
  <2>4. Appendable(pair)
    <3> SUFFICES ASSUME NEW e \in written
                 PROVE  IF pair[1] # last[1] THEN e[1] < pair[1]
                        ELSE e[1] = pair[1] => e[2] < pair[2]
      BY DEF Appendable
    <3>1. Before(e, pair) /\ ~Before(last, e) /\ Before(last, pair)
      BY <1>8, <2>1, <2>3
    <3>2. /\ e[1] \in Nat /\ e[2] \in Nat /\ pair[1] \in Nat /\ pair[2] \in Nat
          /\ last[1] \in Nat /\ last[2] \in Nat
      BY <1>7, PairParts
    <3> QED
      BY <3>1, <3>2 DEF Before
  <2> QED
    BY <2>1, <2>2, <2>3, <2>4
<1>12. /\ phase' = phase /\ table' \cup txn' = IF pair = last THEN written ELSE written \cup {pair}
       /\ table' = table \/ (pair # last /\ table' = written \cup {pair})
       /\ writes' \in 0..BatchSize
  <2>1. CASE pair = last
    BY <1>0, <1>4, <2>1 DEF TypeOK
  <2>2. CASE pair # last
    <3>1. WriteIndex(pair) /\ UNCHANGED phase
      BY <1>4, <1>11, <2>2
    <3>2. writes' \in 0..BatchSize
      BY <1>0, <3>1, BoundAssumption DEF WriteIndex, TypeOK
    <3> QED
      BY <2>2, <3>1, <3>2 DEF WriteIndex
  <2> QED
    BY <2>1, <2>2
<1> DEFINE writtenAfter == table' \cup txn'
<1>13. writtenAfter \subseteq written \cup {pair} /\ written \subseteq writtenAfter
  BY <1>12
<1>14. Entries' = Entries
  BY <1>4 DEF Entries
<1>15. pair \in writtenAfter \cup {First} /\ First \notin writtenAfter
  BY <1>8, <1>11, <1>12
<1>16. TypeOK'
  <2>1. storage' \in Seq(Pair)
    BY <1>0 DEF TypeOK
  <2> QED
    BY <1>0, <1>2, <1>4, <1>5, <1>7, <1>12, <1>13, <2>1 DEF TypeOK
<1>17. ContentInv'
  <2>1. Entries' = (left \cup writtenAfter) \ {First}
    BY <1>8, <1>13, <1>14, <1>15
  <2>2. Held(storage, runs)' = left /\ ToSet(storage') = {}
    BY <1>0 DEF Held, ToSet
  <2> QED
    BY <2>1, <2>2 DEF ContentInv
<1>18. LastInv'
  <2>1. Held(storage, runs)' = left
    BY <1>0
  <2>2. \A e \in writtenAfter : ~Before(pair, e)
    BY <1>7, <1>10, <1>13, BeforeIsOrder
  <2> QED
    BY <1>4, <1>9, <1>15, <2>1, <2>2 DEF LastInv
<1>19. Inv'
  BY <1>0, <1>6, <1>12, <1>16, <1>17, <1>18 DEF Inv, NeverAborts, PhaseInv
<1>20. table \subseteq table' /\ table' \subseteq Entries
  <2>1. table \subseteq Entries
    BY <1>8
  <2>2. table' = written \cup {pair} /\ pair # last => table' \subseteq Entries
    BY <1>8, <1>11
  <2> QED
    BY <1>12, <2>1, <2>2
<1>21. ASSUME table' # table PROVE Build!IsPrefix(table', Entries)
  <2>1. pair # last /\ table' = written \cup {pair}
    BY <1>12, <1>21
  <2>2. ASSUME NEW a \in table', NEW b \in Entries, Before(b, a) PROVE b \in table'
    <3>1. CASE b \in left
      <4>1. b \in Pairs /\ a \in Pairs /\ ~Before(b, pair)
        BY <1>7, <1>9, <2>1, <3>1, PairsOfNumbers
      <4>2. ~Before(pair, a)
        BY <1>7, <1>10, <2>1, BeforeIsOrder
      <4> QED
        BY <1>7, <2>2, <4>1, <4>2, BeforeIsOrder
    <3>2. CASE b \notin left
      BY <1>8, <2>1, <3>2
    <3> QED
      BY <3>1, <3>2
  <2> QED
    BY <1>20, <2>2 DEF Build!IsPrefix, Build!Before, Before
<1> QED
  BY <1>12, <1>14, <1>19, <1>20, <1>21

\* Each step keeps the invariant, and is a step of the abstract build or shows
\* readers nothing.
LEMMA SortStep ==
  ASSUME Inv, [Next]_vars
  PROVE  Inv' /\ [Build!Next]_(Build!vars)
<1> USE DEF Build!vars, Build!Next, Build!Collect, Build!Seal, Build!Lose
<1>0. TypeOK /\ PhaseInv /\ NeverAborts
  BY DEF Inv
<1>1. ASSUME NEW pair \in Pair, Put(pair)
      PROVE  Inv' /\ [Build!Next]_(Build!vars)
  <2> DEFINE grown == Append(storage, pair)
  <2>1. /\ phase = "reading" /\ phase' = "reading" /\ put' = Append(put, pair)
        /\ UNCHANGED <<last, txn, table, writes>> /\ (Persist(grown) \/ Keep(grown))
    BY <1>1 DEF Put
  <2>2. /\ put' \in Seq(Pair) /\ ToSet(put') = ToSet(put) \cup {pair}
        /\ grown \in Seq(Pair) /\ ToSet(grown) = ToSet(storage) \cup {pair}
    BY <1>0, <2>1, AppendedSet DEF TypeOK
  <2> HIDE DEF grown
  <2>3. Inv' /\ Entries' \subseteq Entries \cup {pair}
    BY <2>1, <2>2, Collecting
  <2> QED
    BY <2>1, <2>3
<1>2. ASSUME StartMerge \/ OpenFails
      PROVE  Inv' /\ [Build!Next]_(Build!vars)
  <2>1. /\ phase = "reading" /\ phase' \in {"merging", "endless"} /\ put' = put
        /\ UNCHANGED <<last, txn, table, writes>>
        /\ Persist(storage) \/ (Keep(storage) /\ storage = <<>>)
    BY <1>2 DEF StartMerge, OpenFails
  <2>2. /\ put' \in Seq(Pair) /\ storage \in Seq(Pair)
        /\ ToSet(put') = ToSet(put) \cup {} /\ ToSet(storage) = ToSet(storage) \cup {}
    BY <1>0, <2>1 DEF TypeOK
  <2>3. Inv' /\ Entries' \subseteq Entries \cup {}
    BY <2>1, <2>2, Collecting
  <2> QED
    BY <2>1, <2>3
<1>3. CASE MergeNext
  <2>1. /\ Inv' /\ UNCHANGED <<Entries, phase>> /\ phase = "merging"
        /\ table \subseteq table' /\ table' \subseteq Entries
        /\ table' # table => Build!IsPrefix(table', Entries)
    BY <1>3, MergeStep DEF MergeNext
  <2>2. CASE table' = table
    BY <2>1, <2>2
  <2>3. CASE table' # table
    <3>1. table \cup table' = table'
      BY <2>1
    <3>2. Build!Publish
      BY <2>1, <2>3, <3>1 DEF Build!Publish
    <3> QED
      BY <2>1, <3>2
  <2> QED
    BY <2>2, <2>3
<1>4. CASE FinishMerge
  <2>1. /\ phase = "merging" /\ phase' = "done" /\ Queue = {} /\ table' = table \cup txn
        /\ txn' = {} /\ runs' = <<>> /\ storage = <<>>
        /\ UNCHANGED <<put, lost, storage, last, writes>>
    BY <1>0, <1>4 DEF FinishMerge, PhaseInv
  <2>2. Entries' = Entries
    BY <2>1 DEF Entries
  <2>3. Held(storage, runs) = {} /\ Held(storage, runs)' = {} /\ ToSet(storage') = {}
    <3>1. \A i \in DOMAIN runs : ToSet(runs[i]) = {}
      BY <2>1 DEF Queue, ToSet
    <3>2. DOMAIN <<>> = {} /\ ToSet(<<>>) = {}
      BY DEF ToSet
    <3> QED
      BY <2>1, <3>1, <3>2 DEF Held
  <2>4. Entries = table'
    BY <2>1, <2>3 DEF Inv, ContentInv, LastInv
  <2>5. Inv'
    <3>1. TypeOK'
      BY <1>0, <2>1 DEF TypeOK
    <3>2. RunsInv'
      BY <2>1 DEF RunsInv
    <3>3. ContentInv' /\ LastInv'
      BY <2>1, <2>2, <2>3, <2>4 DEF Inv, ContentInv, LastInv
    <3> QED
      BY <2>1, <3>1, <3>2, <3>3 DEF Inv, NeverAborts, PhaseInv
  <2>6. Build!Finish
    BY <2>1, <2>2, <2>4 DEF Build!Finish
  <2> QED
    BY <2>5, <2>6
<1>5. CASE Stopped \/ UNCHANGED vars
  <2>1. UNCHANGED vars
    BY <1>5 DEF Stopped
  <2>2. Entries' = Entries
    BY <2>1 DEF Entries, vars
  <2>3. Inv'
    BY <2>1, <2>2 DEF Inv, vars, TypeOK, NeverAborts, ContentInv, RunsInv, LastInv,
       PhaseInv, Held
  <2> QED
    BY <2>1, <2>2, <2>3 DEF vars
<1> QED
  BY <1>1, <1>2, <1>3, <1>4, <1>5 DEF Next, Work

\* The inductive invariant holds.
LEMMA InvHolds == Spec => []Inv
<1>1. Inv /\ [Next]_vars => Inv'
  BY SortStep
<1> QED
  BY InvInit, <1>1, PTL DEF Spec

----------------------------------------------------------------------------
(* What the sort promises.                                                 *)

\* The variables keep their types.
THEOREM SorterTypes == Spec => []TypeOK
  BY InvHolds, PTL DEF Inv

\* No put of the merge is refused by MDB_APPEND or MDB_APPENDDUP, however many runs
\* there are and wherever a full disk cuts them short.
THEOREM SorterNeverAborts == Spec => []NeverAborts
  BY InvHolds, PTL DEF Inv

\* The sort builds the index: every commit leaves a beginning of the entries, and the
\* last leaves them all (the safety part of BuildsIndex).
THEOREM SorterBuilds == Spec => Build!Init /\ [][Build!Next]_(Build!vars)
<1>1. Init => Build!Init
  BY DEF Init, Build!Init, Entries, ToSet
<1>2. Inv /\ [Next]_vars => [Build!Next]_(Build!vars)
  BY SortStep
<1> QED
  BY InvHolds, <1>1, <1>2, PTL DEF Spec
=============================================================================
