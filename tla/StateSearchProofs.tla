-------------------------- MODULE StateSearchProofs --------------------------
(***************************************************************************)
(* Proofs about the search for a state: its bounds always enclose the      *)
(* timestamp, for every server and every way its requests fail, and        *)
(* without failures it finds the last state before the timestamp.          *)
(***************************************************************************)
EXTENDS StateSearch, NumberProofs

\* The bounds while the search for a lower bound and the interpolation run.
Enclosed ==
  /\ pc = "latest" => lowerid = 0
  /\ pc = "lower" =>
       /\ upper \in SeqId /\ lowerid < upper /\ target <= times[upper]
  /\ pc = "split" =>
       /\ upper \in SeqId /\ lower \in SeqId /\ lower < upper
       /\ times[lower] < target /\ target <= times[upper]

Inv == TypeOK /\ Enclosed

USE SearchAssumption DEF SeqId, None, server

\* Half way between two ids is a number between them.
LEMMA Halfway ==
  ASSUME NEW a \in Nat, NEW b \in Nat, a <= b
  PROVE  (a + b) \div 2 \in a..b /\ (a < b => (a + b) \div 2 < b)
  OBVIOUS

\* The product of two numbers not below zero is not below zero.
LEMMA ProductNat == \A a, b \in Nat : a * b \in Nat
  OBVIOUS

\* So is a quotient.
LEMMA QuotientNat == \A a \in Nat, b \in Nat \ {0} : a \div b \in Nat
  OBVIOUS

\* Enclosing bounds make the interpolated id one between them.
LEMMA BaseBetween ==
  ASSUME TypeOK, Enclosed, pc = "split"
  PROVE  Base \in Nat /\ lower <= Base /\ Base < upper
<1> DEFINE ts_int == times[upper] - times[lower]
           goal   == target - times[lower]
           seqs   == upper - lower
           steps  == (goal * seqs + ts_int - 1) \div ts_int
<1>1. ts_int \in Nat \ {0} /\ goal \in Nat /\ seqs \in Nat \ {0}
  BY DEF TypeOK, Enclosed
<1>2. goal * seqs \in Nat
  <2> HIDE DEF goal, seqs
  <2> QED
    BY <1>1, ProductNat
<1>3. goal * seqs + ts_int - 1 \in Nat
  <2> HIDE DEF goal, seqs, ts_int
  <2>1. goal * seqs \in Nat /\ ts_int \in Nat \ {0}
    BY <1>1, <1>2
  <2> DEFINE product == goal * seqs
  <2> HIDE DEF product
  <2> QED
    BY <2>1 DEF product
<1>4. steps \in Nat
  <2> DEFINE dividend == goal * seqs + ts_int - 1
  <2> HIDE DEF dividend, ts_int
  <2>1. dividend \div ts_int \in Nat
    BY <1>1, <1>3, QuotientNat DEF dividend
  <2> QED
    BY <2>1 DEF dividend
<1>5. Base = IF lower + steps >= upper THEN upper - 1 ELSE lower + steps
  BY DEF Base
<1>6. lower \in Nat /\ upper \in Nat /\ lower < upper
  BY DEF TypeOK, Enclosed
<1> HIDE DEF steps
<1> QED
  BY <1>4, <1>5, <1>6

\* The next id of the search for a lower bound is between the last and the upper.
LEMMA TryHigherKeeps ==
  ASSUME NEW id \in SeqId, NEW up \in SeqId, id < up \/ id = 0, pc = "lower",
         TypeOK, TryHigher(id, up)
  PROVE  \/ pc' = "done" /\ result' = up /\ lowerid' = lowerid
         \/ pc' = "lower" /\ result' = result /\ lowerid' \in SeqId /\ lowerid' < up
<1>1. (id + up) \div 2 \in id..up /\ (id < up => (id + up) \div 2 < up)
  BY Halfway
<1> QED
  BY <1>1 DEF TryHigher, Return

\* The invariant holds in the initial states.
LEMMA InvInit == Init => Inv
  BY DEF Init, Inv, TypeOK, Enclosed

\* Every step keeps it.
LEMMA InvNext == Inv /\ [Next]_vars => Inv'
<1> SUFFICES ASSUME Inv, [Next]_vars PROVE Inv'
  OBVIOUS
<1>0. TypeOK /\ Enclosed
  BY DEF Inv
<1>1. CASE LatestFails
  BY <1>0, <1>1 DEF LatestFails, Return, Inv, TypeOK, Enclosed
<1>2. CASE LatestSuffices
  BY <1>0, <1>2 DEF LatestSuffices, Return, Inv, TypeOK, Enclosed
<1>3. CASE TakeLatest
  <2>1. TypeOK'
    BY <1>0, <1>3 DEF TakeLatest, TypeOK
  <2>2. target < times[Last] /\ UNCHANGED <<times, target>> /\ upper' = Last /\ pc' = "lower"
    BY <1>3 DEF TakeLatest
  <2>3. lowerid < Last
    BY <1>0, <1>3 DEF TakeLatest, Enclosed
  <2>4. lowerid' = lowerid /\ times[Last] \in Int /\ target \in Int
    BY <1>0, <1>3 DEF TakeLatest, TypeOK
  <2>5. Enclosed'
    BY <2>2, <2>3, <2>4 DEF Enclosed
  <2> QED
    BY <2>1, <2>5 DEF Inv
<1>4. CASE FoundLower
  BY <1>0, <1>4 DEF FoundLower, Inv, TypeOK, Enclosed
<1>5. CASE FoundUpper
  <2>1. CASE lowerid = 0 \/ lowerid + 1 >= upper
    BY <1>0, <1>5, <2>1 DEF FoundUpper, Return, Inv, TypeOK, Enclosed
  <2>2. CASE ~(lowerid = 0 \/ lowerid + 1 >= upper)
    <3>1. TryHigher(0, lowerid) /\ upper' = lowerid /\ pc = "lower"
      BY <1>5, <2>2 DEF FoundUpper
    <3>2. lowerid \in SeqId /\ 0 \in SeqId
      BY <1>0 DEF TypeOK
    <3>3. \/ pc' = "done" /\ result' = lowerid /\ lowerid' = lowerid
          \/ pc' = "lower" /\ result' = result /\ lowerid' \in SeqId /\ lowerid' < lowerid
      BY <1>0, <3>1, <3>2, TryHigherKeeps
    <3> QED
      BY <1>0, <1>5, <3>1, <3>2, <3>3 DEF FoundUpper, Inv, TypeOK, Enclosed
  <2> QED
    BY <2>1, <2>2
<1>6. CASE NotFound
  <2>1. TryHigher(lowerid, upper) /\ pc = "lower" /\ UNCHANGED <<server, upper, lower>>
    BY <1>6 DEF NotFound
  <2>2. lowerid \in SeqId /\ upper \in SeqId /\ lowerid < upper
    BY <1>0, <2>1 DEF TypeOK, Enclosed
  <2>3. \/ pc' = "done" /\ result' = upper /\ lowerid' = lowerid
        \/ pc' = "lower" /\ result' = result /\ lowerid' \in SeqId /\ lowerid' < upper
    BY <1>0, <2>1, <2>2, TryHigherKeeps
  <2> QED
    BY <1>0, <2>1, <2>2, <2>3 DEF Inv, TypeOK, Enclosed
<1>7. CASE Split
  <2>1. /\ pc = "split" /\ UNCHANGED <<server, lowerid>>
        /\ IF lower' + 1 >= upper' THEN Return(lower') ELSE UNCHANGED <<pc, result>>
    BY <1>7 DEF Split
  <2>2. PICK readable \in Readable : \E split \in readable :
          IsSplit(split, readable) /\ Narrow(split)
    BY <1>7 DEF Split
  <2>3. PICK split \in readable : IsSplit(split, readable) /\ Narrow(split)
    BY <2>2
  <2>4. split \in SeqId
    BY <2>2, <2>3 DEF Readable
  <2>5. Base \in Nat /\ lower <= Base /\ Base < upper
    BY <1>0, <2>1, BaseBetween
  <2>6. lower <= split /\ split < upper
    BY <1>0, <2>1, <2>3, <2>4, <2>5 DEF IsSplit, TypeOK, Enclosed
  <2>7. /\ lower' \in SeqId /\ upper' \in SeqId
        /\ lower' < upper' /\ times[lower'] < target /\ target <= times[upper']
    <3>1. CASE times[split] < target
      BY <1>0, <2>1, <2>3, <2>4, <2>6, <3>1 DEF Narrow, TypeOK, Enclosed
    <3>2. CASE ~(times[split] < target)
      <4>1. split # lower
        BY <1>0, <2>1, <3>2 DEF Enclosed
      <4> QED
        BY <1>0, <2>1, <2>3, <2>4, <2>6, <3>2, <4>1 DEF Narrow, TypeOK, Enclosed
    <3> QED
      BY <3>1, <3>2
  <2> QED
    BY <1>0, <2>1, <2>7 DEF Return, Inv, TypeOK, Enclosed
<1>8. CASE NoSplit
  BY <1>0, <1>8 DEF NoSplit, Return, Inv, TypeOK, Enclosed
<1>9. CASE UNCHANGED vars
  BY <1>0, <1>9 DEF vars, Inv, TypeOK, Enclosed
<1> QED
  BY <1>1, <1>2, <1>3, <1>4, <1>5, <1>6, <1>7, <1>8, <1>9 DEF Next, Step, Stopped

\* The invariant holds in every state the search reaches.
LEMMA InvHolds == Spec => []Inv
<1> QED
  BY InvInit, InvNext, PTL DEF Spec

\* The types of the search hold; it never answers with a number that the server
\* does not have (timestamp_to_sequence).
THEOREM SearchTypes == Spec => []TypeOK
<1>1. Inv => TypeOK
  BY DEF Inv
<1> QED
  BY <1>1, InvHolds, PTL

\* The bounds enclose the timestamp, for every server and any failing requests:
\* the interpolation never divides by zero and stays between the bounds.
THEOREM SearchBrackets == Spec => []Brackets
<1>1. Inv => Brackets
  <2> SUFFICES ASSUME Inv PROVE Brackets
    OBVIOUS
  <2>1. TypeOK /\ Enclosed
    BY DEF Inv
  <2>2. pc = "lower" => lowerid < upper /\ target <= times[upper]
    BY <2>1 DEF Enclosed
  <2>3. pc = "split" => lower <= Base /\ Base < upper
    BY <2>1, BaseBetween
  <2>4. pc = "split" => lower < upper /\ times[lower] < target /\ target <= times[upper]
    BY <2>1 DEF Enclosed
  <2> QED
    BY <2>2, <2>3, <2>4 DEF Brackets
<1> QED
  BY <1>1, InvHolds, PTL

----------------------------------------------------------------------------
(* The answer of a search whose requests do not fail.                      *)

\* A later state has no earlier timestamp.
InOrder == \A s, t \in SeqId : s <= t => times[s] <= times[t]

\* Without failures the search for a lower bound takes id 0, and the lower bound
\* is a state with a file.
Reliable == ~flaky /\ 0 \notin missing

AnswerInv ==
  /\ InOrder
  /\ pc \in {"lower", "split"} => target < times[Last]
  /\ Reliable =>
       /\ pc = "lower" => lowerid = 0
       /\ pc = "split" => lower \in Earlier
  /\ Exact

\* Timestamps that do not decrease from state to state are in order.
LEMMA StepsInOrder ==
  ASSUME times \in [SeqId -> 0..MaxTime], \A s \in 1..Last : times[s - 1] <= times[s]
  PROVE  InOrder
<1> SUFFICES ASSUME NEW s \in SeqId, NEW t \in SeqId, s <= t
             PROVE  times[s] <= times[t]
  BY DEF InOrder
<1> DEFINE S == {n \in Nat : s + n \in SeqId => times[s] <= times[s + n]}
<1>1. 0 \in S
  OBVIOUS
<1>2. ASSUME NEW n \in Nat, n \in S PROVE n + 1 \in S
  <2> SUFFICES ASSUME s + (n + 1) \in SeqId PROVE times[s] <= times[s + (n + 1)]
    OBVIOUS
  <2> DEFINE u == s + (n + 1)
  <2>1. s + n \in SeqId /\ s + n = u - 1 /\ u \in 1..Last
    OBVIOUS
  <2>2. times[s] <= times[u - 1] /\ times[u - 1] <= times[u]
    BY <1>2, <2>1
  <2>3. times[s] \in Int /\ times[u - 1] \in Int /\ times[u] \in Int
    BY <2>1
  <2> HIDE DEF u
  <2>4. times[s] <= times[u]
    BY <2>2, <2>3
  <2> QED
    BY <2>4 DEF u
<1>3. Nat \subseteq S
  <2> HIDE DEF S
  <2> QED
    BY <1>1, <1>2, SetInduction
<1>4. t - s \in Nat /\ s + (t - s) = t
  OBVIOUS
<1>5. t - s \in S
  BY <1>3, <1>4
<1> QED
  BY <1>4, <1>5

\* A state that is earlier than the timestamp is before the upper bound.
LEMMA EarlierBelow ==
  ASSUME TypeOK, InOrder, NEW up \in SeqId, target <= times[up]
  PROVE  \A s \in Earlier : s < up
  BY DEF TypeOK, InOrder, Earlier

\* Between the bounds every readable state is found, at the last or first.
LEMMA SplitExists ==
  ASSUME TypeOK, Enclosed, pc = "split",
         NEW readable \in SUBSET SeqId,
         \A split \in readable : ~IsSplit(split, readable)
  PROVE  \A s \in readable : ~(lower < s /\ s < upper)
<1> DEFINE below == {s \in readable : s = Base \/ (lower < s /\ s < Base)}
           above == {s \in readable : Base < s /\ s < upper}
<1>0. Base \in Nat /\ Base < upper /\ upper \in SeqId /\ lower \in SeqId
  BY BaseBetween DEF Enclosed
<1>1. below = {}
  <2> SUFFICES ASSUME below # {} PROVE FALSE
    OBVIOUS
  <2>1. below \subseteq readable /\ readable \subseteq 0..Last
    OBVIOUS
  <2>2. PICK split \in below : \A s \in below : s <= split
    <3> HIDE DEF below
    <3>1. 0 \in Int /\ Last \in Int /\ below \in SUBSET (0..Last)
      BY <2>1
    <3>2. \E m \in below : \A n \in below : n <= m
      BY <3>1, GreatestNumber
    <3> QED
      BY <3>2
  <2>3. IsSplit(split, readable)
    BY <2>2 DEF IsSplit
  <2> QED
    BY <2>3
<1>2. above = {}
  <2> SUFFICES ASSUME above # {} PROVE FALSE
    OBVIOUS
  <2>1. above \subseteq readable /\ readable \subseteq 0..Last
    OBVIOUS
  <2>2. PICK split \in above : \A s \in above : split <= s
    <3> HIDE DEF above
    <3>1. above \in SUBSET Nat
      BY <2>1
    <3> QED
      BY <3>1, LeastNumber
  <2>3. IsSplit(split, readable)
    BY <1>1, <2>2 DEF IsSplit
  <2> QED
    BY <2>3
<1> QED
  BY <1>0, <1>1, <1>2

\* The search starts with timestamps in order.
LEMMA AnswerInit == Init => AnswerInv
  BY StepsInOrder DEF Init, AnswerInv, Exact

\* Every step of the search keeps it.
LEMMA AnswerNext == Inv /\ AnswerInv /\ [Next]_vars => AnswerInv'
<1> SUFFICES ASSUME Inv, AnswerInv, [Next]_vars PROVE AnswerInv'
  OBVIOUS
<1>0. TypeOK /\ Enclosed /\ InOrder /\ Exact
  BY DEF Inv, AnswerInv
<1> DEFINE Ordered == InOrder' /\ UNCHANGED server /\ (Reliable' <=> Reliable) /\ Earlier' = Earlier
<1>1. ASSUME UNCHANGED server PROVE Ordered
  BY <1>0, <1>1 DEF InOrder, Reliable, Earlier
<1>2. CASE LatestFails
  <2>1. Ordered /\ flaky
    BY <1>1, <1>2 DEF LatestFails
  <2> QED
    BY <1>2, <2>1 DEF LatestFails, Return, AnswerInv, Reliable, Exact
<1>3. CASE LatestSuffices
  <2>1. Ordered /\ pc' = "done" /\ result' = Last
    BY <1>1, <1>3 DEF LatestSuffices, Return
  <2>2. target < times[Last] => Earlier = {} /\ Last = 0
    <3> SUFFICES ASSUME target < times[Last] PROVE Earlier = {} /\ Last = 0
      OBVIOUS
    <3>1. target >= times[Last] \/ Last <= 0
      BY <1>3 DEF LatestSuffices
    <3>2. target \in Int /\ times[Last] \in Int
      BY <1>0 DEF TypeOK
    <3>3. Last = 0 /\ \A s \in SeqId : s = 0
      BY <3>1, <3>2
    <3> QED
      BY <1>0, <3>3 DEF Earlier, TypeOK
  <2>3. target >= times[Last] \/ target < times[Last]
    BY <1>0 DEF TypeOK
  <2> QED
    BY <2>1, <2>2, <2>3 DEF AnswerInv, Exact
<1>4. CASE TakeLatest
  <2>1. /\ Ordered /\ pc = "latest" /\ target < times[Last] /\ pc' = "lower"
        /\ lowerid' = lowerid
    BY <1>1, <1>4 DEF TakeLatest
  <2>2. lowerid = 0
    BY <1>0, <2>1 DEF Enclosed
  <2> QED
    BY <2>1, <2>2 DEF AnswerInv, Exact
<1>5. CASE FoundLower
  <2>1. /\ Ordered /\ pc = "lower" /\ pc' = "split" /\ lower' = lowerid
        /\ times[lowerid] < target
        /\ \E readable \in Readable : lowerid \in readable
    BY <1>1, <1>5 DEF FoundLower
  <2>2. Reliable => lowerid \in Earlier
    BY <1>0, <2>1 DEF Readable, Reliable, Earlier, TypeOK
  <2>3. target < times[Last]
    BY <2>1 DEF AnswerInv
  <2> QED
    BY <2>1, <2>2, <2>3 DEF AnswerInv, Exact
<1>6. CASE FoundUpper
  <2>1. Ordered /\ pc = "lower" /\ times[lowerid] >= target
    BY <1>1, <1>6 DEF FoundUpper
  <2>2. target < times[Last]
    BY <2>1 DEF AnswerInv
  <2>3. CASE Reliable
    <3>1. lowerid = 0 /\ pc' = "done" /\ result' = 0
      BY <1>6, <2>1, <2>3 DEF FoundUpper, Return, AnswerInv
    <3>2. Earlier = {}
      BY <1>0, <2>1, <3>1 DEF InOrder, Earlier, TypeOK
    <3>3. ~(target >= times[Last])
      BY <1>0, <2>2 DEF TypeOK
    <3> QED
      BY <2>1, <3>1, <3>2, <3>3 DEF AnswerInv, Exact
  <2>4. CASE ~Reliable
    <3>1. pc' \in {"lower", "done"}
      BY <1>6, <2>1 DEF FoundUpper, TryHigher, Return
    <3> QED
      BY <2>1, <2>2, <2>4, <3>1 DEF AnswerInv, Exact, Reliable
  <2> QED
    BY <2>3, <2>4
<1>7. CASE NotFound
  <2>1. Ordered /\ pc = "lower" /\ \E readable \in Readable : lowerid \notin readable
    BY <1>1, <1>7 DEF NotFound
  <2>2. ~Reliable
    BY <2>1 DEF AnswerInv, Readable, Reliable
  <2>3. pc' \in {"lower", "done"} /\ target < times[Last]
    BY <1>7, <2>1 DEF NotFound, TryHigher, Return, AnswerInv
  <2> QED
    BY <2>1, <2>2, <2>3 DEF AnswerInv, Exact, Reliable
<1>8. CASE Split
  <2>1. /\ Ordered /\ pc = "split" /\ target < times[Last]
        /\ IF lower' + 1 >= upper' THEN Return(lower') ELSE UNCHANGED <<pc, result>>
    BY <1>1, <1>8 DEF Split, AnswerInv
  <2>2. pc' \in {"split", "done"} /\ (pc' = "done" => lower' + 1 >= upper' /\ result' = lower')
    BY <2>1 DEF Return
  <2>3. CASE Reliable
    <3>1. PICK readable \in Readable : \E split \in readable :
            IsSplit(split, readable) /\ Narrow(split)
      BY <1>8 DEF Split
    <3>2. PICK split \in readable : IsSplit(split, readable) /\ Narrow(split)
      BY <3>1
    <3>3. split \in SeqId \ missing
      BY <2>3, <3>1, <3>2 DEF Readable, Reliable
    <3>4. lower' \in Earlier
      BY <2>1, <2>3, <3>2, <3>3 DEF Narrow, AnswerInv, Earlier
    <3>5. ASSUME pc' = "done" PROVE result' \in Earlier /\ \A s \in Earlier : s <= result'
      <4>1. upper' \in SeqId /\ target <= times[upper']
        BY <1>0, <2>1, <3>2, <3>3 DEF Narrow, Enclosed, TypeOK
      <4>2. \A s \in Earlier : s < upper'
        BY <1>0, <4>1, EarlierBelow
      <4>3. lower' \in Nat /\ lower' + 1 >= upper'
        BY <2>2, <3>4, <3>5 DEF Earlier
      <4>4. \A s \in Earlier : s <= lower'
        <5> SUFFICES ASSUME NEW s \in Earlier PROVE s <= lower'
          OBVIOUS
        <5>1. s < upper' /\ s \in Nat /\ upper' \in Nat
          BY <4>1, <4>2 DEF Earlier
        <5>2. \A l, u, n \in Nat : l + 1 >= u /\ n < u => n <= l
          OBVIOUS
        <5> QED
          BY <4>3, <5>1, <5>2
      <4> QED
        BY <2>2, <3>4, <3>5, <4>4
    <3>6. ~(target >= times[Last])
      BY <1>0, <2>1 DEF TypeOK
    <3> QED
      BY <2>1, <2>2, <3>4, <3>5, <3>6 DEF AnswerInv, Exact
  <2>4. CASE ~Reliable
    BY <2>1, <2>2, <2>4 DEF AnswerInv, Exact, Reliable
  <2> QED
    BY <2>3, <2>4
<1>9. CASE NoSplit
  <2>1. /\ Ordered /\ pc = "split" /\ target < times[Last]
        /\ pc' = "done" /\ result' = lower
    BY <1>1, <1>9 DEF NoSplit, Return, AnswerInv
  <2>2. CASE Reliable
    <3>1. \A split \in SeqId \ missing : ~IsSplit(split, SeqId \ missing)
      BY <1>9, <2>2 DEF NoSplit, Readable, Reliable
    <3>2. \A s \in SeqId \ missing : ~(lower < s /\ s < upper)
      BY <1>0, <2>1, <3>1, SplitExists
    <3>3. upper \in SeqId /\ target <= times[upper] /\ lower \in Earlier
      BY <1>0, <2>1, <2>2 DEF Enclosed, AnswerInv
    <3>4. \A s \in Earlier : s < upper
      BY <1>0, <3>3, EarlierBelow
    <3>5. \A s \in Earlier : s <= lower
      BY <3>2, <3>3, <3>4 DEF Earlier
    <3>6. ~(target >= times[Last])
      BY <1>0, <2>1 DEF TypeOK
    <3> QED
      BY <2>1, <3>3, <3>5, <3>6 DEF AnswerInv, Exact
  <2>3. CASE ~Reliable
    BY <2>1, <2>3 DEF AnswerInv, Exact, Reliable
  <2> QED
    BY <2>2, <2>3
<1>10. CASE UNCHANGED vars
  <2>1. Ordered /\ UNCHANGED <<pc, lower, lowerid, result>>
    BY <1>1, <1>10 DEF vars
  <2> QED
    BY <2>1 DEF AnswerInv, Exact
<1> QED
  BY <1>2, <1>3, <1>4, <1>5, <1>6, <1>7, <1>8, <1>9, <1>10 DEF Next, Step, Stopped

\* When requests do not fail and the first state file is there, the search finds
\* the last state with a file before the timestamp, for every server, whatever
\* other files are missing (timestamp_to_sequence).
THEOREM SearchIsExact == Spec => []Exact
<1>1. Init => AnswerInv
  BY AnswerInit
<1>2. Inv /\ AnswerInv /\ [Next]_vars => AnswerInv'
  BY AnswerNext
<1>3. AnswerInv => Exact
  BY DEF AnswerInv
<1> QED
  BY <1>1, <1>2, <1>3, InvHolds, PTL DEF Spec
=============================================================================
