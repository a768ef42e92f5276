-------------------------- MODULE ReplicationProofs --------------------------
(***************************************************************************)
(* Proofs about the replication client: its types, and that no diff is     *)
(* skipped, for any number of clients, kills and diffs.                    *)
(***************************************************************************)
EXTENDS Replication, TLAPS

\* The data are known to have all diffs before this one.
DoneBefore(d) == 1 .. d - 1 \subseteq done

\* What the steps of one client rest on.  A client never goes on from a number
\* whose diffs are not all committed, and its child runs the diff it is at.
ClientInv(c) ==
  /\ pc[c] \in {"latest", "loop", "wait"} =>
       current[c] # NoDiff /\ DoneBefore(current[c])
  /\ update[c] # NoDiff => pc[c] = "wait" /\ update[c] = current[c]
  /\ pc[c] = "wait" /\ update[c] = NoDiff => current[c] \in done

SkipInv ==
  /\ DoneBefore(db.seq + 1)
  /\ \A c \in Client : ClientInv(c)
  /\ \A p \in Process : update[p] # NoDiff => DoneBefore(update[p])

\* A client that waits for its child has not passed its goal.
GoalInv == \A c \in Client : pc[c] = "wait" => current[c] <= goal[c]

Inv == TypeOK /\ GoalInv /\ SkipInv

USE DEF NoSeq, NoDiff, Process, Orphan, client

\* The names of clients are no numbers of orphans.
LEMMA OrphansAreNoClients ==
  \A c \in Client, k \in 1..MaxKills : c # k
  BY ClientAssumption

\* The first data are data.
LEMMA DataType == \A seq \in 0..MaxSeq : DataAt(seq) \in Data
  BY DiffAssumption DEF DataAt, Data

\* A function stays one into the same set when its value at one place changes.
LEMMA ExceptType ==
  ASSUME NEW S, NEW T, NEW f \in [S -> T], NEW p \in S, NEW v \in T
  PROVE  [f EXCEPT ![p] = v] \in [S -> T]
  OBVIOUS

\* The types hold in the initial states.
LEMMA TypeInit == Init => TypeOK /\ GoalInv
  BY DiffAssumption, ClientAssumption, DataType DEF Init, TypeOK, GoalInv

\* Every step keeps the types, and a client at or before its goal.
LEMMA TypeNext == TypeOK /\ GoalInv /\ [Next]_vars => TypeOK' /\ GoalInv'
<1> SUFFICES ASSUME TypeOK, GoalInv, [Next]_vars
             PROVE  TypeOK' /\ GoalInv'
  OBVIOUS
<1> USE DiffAssumption, ClientAssumption DEF TypeOK, GoalInv
<1>1. CASE Publish
  BY <1>1 DEF Publish
<1>2. ASSUME NEW c \in Client, Start(c) PROVE TypeOK' /\ GoalInv'
  BY <1>2 DEF Start, Goto
<1>3. ASSUME NEW c \in Client, ReadSeqnum(c) PROVE TypeOK' /\ GoalInv'
  <2>1. CASE db.seq = NoSeq
    BY <1>3, <2>1 DEF ReadSeqnum, Goto
  <2>2. CASE db.seq # NoSeq
    <3>1. db.seq + 1 \in 0..(MaxSeq + 1)
      BY <2>2
    <3>2. current' \in [Client -> 0..(MaxSeq + 1)]
      BY <1>3, <2>2, <3>1 DEF ReadSeqnum
    <3> QED
      BY <1>3, <2>2, <3>2 DEF ReadSeqnum, Goto
  <2> QED
    BY <2>1, <2>2
<1>4. ASSUME NEW c \in Client, Search(c) PROVE TypeOK' /\ GoalInv'
  BY <1>4 DEF Search, FindSequence, Goto
<1>5. ASSUME NEW c \in Client, GiveUpSearch(c) PROVE TypeOK' /\ GoalInv'
  BY <1>5 DEF GiveUpSearch, FindSequence, Goto
<1>6. ASSUME NEW c \in Client, ReadLatest(c) PROVE TypeOK' /\ GoalInv'
  BY <1>6 DEF ReadLatest, Goto
<1>7. ASSUME NEW c \in Client, Download(c) PROVE TypeOK' /\ GoalInv'
  BY <1>7 DEF Download, Goto
<1>8. ASSUME NEW c \in Client, Continue(c) PROVE TypeOK' /\ GoalInv'
  BY <1>8 DEF Continue, Goto
<1>9. ASSUME NEW c \in Client, Finish(c) PROVE TypeOK' /\ GoalInv'
  BY <1>9 DEF Finish, Exit
<1>10. ASSUME NEW c \in Client, Abort(c) PROVE TypeOK' /\ GoalInv'
  BY <1>10 DEF Abort, Exit
<1>11. ASSUME NEW c \in Client, ChildFails(c) PROVE TypeOK' /\ GoalInv'
  BY <1>11 DEF ChildFails, Exit
<1>12. ASSUME NEW c \in Client, Kill(c) PROVE TypeOK' /\ GoalInv'
  <2>1. kills + 1 \in Process /\ kills' \in 0..MaxKills
    BY <1>12 DEF Kill
  <2>2. update' = [update EXCEPT ![c] = NoDiff, ![kills + 1] = update[c]]
    BY <1>12 DEF Kill
  <2>3. update' \in [Process -> 0..MaxSeq]
    <3> DEFINE once == [update EXCEPT ![c] = NoDiff]
    <3>1. update \in [Process -> 0..MaxSeq] /\ c \in Process
      OBVIOUS
    <3>2. 0 \in 0..MaxSeq /\ update[c] \in 0..MaxSeq
      BY <3>1
    <3>3. once \in [Process -> 0..MaxSeq]
      BY <3>1, <3>2, ExceptType
    <3>4. update' = [once EXCEPT ![kills + 1] = update[c]]
      BY <2>2
    <3> HIDE DEF once, Process
    <3> QED
      BY <2>1, <3>2, <3>3, <3>4, ExceptType
  <2>4. /\ pc' = [pc EXCEPT ![c] = "idle"]
        /\ lock' \in {lock, Nobody}
        /\ current' = [current EXCEPT ![c] = 0]
        /\ goal' = [goal EXCEPT ![c] = 0]
        /\ UNCHANGED <<db, latest, done>>
    BY <1>12 DEF Kill, Exit
  <2>5. lock' \in Client \cup {Nobody} /\ GoalInv'
    BY <2>4
  <2>6. /\ pc' \in [Client -> {"idle", "seqnum", "search", "latest", "loop", "wait"}]
        /\ current' \in [Client -> 0..(MaxSeq + 1)]
        /\ goal' \in [Client -> 0..MaxSeq]
    BY <2>4
  <2> HIDE DEF Process
  <2> QED
    BY <2>1, <2>3, <2>4, <2>5, <2>6
<1>13. ASSUME NEW k \in Orphan, OrphanFails(k) PROVE TypeOK' /\ GoalInv'
  BY <1>13 DEF OrphanFails
<1>14. ASSUME NEW p \in Process, ApplyDiff(p) PROVE TypeOK' /\ GoalInv'
  <2>1. Applied(db.data, update[p]) \in Data
    BY <1>14 DEF ApplyDiff, Applied, Data
  <2>2. update[p] \in 1..MaxSeq
    BY <1>14 DEF ApplyDiff
  <2>3. db' \in [seq : 0..MaxSeq \cup {NoSeq}, data : Data]
    BY <1>14, <2>1, <2>2 DEF ApplyDiff
  <2>4. update' = [update EXCEPT ![p] = 0]
    BY <1>14 DEF ApplyDiff
  <2>5. update' \in [Process -> 0..MaxSeq]
    BY <2>4
  <2>6. done' \subseteq 1..MaxSeq
    BY <1>14, <2>2 DEF ApplyDiff
  <2> QED
    BY <1>14, <2>3, <2>5, <2>6 DEF ApplyDiff
<1>15. CASE UNCHANGED vars
  BY <1>15 DEF vars
<1> QED
  BY <1>1, <1>2, <1>3, <1>4, <1>5, <1>6, <1>7, <1>8, <1>9, <1>10, <1>11, <1>12,
     <1>13, <1>14, <1>15 DEF Next

\* In the first file the data have the diffs up to its number, if it has one.
LEMMA SkipInit == Init => SkipInv
<1> SUFFICES ASSUME Init PROVE SkipInv
  OBVIOUS
<1>1. PICK seq \in FirstSeq : db = [seq |-> seq, data |-> DataAt(Base)] /\ done = 1..seq
  BY DEF Init
<1>2. db.seq \in Int /\ DoneBefore(db.seq + 1)
  BY <1>1, DiffAssumption, ClientAssumption DEF DoneBefore
<1>3. /\ \A c \in Client : pc[c] = "idle"
      /\ \A p \in Process : update[p] = NoDiff
  BY DEF Init
<1> QED
  BY <1>2, <1>3 DEF SkipInv, ClientInv

\* Committing a diff after all before it leaves none out up to it.
LEMMA DoneNext ==
  ASSUME TypeOK, NEW d \in Int, DoneBefore(d), d \in done
  PROVE  DoneBefore(d + 1)
  BY DiffAssumption DEF DoneBefore

\* The steps that change nothing but one client's pc and numbers.
LEMMA SkipClient ==
  ASSUME TypeOK, SkipInv, NEW c \in Client,
         UNCHANGED <<db, update, done>>,
         \A b \in Client \ {c} : pc'[b] = pc[b] /\ current'[b] = current[b],
         ClientInv(c)'
  PROVE  SkipInv'
<1>1. ASSUME NEW b \in Client PROVE ClientInv(b)'
  <2>1. CASE b = c
    BY <2>1
  <2>2. CASE b # c
    BY <2>2 DEF SkipInv, ClientInv, DoneBefore
  <2> QED
    BY <2>1, <2>2
<1> QED
  BY <1>1 DEF SkipInv, DoneBefore

\* After a search the data count as having the diffs up to its answer.
LEMMA SkipSearch ==
  ASSUME TypeOK, SkipInv, NEW c \in Client, NEW s \in 0..MaxSeq, FindSequence(c, s)
  PROVE  SkipInv'
<1> USE DiffAssumption, ClientAssumption
<1>1. /\ pc[c] = "search" /\ done' = done \cup 1..s
      /\ pc' = [pc EXCEPT ![c] = "latest"]
      /\ current' = [current EXCEPT ![c] = s + 1]
      /\ UNCHANGED <<db, update>>
  BY DEF FindSequence, Goto
<1>2. \A e \in Int : DoneBefore(e) => DoneBefore(e)'
  BY <1>1 DEF DoneBefore
<1>3. db'.seq = db.seq /\ db.seq \in Int /\ DoneBefore(db.seq + 1)
  BY <1>1 DEF TypeOK, SkipInv
<1>4. DoneBefore(db.seq + 1)'
  BY <1>1, <1>3 DEF DoneBefore
<1>5. \A p \in Process : update'[p] # NoDiff => DoneBefore(update[p])'
  BY <1>1 DEF SkipInv, DoneBefore
<1>6. ASSUME NEW b \in Client PROVE ClientInv(b)'
  <2>1. CASE b = c
    <3>1. pc'[b] = "latest" /\ current'[b] = s + 1 /\ update'[b] = NoDiff
      BY <1>1, <2>1 DEF TypeOK, SkipInv, ClientInv
    <3>2. DoneBefore(current[b])'
      BY <1>1, <3>1 DEF DoneBefore
    <3> QED
      BY <3>1, <3>2 DEF ClientInv
  <2>2. CASE b # c
    <3>1. pc'[b] = pc[b] /\ current'[b] = current[b] /\ update'[b] = update[b]
      BY <1>1, <2>2 DEF TypeOK
    <3> QED
      BY <1>1, <3>1 DEF SkipInv, ClientInv, DoneBefore
  <2> QED
    BY <2>1, <2>2
<1> QED
  BY <1>4, <1>5, <1>6 DEF SkipInv

\* A diff is committed by a client's child or an orphan.
LEMMA SkipApply ==
  ASSUME TypeOK, SkipInv, NEW p \in Process, ApplyDiff(p)
  PROVE  SkipInv'
<1> USE DiffAssumption, ClientAssumption
<1> DEFINE d == update[p]
<1>1. d \in 1..MaxSeq /\ DoneBefore(d)
  BY DEF TypeOK, ApplyDiff, SkipInv
<1>2. db'.seq = d /\ done' = done \cup {d} /\ UNCHANGED <<pc, current>>
  BY DEF ApplyDiff
<1>3. update' = [update EXCEPT ![p] = NoDiff]
  BY DEF ApplyDiff
<1>4. \A e \in Int : DoneBefore(e) => DoneBefore(e)'
  BY <1>2 DEF DoneBefore
<1>5. DoneBefore(db.seq + 1)'
  BY <1>1, <1>2 DEF DoneBefore
<1>6. \A q \in Process : update[q] \in 0..MaxSeq /\ (q # p => update'[q] = update[q])
  BY <1>3 DEF TypeOK
<1>7. update'[p] = NoDiff
  BY <1>3 DEF TypeOK
<1>8. \A q \in Process : update'[q] # NoDiff => DoneBefore(update[q])'
  <2> SUFFICES ASSUME NEW q \in Process, update'[q] # NoDiff
               PROVE  DoneBefore(update[q])'
    OBVIOUS
  <2>1. q # p /\ update'[q] = update[q] /\ update[q] \in Int
    BY <1>6, <1>7 DEF TypeOK
  <2>2. DoneBefore(update[q])
    BY <2>1 DEF SkipInv
  <2> QED
    BY <1>2, <2>1, <2>2 DEF DoneBefore
<1>9. ASSUME NEW c \in Client PROVE ClientInv(c)'
  <2>1. current[c] \in Int /\ current'[c] = current[c] /\ pc'[c] = pc[c]
    BY <1>2 DEF TypeOK
  <2>2. pc[c] \in {"latest", "loop", "wait"} => DoneBefore(current[c])'
    BY <1>2, <1>4, <2>1 DEF SkipInv, ClientInv, DoneBefore
  <2>3. CASE c = p
    BY <1>1, <1>2, <1>7, <2>1, <2>2, <2>3 DEF SkipInv, ClientInv
  <2>4. CASE c # p
    BY <1>2, <1>6, <2>1, <2>2, <2>4 DEF SkipInv, ClientInv
  <2> QED
    BY <2>3, <2>4
<1> QED
  BY <1>5, <1>8, <1>9 DEF SkipInv

\* A client that ends leaves nothing, its child or its orphan aside.
LEMMA SkipExit ==
  ASSUME TypeOK, SkipInv, NEW c \in Client, Exit(c), UNCHANGED <<db, done>>,
         update'[c] = NoDiff,
         \A b \in Client \ {c} : update'[b] = update[b],
         \A p \in Process : update'[p] # NoDiff =>
           \E q \in Process : update'[p] = update[q]
  PROVE  SkipInv'
<1>1. pc'[c] = "idle" /\ \A b \in Client \ {c} :
        pc'[b] = pc[b] /\ current'[b] = current[b]
  BY DEF TypeOK, Exit
<1>2. \A b \in Client : ClientInv(b)'
  BY <1>1 DEF SkipInv, ClientInv, DoneBefore
<1>3. \A p \in Process : update'[p] # NoDiff => DoneBefore(update[p])'
  BY DEF SkipInv, DoneBefore
<1> QED
  BY <1>2, <1>3 DEF SkipInv, DoneBefore

\* Every step keeps the invariant that no diff is skipped.
LEMMA SkipNext == TypeOK /\ GoalInv /\ SkipInv /\ [Next]_vars => SkipInv'
<1> SUFFICES ASSUME TypeOK, GoalInv, SkipInv, [Next]_vars
             PROVE  SkipInv'
  OBVIOUS
<1> USE DiffAssumption, ClientAssumption
<1>1. CASE Publish
  BY <1>1 DEF Publish, SkipInv, ClientInv, DoneBefore
<1>2. ASSUME NEW c \in Client, Start(c) PROVE SkipInv'
  <2>1. ClientInv(c)'
    BY <1>2 DEF TypeOK, SkipInv, Start, Goto, ClientInv
  <2>2. \A b \in Client \ {c} : pc'[b] = pc[b] /\ current'[b] = current[b]
    BY <1>2 DEF TypeOK, Start, Goto
  <2> QED
    BY <1>2, <2>1, <2>2, SkipClient DEF Start
<1>3. ASSUME NEW c \in Client, ReadSeqnum(c) PROVE SkipInv'
  <2>1. update[c] = NoDiff /\ UNCHANGED <<db, update, done>>
    BY <1>3 DEF SkipInv, ClientInv, ReadSeqnum, Goto
  <2>2. \A b \in Client \ {c} : pc'[b] = pc[b] /\ current'[b] = current[b]
    BY <1>3 DEF TypeOK, ReadSeqnum, Goto
  <2>3. CASE db.seq = NoSeq
    <3>1. pc'[c] = "search"
      BY <1>3, <2>3 DEF TypeOK, ReadSeqnum, Goto
    <3>2. ClientInv(c)'
      BY <2>1, <3>1 DEF ClientInv
    <3> QED
      BY <2>1, <2>2, <3>2, SkipClient
  <2>4. CASE db.seq # NoSeq
    <3>1. pc'[c] = "latest" /\ current'[c] = db.seq + 1
      BY <1>3, <2>4 DEF TypeOK, ReadSeqnum, Goto
    <3>2. db.seq \in 0..MaxSeq /\ DoneBefore(db.seq + 1)
      BY <2>4 DEF TypeOK, SkipInv
    <3>3. ClientInv(c)'
      BY <2>1, <3>1, <3>2 DEF ClientInv, DoneBefore
    <3> QED
      BY <2>1, <2>2, <3>3, SkipClient
  <2> QED
    BY <2>3, <2>4
<1>4. ASSUME NEW c \in Client, Search(c) \/ GiveUpSearch(c) PROVE SkipInv'
  <2>1. \E s \in 0..MaxSeq : FindSequence(c, s)
    BY <1>4 DEF Search, GiveUpSearch, TypeOK
  <2>2. PICK s \in 0..MaxSeq : FindSequence(c, s)
    BY <2>1
  <2> QED
    BY <2>2, SkipSearch
<1>5. ASSUME NEW c \in Client, ReadLatest(c) PROVE SkipInv'
  <2>1. ClientInv(c)'
    BY <1>5 DEF TypeOK, SkipInv, ReadLatest, Goto, ClientInv, DoneBefore
  <2>2. \A b \in Client \ {c} : pc'[b] = pc[b] /\ current'[b] = current[b]
    BY <1>5 DEF TypeOK, ReadLatest, Goto
  <2> QED
    BY <1>5, <2>1, <2>2, SkipClient DEF ReadLatest
<1>6. ASSUME NEW c \in Client, Download(c) PROVE SkipInv'
  <2>1. pc[c] = "loop" /\ current[c] # NoDiff /\ DoneBefore(current[c])
    BY <1>6 DEF Download, Goto, SkipInv, ClientInv
  <2>2. /\ update' = [update EXCEPT ![c] = current[c]]
        /\ pc' = [pc EXCEPT ![c] = "wait"]
        /\ UNCHANGED <<db, current, done>>
    BY <1>6 DEF Download, Goto
  <2>3. \A p \in Process : p # c => update'[p] = update[p]
    BY <2>2 DEF TypeOK
  <2>4. update'[c] = current[c] /\ pc'[c] = "wait"
    BY <2>2 DEF TypeOK
  <2>5. \A b \in Client : ClientInv(b)'
    <3> SUFFICES ASSUME NEW b \in Client PROVE ClientInv(b)'
      OBVIOUS
    <3>1. CASE b = c
      BY <2>1, <2>2, <2>4, <3>1 DEF ClientInv, DoneBefore
    <3>2. CASE b # c
      <4>1. pc'[b] = pc[b] /\ update'[b] = update[b]
        BY <2>2, <2>3, <3>2 DEF TypeOK
      <4> QED
        BY <2>2, <4>1 DEF SkipInv, ClientInv, DoneBefore
    <3> QED
      BY <3>1, <3>2
  <2>6. \A p \in Process : update'[p] # NoDiff => DoneBefore(update[p])'
    <3> SUFFICES ASSUME NEW p \in Process, update'[p] # NoDiff
                 PROVE  DoneBefore(update[p])'
      OBVIOUS
    <3>1. CASE p = c
      BY <2>1, <2>2, <2>4, <3>1 DEF DoneBefore
    <3>2. CASE p # c
      BY <2>2, <2>3, <3>2 DEF SkipInv, DoneBefore
    <3> QED
      BY <3>1, <3>2
  <2> QED
    BY <2>2, <2>5, <2>6 DEF SkipInv, DoneBefore
<1>7. ASSUME NEW c \in Client, Continue(c) PROVE SkipInv'
  <2>1. /\ pc[c] = "wait" /\ update[c] = NoDiff
        /\ DoneBefore(current[c]) /\ current[c] \in done
    BY <1>7 DEF Continue, Goto, SkipInv, ClientInv
  <2>2. current[c] \in 0..(MaxSeq + 1)
    BY DEF TypeOK
  <2>3. current'[c] = current[c] + 1 /\ pc'[c] = "loop"
    BY <1>7 DEF TypeOK, Continue, Goto
  <2>4. DoneBefore(current[c] + 1)
    BY <2>1, <2>2, DoneNext
  <2>5. ClientInv(c)'
    BY <1>7, <2>1, <2>2, <2>3, <2>4 DEF Continue, ClientInv, DoneBefore
  <2>6. \A b \in Client \ {c} : pc'[b] = pc[b] /\ current'[b] = current[b]
    BY <1>7 DEF TypeOK, Continue, Goto
  <2> QED
    BY <1>7, <2>5, <2>6, SkipClient DEF Continue
<1>8. ASSUME NEW c \in Client, Finish(c) \/ Abort(c) PROVE SkipInv'
  <2>1. Exit(c) /\ pc[c] # "wait" /\ UNCHANGED <<db, update, done>>
    BY <1>8 DEF Finish, Abort
  <2>2. update'[c] = NoDiff
    BY <2>1 DEF SkipInv, ClientInv
  <2>3. \A p \in Process : update'[p] = update[p]
    BY <2>1
  <2> QED
    BY <2>1, <2>2, <2>3, SkipExit
<1>9. ASSUME NEW c \in Client, ChildFails(c) PROVE SkipInv'
  <2>1. update' = [update EXCEPT ![c] = NoDiff] /\ Exit(c) /\ UNCHANGED <<db, done>>
    BY <1>9 DEF ChildFails
  <2>2. update'[c] = NoDiff /\ \A p \in Process : p # c => update'[p] = update[p]
    BY <2>1 DEF TypeOK
  <2> QED
    BY <2>1, <2>2, SkipExit
<1>10. ASSUME NEW c \in Client, Kill(c) PROVE SkipInv'
  <2>1. kills + 1 \in Orphan /\ c # kills + 1
    BY <1>10, OrphansAreNoClients DEF TypeOK, Kill
  <2>2. /\ update' = [update EXCEPT ![c] = NoDiff, ![kills + 1] = update[c]]
        /\ Exit(c) /\ UNCHANGED <<db, done>>
    BY <1>10 DEF Kill
  <2>3. /\ update'[c] = NoDiff /\ update'[kills + 1] = update[c]
        /\ \A p \in Process : p \notin {c, kills + 1} => update'[p] = update[p]
    BY <2>1, <2>2 DEF TypeOK
  <2>4. \A b \in Client \ {c} : update'[b] = update[b]
    BY <2>1, <2>3, OrphansAreNoClients
  <2>5. \A p \in Process : update'[p] # NoDiff =>
          \E q \in Process : update'[p] = update[q]
    BY <2>3
  <2> QED
    BY <2>2, <2>3, <2>4, <2>5, SkipExit
<1>11. ASSUME NEW k \in Orphan, OrphanFails(k) PROVE SkipInv'
  <2>1. update' = [update EXCEPT ![k] = NoDiff] /\ UNCHANGED <<db, pc, current, done>>
    BY <1>11 DEF OrphanFails
  <2>2. update'[k] = NoDiff /\ \A p \in Process : p # k => update'[p] = update[p]
    BY <2>1 DEF TypeOK
  <2>3. \A c \in Client : update'[c] = update[c]
    BY <2>2, OrphansAreNoClients
  <2>4. \A c \in Client : ClientInv(c)'
    BY <2>1, <2>3 DEF SkipInv, ClientInv, DoneBefore
  <2>5. \A p \in Process : update'[p] # NoDiff => DoneBefore(update[p])'
    BY <2>1, <2>2 DEF SkipInv, DoneBefore
  <2> QED
    BY <2>1, <2>4, <2>5 DEF SkipInv, DoneBefore
<1>12. ASSUME NEW p \in Process, ApplyDiff(p) PROVE SkipInv'
  BY <1>12, SkipApply
<1>13. CASE UNCHANGED vars
  BY <1>13 DEF vars, SkipInv, ClientInv, DoneBefore
<1> QED
  BY <1>1, <1>2, <1>3, <1>4, <1>5, <1>6, <1>7, <1>8, <1>9, <1>10, <1>11, <1>12,
     <1>13 DEF Next

\* The types of the replication client hold in every state it reaches.
THEOREM ReplicationTypes == Spec => []TypeOK
<1>1. Init => TypeOK /\ GoalInv
  BY TypeInit
<1>2. (TypeOK /\ GoalInv) /\ [Next]_vars => (TypeOK /\ GoalInv)'
  BY TypeNext
<1> QED
  BY <1>1, <1>2, PTL DEF Spec

\* The number readers see never passes over a diff that was not committed,
\* for any number of clients, killed clients and diffs (osmx-update).
THEOREM NoDiffIsSkipped == Spec => []NoDiffSkipped
<1>1. Init => Inv
  BY TypeInit, SkipInit DEF Inv
<1>2. Inv /\ [Next]_vars => Inv'
  BY TypeNext, SkipNext DEF Inv
<1>3. Inv => NoDiffSkipped
  <2> SUFFICES ASSUME Inv PROVE 1..db.seq \subseteq done
    BY DEF NoDiffSkipped
  <2>1. db.seq \in Int /\ DoneBefore(db.seq + 1)
    BY DEF Inv, TypeOK, SkipInv
  <2> QED
    BY <2>1 DEF DoneBefore
<1> QED
  BY <1>1, <1>2, <1>3, PTL DEF Spec

----------------------------------------------------------------------------
(* Without kills, and from a file with a number, the client implements the *)
(* specification Follower, its liveness aside.                             *)

\* Only the client that holds the lock runs.
OneRuns == \A c \in Client : pc[c] # "idle" => lock = c

\* Readers see the data of their number, which the server has published.
DataInv ==
  /\ db.seq \in Base..latest
  /\ db.data = DataAt(db.seq)

\* The client that runs is one diff ahead of the data, or waits for a child
\* that has committed its diff.
AheadInv(c) ==
  /\ pc[c] # "search"
  /\ pc[c] \in {"latest", "loop"} => current[c] = db.seq + 1
  /\ update[c] # NoDiff => pc[c] = "wait" /\ update[c] = current[c]
  /\ pc[c] = "wait" =>
       current[c] = IF update[c] = NoDiff THEN db.seq ELSE db.seq + 1
  /\ goal[c] <= latest

FollowInv ==
  /\ TypeOK /\ GoalInv
  /\ OneRuns /\ DataInv
  /\ \A c \in Client : AheadInv(c)

\* A diff applied to the data of the diffs before it gives those up to it.
LEMMA AppliedNext ==
  ASSUME NEW s \in 0..MaxSeq, s + 1 \in 0..MaxSeq
  PROVE  Applied(DataAt(s), s + 1) = DataAt(s + 1)
<1> USE DiffAssumption
<1>1. ASSUME NEW o \in Object
      PROVE  Applied(DataAt(s), s + 1)[o] = DataAt(s + 1)[o]
  <2>1. CASE o \in Touches[s + 1]
    <3>1. Applied(DataAt(s), s + 1)[o] = {s + 1}
      BY <2>1 DEF Applied
    <3>2. \A d \in 1 .. s + 1 :
            (o \in Touches[d] /\ \A e \in d + 1 .. s + 1 : o \notin Touches[e])
              <=> d = s + 1
      BY <2>1
    <3>3. DataAt(s + 1)[o] = {s + 1}
      BY <3>2 DEF DataAt
    <3> QED
      BY <3>1, <3>3
  <2>2. CASE o \notin Touches[s + 1]
    <3>1. Applied(DataAt(s), s + 1)[o] = DataAt(s)[o]
      BY <2>2 DEF Applied
    <3>2. \A d \in 1..s :
            (\A e \in d + 1 .. s + 1 : o \notin Touches[e])
              <=> (\A e \in d + 1 .. s : o \notin Touches[e])
      BY <2>2
    <3>3. DataAt(s + 1)[o] = DataAt(s)[o]
      BY <2>2, <3>2 DEF DataAt
    <3> QED
      BY <3>1, <3>3
  <2> QED
    BY <2>1, <2>2
<1> QED
  BY <1>1 DEF Applied, DataAt

\* The two modules mean the same by the data of a number.
LEMMA SameData == \A s : Followed!DataAt(s) = DataAt(s)
  BY DEF Followed!DataAt, DataAt

\* The invariant holds when the first file has its number.
LEMMA FollowInit ==
  ASSUME NoSeq \notin FirstSeq, Init
  PROVE  FollowInv /\ Followed!Init
<1> USE DiffAssumption, ClientAssumption
<1>1. PICK seq \in FirstSeq : db = [seq |-> seq, data |-> DataAt(Base)]
  BY DEF Init
<1>2. db.seq = Base /\ db.data = DataAt(Base)
  BY <1>1
<1>3. DataInv
  BY <1>2 DEF Init, DataInv
<1>4. OneRuns /\ \A c \in Client : AheadInv(c)
  BY DEF Init, OneRuns, AheadInv
<1>5. Followed!Init
  BY <1>2, SameData DEF Init, Followed!Init
<1> QED
  BY <1>3, <1>4, <1>5, TypeInit DEF FollowInv

\* The steps of one client that neither commit nor publish keep the invariant
\* when they keep it for that client, the only one that runs.
LEMMA FollowClient ==
  ASSUME FollowInv, TypeOK', GoalInv', NEW c \in Client,
         UNCHANGED <<db, latest>>,
         \A b \in Client \ {c} :
           /\ pc'[b] = pc[b] /\ current'[b] = current[b]
           /\ goal'[b] = goal[b] /\ update'[b] = update[b],
         OneRuns', AheadInv(c)'
  PROVE  FollowInv'
<1>1. DataInv'
  BY DEF FollowInv, DataInv, DataAt
<1>2. \A b \in Client : AheadInv(b)'
  BY DEF FollowInv, AheadInv
<1> QED
  BY <1>1, <1>2 DEF FollowInv

\* A client that ends leaves its place idle.
LEMMA FollowExit ==
  ASSUME FollowInv, TypeOK', GoalInv', NEW c \in Client, Exit(c),
         pc[c] # "idle", UNCHANGED <<db, latest>>, update'[c] = NoDiff,
         \A b \in Client \ {c} : update'[b] = update[b]
  PROVE  FollowInv'
<1>1. lock = c /\ lock' = Nobody
  BY DEF FollowInv, OneRuns, Exit
<1>2. \A b \in Client : pc'[b] = "idle"
  BY <1>1 DEF FollowInv, TypeOK, OneRuns, Exit
<1>3. /\ pc'[c] = "idle" /\ goal'[c] = 0
      /\ \A b \in Client \ {c} :
           /\ pc'[b] = pc[b] /\ current'[b] = current[b]
           /\ goal'[b] = goal[b]
  BY DEF FollowInv, TypeOK, Exit
<1>4. AheadInv(c)'
  BY <1>3, DiffAssumption DEF FollowInv, TypeOK, AheadInv
<1>5. OneRuns'
  BY <1>2 DEF OneRuns
<1> QED
  BY <1>3, <1>4, <1>5, FollowClient

\* Without kills every step keeps the invariant and is one of Follower or none.
LEMMA FollowNext ==
  ASSUME MaxKills = 0, FollowInv, [Next]_vars
  PROVE  FollowInv' /\ [Followed!Next]_(Followed!vars)
<1> USE DiffAssumption, ClientAssumption
<1>0. TypeOK /\ GoalInv /\ TypeOK' /\ GoalInv'
  BY TypeNext DEF FollowInv
<1> DEFINE Kept == FollowInv' /\ UNCHANGED <<db, latest>>
<1>1. CASE Publish
  <2>1. /\ latest \in Nat /\ latest' = latest + 1
        /\ UNCHANGED <<db, lock, pc, current, goal, update>>
    BY <1>0, <1>1 DEF Publish, TypeOK
  <2>2. DataInv'
    BY <1>0, <2>1 DEF FollowInv, DataInv, DataAt, TypeOK
  <2>3. OneRuns' /\ \A c \in Client : AheadInv(c)'
    BY <1>0, <2>1 DEF FollowInv, OneRuns, AheadInv, TypeOK
  <2>4. Followed!Next
    BY <1>1 DEF Publish, Followed!Next, Followed!Publish
  <2> QED
    BY <1>0, <2>2, <2>3, <2>4 DEF FollowInv
<1>2. ASSUME NEW c \in Client, Start(c) PROVE Kept
  <2>1. /\ lock = Nobody /\ lock' = c /\ pc[c] = "idle"
        /\ pc' = [pc EXCEPT ![c] = "seqnum"]
        /\ UNCHANGED <<db, latest, current, goal, update>>
    BY <1>2 DEF Start, Goto
  <2>2. \A b \in Client : pc[b] = "idle"
    BY <2>1 DEF FollowInv, OneRuns
  <2>3. OneRuns'
    BY <1>0, <2>1, <2>2 DEF FollowInv, OneRuns, TypeOK
  <2> QED
    BY <1>0, <2>1, <2>3, FollowClient DEF FollowInv, AheadInv, TypeOK
<1>3. ASSUME NEW c \in Client, ReadSeqnum(c) PROVE Kept
  <2>1. db.seq \in Nat /\ db.seq # NoSeq
    BY DEF FollowInv, DataInv, TypeOK
  <2>2. /\ pc[c] = "seqnum" /\ pc' = [pc EXCEPT ![c] = "latest"]
        /\ current' = [current EXCEPT ![c] = db.seq + 1]
        /\ UNCHANGED <<db, latest, lock, goal, update>>
    BY <1>3, <2>1 DEF ReadSeqnum, Goto
  <2>3. OneRuns' /\ AheadInv(c)'
    BY <1>0, <2>2 DEF FollowInv, OneRuns, AheadInv, TypeOK
  <2> QED
    BY <1>0, <2>2, <2>3, FollowClient DEF TypeOK
<1>4. ASSUME NEW c \in Client, Search(c) \/ GiveUpSearch(c) PROVE FALSE
  BY <1>4 DEF Search, GiveUpSearch, FindSequence, Goto, FollowInv, AheadInv
<1>5. ASSUME NEW c \in Client, ReadLatest(c) PROVE Kept
  <2>1. /\ pc[c] = "latest" /\ pc' = [pc EXCEPT ![c] = "loop"]
        /\ goal' = [goal EXCEPT ![c] = latest]
        /\ UNCHANGED <<db, latest, lock, current, update>>
    BY <1>5 DEF ReadLatest, Goto
  <2>2. OneRuns' /\ AheadInv(c)'
    BY <1>0, <2>1 DEF FollowInv, OneRuns, AheadInv, TypeOK
  <2> QED
    BY <1>0, <2>1, <2>2, FollowClient DEF TypeOK
<1>6. ASSUME NEW c \in Client, Download(c) PROVE Kept
  <2>1. /\ pc[c] = "loop" /\ pc' = [pc EXCEPT ![c] = "wait"]
        /\ update' = [update EXCEPT ![c] = current[c]]
        /\ UNCHANGED <<db, latest, lock, current, goal>>
    BY <1>6 DEF Download, Goto
  <2>2. current[c] = db.seq + 1 /\ db.seq \in Nat
    BY <2>1 DEF FollowInv, DataInv, AheadInv, TypeOK
  <2>3. OneRuns' /\ AheadInv(c)'
    BY <1>0, <2>1, <2>2 DEF FollowInv, OneRuns, AheadInv, TypeOK
  <2> QED
    BY <1>0, <2>1, <2>3, FollowClient DEF TypeOK
<1>7. ASSUME NEW c \in Client, Continue(c) PROVE Kept
  <2>1. /\ pc[c] = "wait" /\ update[c] = NoDiff /\ pc' = [pc EXCEPT ![c] = "loop"]
        /\ current' = [current EXCEPT ![c] = @ + 1]
        /\ UNCHANGED <<db, latest, lock, goal, update>>
    BY <1>7 DEF Continue, Goto
  <2>2. current[c] = db.seq
    BY <2>1 DEF FollowInv, AheadInv
  <2>3. OneRuns' /\ AheadInv(c)'
    BY <1>0, <2>1, <2>2 DEF FollowInv, OneRuns, AheadInv, TypeOK
  <2> QED
    BY <1>0, <2>1, <2>3, FollowClient DEF TypeOK
<1>8. ASSUME NEW c \in Client, Finish(c) \/ Abort(c) PROVE Kept
  <2>1. Exit(c) /\ pc[c] \notin {"idle", "wait"} /\ UNCHANGED <<db, latest, update>>
    BY <1>8 DEF Finish, Abort
  <2>2. update'[c] = NoDiff
    BY <2>1 DEF FollowInv, AheadInv
  <2> QED
    BY <1>0, <2>1, <2>2, FollowExit
<1>9. ASSUME NEW c \in Client, ChildFails(c) PROVE Kept
  <2>1. /\ Exit(c) /\ pc[c] # "idle" /\ UNCHANGED <<db, latest>>
        /\ update' = [update EXCEPT ![c] = NoDiff]
    BY <1>9 DEF ChildFails
  <2> QED
    BY <1>0, <2>1, FollowExit DEF TypeOK
<1>10. ASSUME NEW c \in Client, Kill(c) PROVE FALSE
  BY <1>0, <1>10 DEF Kill, TypeOK
<1>11. ASSUME NEW k \in Orphan, OrphanFails(k) PROVE FALSE
  OBVIOUS
<1>12. ASSUME NEW c \in Process, ApplyDiff(c) PROVE FollowInv' /\ Followed!Next
  <2>1. c \in Client /\ update[c] # NoDiff
    BY <1>12 DEF ApplyDiff
  <2>2. pc[c] = "wait" /\ update[c] = current[c] /\ current[c] = db.seq + 1
    BY <2>1 DEF FollowInv, AheadInv
  <2>3. /\ db.seq \in 0..MaxSeq /\ db.seq + 1 \in 0..MaxSeq /\ db.seq < latest
        /\ latest \in Nat
    <3>1. latest \in Base..MaxSeq /\ db.seq \in Base..latest
      BY <1>0 DEF FollowInv, DataInv, TypeOK
    <3>2. current[c] <= goal[c] /\ goal[c] <= latest /\ goal[c] \in 0..MaxSeq
      BY <1>0, <2>1, <2>2 DEF FollowInv, AheadInv, GoalInv, TypeOK
    <3> QED
      BY <2>2, <3>1, <3>2
  <2>4. /\ db' = [seq |-> db.seq + 1, data |-> Applied(DataAt(db.seq), db.seq + 1)]
        /\ update' = [update EXCEPT ![c] = NoDiff]
        /\ UNCHANGED <<latest, lock, pc, current, goal>>
    BY <1>12, <2>2 DEF ApplyDiff, FollowInv, DataInv
  <2>5. db'.seq = db.seq + 1 /\ db'.data = DataAt(db.seq + 1)
    BY <2>3, <2>4, AppliedNext
  <2>6. DataInv'
    BY <1>0, <2>3, <2>4, <2>5 DEF FollowInv, DataInv, DataAt
  <2>7. OneRuns' /\ lock = c
    BY <2>1, <2>2, <2>4 DEF FollowInv, OneRuns
  <2>8. AheadInv(c)'
    BY <1>0, <2>1, <2>2, <2>4, <2>5 DEF FollowInv, AheadInv, TypeOK
  <2>9. \A b \in Client \ {c} : pc[b] = "idle" /\ update'[b] = NoDiff
    BY <1>0, <2>4, <2>7 DEF FollowInv, OneRuns, AheadInv, TypeOK
  <2>10. \A b \in Client : AheadInv(b)'
    BY <2>4, <2>8, <2>9 DEF FollowInv, AheadInv
  <2>11. Followed!Advance
    BY <2>3, <2>4, <2>5, SameData DEF Followed!Advance
  <2> QED
    BY <1>0, <2>6, <2>7, <2>10, <2>11 DEF FollowInv, Followed!Next
<1>13. CASE UNCHANGED vars
  BY <1>0, <1>13 DEF vars, FollowInv, OneRuns, DataInv, AheadInv, DataAt, Followed!vars
<1>14. ASSUME Kept PROVE FollowInv' /\ [Followed!Next]_(Followed!vars)
  BY <1>14 DEF Followed!vars
<1> QED
  BY <1>1, <1>2, <1>3, <1>4, <1>5, <1>6, <1>7, <1>8, <1>9, <1>10, <1>11, <1>12,
     <1>13, <1>14 DEF Next

\* Without kills, and from a file with a number, what readers see follows the
\* server diff by diff, each under its own number, however many clients are
\* started and however often downloads and children fail (osmx-update).
THEOREM FollowsDiffByDiff ==
  ASSUME MaxKills = 0, NoSeq \notin FirstSeq
  PROVE  Spec => Followed!Init /\ [][Followed!Next]_(Followed!vars)
<1>1. Init => FollowInv /\ Followed!Init
  BY FollowInit
<1>2. FollowInv /\ [Next]_vars => FollowInv' /\ [Followed!Next]_(Followed!vars)
  BY FollowNext
<1> QED
  BY <1>1, <1>2, PTL DEF Spec
=============================================================================
