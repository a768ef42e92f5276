----------------------------- MODULE Replication -----------------------------
(***************************************************************************)
(* The replication client (utils/osmx-update): processes started again and *)
(* again, kept apart by a lock file, that read the sequence number of the  *)
(* database, download the diffs after it and run `osmx update' on each.    *)
(* Downloads fail, children fail, and a client can be killed: its lock is  *)
(* then released by the system while its child goes on.  One `osmx update' *)
(* is one step here, when its transaction commits; module Update has the   *)
(* steps inside.                                                           *)
(***************************************************************************)
EXTENDS Diffs

CONSTANTS Client,     \* clients that may be started
          MaxKills,   \* bound on the number of killed clients
          FirstSeq    \* the sequence numbers the first file may have

NoSeq == -1         \* there is no sequence number in the metadata
Nobody == "nobody"  \* no client holds the lock

ASSUME ClientAssumption ==
  /\ MaxKills \in Nat
  /\ Client \cap (1..MaxKills) = {} /\ Nobody \notin Client
  /\ FirstSeq \subseteq {NoSeq, Base}

VARIABLES db,        \* the committed sequence number and data
          latest,    \* the last diff the server has published
          lock,      \* the client that holds /tmp/osmx.lock
          pc,        \* what each client does next
          current,   \* current_id of each client
          goal,      \* `latest' of each client
          update,    \* the diff of the child of each client and of each orphan
          kills,     \* the number of clients killed
          done       \* history: the diffs that the data are known to have, by
                     \* the first number, the answer of a search or a commit

client == <<lock, pc, current, goal>>
vars == <<db, latest, client, update, kills, done>>

NoDiff == 0

Orphan == 1..MaxKills   \* the children of killed clients
Process == Client \cup Orphan

Init ==
  /\ \E seq \in FirstSeq :
       db = [seq |-> seq, data |-> DataAt(Base)] /\ done = 1..seq
  /\ latest = Base
  /\ lock = Nobody
  /\ pc = [c \in Client |-> "idle"]
  /\ current = [c \in Client |-> 0]
  /\ goal = [c \in Client |-> 0]
  /\ update = [p \in Process |-> NoDiff]
  /\ kills = 0

----------------------------------------------------------------------------
(* The steps of a client.                                                  *)

Goto(c, from, to) == pc[c] = from /\ pc' = [pc EXCEPT ![c] = to]

\* Mutant: the lock is not taken.
StartUnlocked(c) ==
  /\ Goto(c, "idle", "seqnum")
  /\ UNCHANGED <<db, latest, lock, current, goal, update, kills, done>>

\* A client that finds the lock taken exits.
Start(c) ==
  /\ lock = Nobody
  /\ lock' = c
  /\ Goto(c, "idle", "seqnum")
  /\ UNCHANGED <<db, latest, current, goal, update, kills, done>>

ReadSeqnum(c) ==
  /\ IF db.seq = NoSeq
     THEN Goto(c, "seqnum", "search") /\ UNCHANGED current
     ELSE /\ Goto(c, "seqnum", "latest")
          /\ current' = [current EXCEPT ![c] = db.seq + 1]
  /\ UNCHANGED <<db, latest, lock, goal, update, kills, done>>

FindSequence(c, seqnum) ==
  /\ Goto(c, "search", "latest")
  /\ current' = [current EXCEPT ![c] = seqnum + 1]
  /\ done' = done \cup 1..seqnum
  /\ UNCHANGED <<db, latest, lock, goal, update, kills>>

\* timestamp_to_sequence finds a state not after the timestamp of the data.
Search(c) ==
  \E seqnum \in 0..(IF db.seq = NoSeq THEN Base ELSE db.seq) :
    FindSequence(c, seqnum)

\* States it cannot read lead it anywhere: "upper is probably the best we can do".
GiveUpSearch(c) == \E seqnum \in 0..latest : FindSequence(c, seqnum)

\* Mutant: the loop ends before the latest diff.
ReadLatestButOne(c) ==
  /\ Goto(c, "latest", "loop")
  /\ goal' = [goal EXCEPT ![c] = latest - 1]
  /\ UNCHANGED <<db, latest, lock, current, update, kills, done>>

ReadLatest(c) ==
  /\ Goto(c, "latest", "loop")
  /\ goal' = [goal EXCEPT ![c] = latest]
  /\ UNCHANGED <<db, latest, lock, current, update, kills, done>>

\* Mutant: the loop goes one diff too far.
DownloadOneMore(c) ==
  /\ current[c] <= goal[c] + 1
  /\ Goto(c, "loop", "wait")
  /\ update' = [update EXCEPT ![c] = current[c]]
  /\ UNCHANGED <<db, latest, lock, current, goal, kills, done>>

\* The diff and its state file are downloaded, and the child is started.
Download(c) ==
  /\ current[c] <= goal[c]
  /\ Goto(c, "loop", "wait")
  /\ update' = [update EXCEPT ![c] = current[c]]
  /\ UNCHANGED <<db, latest, lock, current, goal, kills, done>>

\* The child has ended without an error.
Continue(c) ==
  /\ update[c] = NoDiff
  /\ Goto(c, "wait", "loop")
  /\ current' = [current EXCEPT ![c] = @ + 1]
  /\ UNCHANGED <<db, latest, lock, goal, update, kills, done>>

\* The `finally' of every end; the numbers of the client are forgotten.
Exit(c) ==
  /\ pc' = [pc EXCEPT ![c] = "idle"]
  /\ lock' = IF lock = c THEN Nobody ELSE lock
  /\ current' = [current EXCEPT ![c] = 0]
  /\ goal' = [goal EXCEPT ![c] = 0]

Finish(c) ==
  /\ pc[c] = "loop" /\ current[c] > goal[c]
  /\ Exit(c)
  /\ UNCHANGED <<db, latest, update, kills, done>>

----------------------------------------------------------------------------
(* What goes wrong.                                                        *)

\* A query or a download raises an exception; get_state_info returns None,
\* which has no attribute to read.
Abort(c) ==
  /\ pc[c] \in {"seqnum", "search", "latest", "loop"}
  /\ Exit(c)
  /\ UNCHANGED <<db, latest, update, kills, done>>

\* Mutant: the result of the child is not checked.
IgnoreFailure(c) ==
  /\ pc[c] = "wait" /\ update[c] # NoDiff
  /\ update' = [update EXCEPT ![c] = NoDiff]
  /\ UNCHANGED <<db, latest, client, kills, done>>

\* The child fails before its commit, and check_call raises an exception.
ChildFails(c) ==
  /\ pc[c] = "wait" /\ update[c] # NoDiff
  /\ update' = [update EXCEPT ![c] = NoDiff]
  /\ Exit(c)
  /\ UNCHANGED <<db, latest, kills, done>>

\* The system releases the lock of a killed client; its child is not killed.
Kill(c) ==
  /\ kills < MaxKills
  /\ pc[c] # "idle"
  /\ kills' = kills + 1
  /\ update' = [update EXCEPT ![c] = NoDiff, ![kills + 1] = update[c]]
  /\ Exit(c)
  /\ UNCHANGED <<db, latest, done>>

OrphanFails(k) ==
  /\ update[k] # NoDiff
  /\ update' = [update EXCEPT ![k] = NoDiff]
  /\ UNCHANGED <<db, latest, client, kills, done>>

----------------------------------------------------------------------------
(* The child: osmx update FILE DIFF SEQNUM TIMESTAMP --commit.  It writes   *)
(* the sequence number it is given and does not look at the one it finds.   *)

ApplyDiff(p) ==
  /\ update[p] # NoDiff
  /\ db' = [seq |-> update[p], data |-> Applied(db.data, update[p])]
  /\ done' = done \cup {update[p]}
  /\ update' = [update EXCEPT ![p] = NoDiff]
  /\ UNCHANGED <<latest, client, kills>>

\* The server.
Publish ==
  /\ latest < MaxSeq
  /\ latest' = latest + 1
  /\ UNCHANGED <<db, client, update, kills, done>>

Next ==
  \/ Publish
  \/ \E c \in Client :
       \/ Start(c) \/ ReadSeqnum(c) \/ Search(c) \/ GiveUpSearch(c)
       \/ ReadLatest(c) \/ Download(c) \/ Continue(c) \/ Finish(c)
       \/ Abort(c) \/ ChildFails(c) \/ Kill(c)
  \/ \E k \in Orphan : OrphanFails(k)
  \/ \E p \in Process : ApplyDiff(p)

\* The client is run again and again, the operating system takes its steps and
\* those of its children, and what can fail does not always fail: a request
\* or a child that is tried for ever succeeds for ever again.  Of the requests
\* for the latest state, those of a client that is behind do.
Fairness ==
  /\ \A c \in Client :
       /\ WF_vars(Start(c)) /\ WF_vars(Continue(c)) /\ WF_vars(Finish(c))
       /\ SF_vars(ReadSeqnum(c)) /\ SF_vars(Search(c))
       /\ WF_vars(ReadLatest(c))
       /\ SF_vars(current[c] <= latest /\ ReadLatest(c))
       /\ SF_vars(Download(c))
  /\ \A p \in Process : SF_vars(ApplyDiff(p))

Spec == Init /\ [][Next]_vars /\ Fairness

----------------------------------------------------------------------------
(* Properties.                                                             *)

\* Types of the variables.
TypeOK ==
  /\ db \in [seq : 0..MaxSeq \cup {NoSeq},
             data : Data]
  /\ latest \in Base..MaxSeq
  /\ lock \in Client \cup {Nobody}
  /\ pc \in [Client -> {"idle", "seqnum", "search", "latest", "loop", "wait"}]
  /\ current \in [Client -> 0..(MaxSeq + 1)]
  /\ goal \in [Client -> 0..MaxSeq]
  /\ update \in [Process -> 0..MaxSeq]
  /\ kills \in 0..MaxKills
  /\ done \subseteq 1..MaxSeq

\* While no client is killed, lock file, sequence number and children make the
\* database follow the server, however often downloads and children fail and
\* however many clients are started: readers see a diff entirely, under its own
\* number, after all diffs before it, and every published diff in the end.
Followed ==
  INSTANCE Follower WITH seq <- db.seq, data <- db.data

FollowsServer == Followed!Spec

\* The number in the metadata never passes over a diff: all diffs from the
\* start, or from the answer of a search, to it have been committed, also when
\* orphans of killed clients commit theirs at any later time (osmx-update goes on
\* from the number it reads, and never behind a child that failed).
NoDiffSkipped == 1..db.seq \subseteq done

\* In spite of killed clients, orphans that set the number back, failing
\* downloads and files without a number, the number in the file reaches that of
\* every published diff.
CatchesUp == \A s \in Base + 1 .. MaxSeq : latest >= s ~> db.seq >= s

\* "A read operation will retrieve the correct timestamp for the data it
\* fetches": no object is older than the number written with the data says.
Older(o) == \E d \in DataAt(db.seq)[o] : \A e \in db.data[o] : e < d

MetadataMatchesData == db.seq >= Base => \A o \in Object : ~Older(o)
=============================================================================
