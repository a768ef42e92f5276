------------------------------- MODULE Sorter -------------------------------
(***************************************************************************)
(* The external sort behind each index table of the expand command         *)
(* (src/expand.cpp, Sorter and SortReader) and the batched writer it uses  *)
(* (src/storage.cpp, IndexWriter).  Pairs are collected in memory, saved   *)
(* as sorted runs when there are too many, and merged into the table.      *)
(* The state of the file streams is not looked at: a full disk cuts a run  *)
(* short, and a run that cannot be opened never comes to its end.          *)
(***************************************************************************)
EXTENDS Integers, Sequences, SequencesExt

CONSTANTS Pair,         \* the pairs that can be put, as <<from, to>>
          MaxRunSize,   \* MAX_RUN_SIZE
          BatchSize,    \* the 8000000 of IndexWriter::put
          MaxPuts       \* bound on the number of pairs of the input file

ASSUME PairAssumption == Pair \subseteq Nat \X Nat
ASSUME BoundAssumption == MaxRunSize \in Nat /\ BatchSize \in Nat /\ MaxPuts \in Nat

VARIABLES phase,
          put,        \* the pairs put so far, in order
          lost,       \* the pairs put that no memory and no file holds
          storage,    \* mStorage
          runs,       \* mSavedRuns; while merging, what is unread of each
          last,       \* the last pair taken from the queue
          txn,        \* the pairs of the index writer's open transaction
          table,      \* the committed pairs of the index table
          writes      \* IndexWriter::mWrites

vars == <<phase, put, lost, storage, runs, last, txn, table, writes>>

Before(a, b) == a[1] < b[1] \/ (a[1] = b[1] /\ a[2] < b[2])

\* Mutant: runs are saved as collected.
Unsorted(pairs) == pairs

\* std::sort: the pairs in ascending order, each as often as before.
Sorted(pairs) ==
  LET order == CHOOSE p \in Bijection(DOMAIN pairs, DOMAIN pairs) :
                 \A i, j \in DOMAIN pairs : i < j => ~Before(pairs[p[j]], pairs[p[i]])
  IN  [i \in DOMAIN pairs |-> pairs[order[i]]]

Held(pairs, files) == ToSet(pairs) \cup UNION {ToSet(files[i]) : i \in DOMAIN files}

Init ==
  /\ phase = "reading"
  /\ put = <<>> /\ lost = {} /\ storage = <<>> /\ runs = <<>>
  /\ last = <<0, 0>>
  /\ txn = {} /\ table = {} /\ writes = 0

\* The pairs of a file that a full disk cuts short: those written before.
Files(pairs) == {SubSeq(Sorted(pairs), 1, n) : n \in 0..Len(pairs)}

\* persist() saves the pairs in memory as a run, and remembers its name also
\* when the disk is full.
Persist(pairs) ==
  /\ storage' = <<>>
  /\ \E run \in Files(pairs) :
       /\ runs' = Append(runs, run)
       /\ lost' = (lost \cup ToSet(pairs)) \ Held(<<>>, runs')

Keep(pairs) ==
  /\ storage' = pairs /\ UNCHANGED runs
  /\ lost' = lost \ ToSet(pairs)

\* Pairs in memory beyond MAX_RUN_SIZE are saved at once.
Put(pair) ==
  /\ phase = "reading" /\ Len(put) < MaxPuts
  /\ put' = Append(put, pair)
  /\ LET grown == Append(storage, pair) IN
       IF Len(grown) > MaxRunSize THEN Persist(grown) ELSE Keep(grown)
  /\ UNCHANGED <<phase, last, txn, table, writes>>

\* Mutant: what is left in memory is not saved.
MergeSavedRuns ==
  /\ phase = "reading"
  /\ phase' = "merging"
  /\ storage' = <<>>
  /\ UNCHANGED <<put, lost, runs, last, txn, table, writes>>

\* writeDb saves what is left and opens every run.
StartMerge ==
  /\ phase = "reading"
  /\ phase' = "merging"
  /\ IF storage = <<>> THEN Keep(<<>>) ELSE Persist(storage)
  /\ UNCHANGED <<put, last, txn, table, writes>>

\* The reader of a run that is not open fails without eof and hands out its
\* initial entry (0,0) again and again: the queue never gets past it.
OpenFails ==
  /\ phase = "reading" /\ (runs # <<>> \/ storage # <<>>)
  /\ phase' = "endless"
  /\ IF storage = <<>> THEN Keep(<<>>) ELSE Persist(storage)
  /\ UNCHANGED <<put, last, txn, table, writes>>

\* The priority queue holds the first unread pair of each run; its top is the
\* least, of equal ones that of the first run.
Queue == {i \in DOMAIN runs : runs[i] # <<>>}

Top == CHOOSE i \in Queue :
         \A j \in Queue \ {i} :
           \/ Before(Head(runs[i]), Head(runs[j]))
           \/ Head(runs[i]) = Head(runs[j]) /\ i < j

\* MDB_APPEND takes keys above every key of the table, MDB_APPENDDUP values
\* above every value of their key.
Appendable(pair) ==
  \A e \in table \cup txn :
    IF pair[1] # last[1] THEN e[1] < pair[1]
                         ELSE e[1] = pair[1] => e[2] < pair[2]

\* Mutant: the count is not reset after a commit.
WriteIndexNoReset(pair) ==
  /\ writes' = writes + 1
  /\ IF writes = BatchSize
     THEN table' = table \cup txn \cup {pair} /\ txn' = {}
     ELSE txn' = txn \cup {pair} /\ UNCHANGED table

\* IndexWriter::put: every 8000001st write commits and opens a transaction.
WriteIndex(pair) ==
  IF writes = BatchSize
  THEN table' = table \cup txn \cup {pair} /\ txn' = {} /\ writes' = 0
  ELSE txn' = txn \cup {pair} /\ writes' = writes + 1 /\ UNCHANGED table

Unwritten == UNCHANGED <<txn, table, writes>>

MergeNext ==
  /\ phase = "merging" /\ Queue # {}
  /\ LET pair == Head(runs[Top]) IN
       /\ IF pair = last
          THEN Unwritten /\ UNCHANGED phase
          ELSE IF Appendable(pair)
               THEN WriteIndex(pair) /\ UNCHANGED phase
               ELSE Unwritten /\ phase' = "aborted"
       /\ last' = pair
  /\ runs' = [runs EXCEPT ![Top] = Tail(@)]
  /\ UNCHANGED <<put, lost, storage>>

\* The last commit; then the run files are removed.
FinishMerge ==
  /\ phase = "merging" /\ Queue = {}
  /\ table' = table \cup txn
  /\ txn' = {}
  /\ runs' = <<>>
  /\ phase' = "done"
  /\ UNCHANGED <<put, lost, storage, last, writes>>

Stopped == phase \in {"done", "endless", "aborted"} /\ UNCHANGED vars

Work == StartMerge \/ OpenFails \/ MergeNext \/ FinishMerge

Next == (\E pair \in Pair : Put(pair)) \/ Work \/ Stopped

Spec == Init /\ [][Next]_vars /\ WF_vars(Work)

----------------------------------------------------------------------------
(* Properties.                                                             *)

\* Types of the variables.
TypeOK ==
  /\ phase \in {"reading", "merging", "done", "endless", "aborted"}
  /\ put \in Seq(Pair) /\ lost \subseteq ToSet(put) /\ storage \in Seq(Pair) /\ runs \in Seq(Seq(Pair))
  /\ last \in Pair \cup {<<0, 0>>}
  /\ txn \subseteq Pair /\ table \subseteq Pair
  /\ writes \in 0..BatchSize

\* No put of the merge is refused by MDB_APPEND or MDB_APPENDDUP, which would
\* abort the command, however the pairs are spread over runs and wherever a
\* full disk cuts them short.
NeverAborts == phase # "aborted"

\* The pair (0,0) equals the initial value of `last' in writeDb and is lost;
\* the ids of OpenStreetMap start at 1.
Entries == ToSet(put) \ (lost \cup {<<0, 0>>})

Build == INSTANCE IndexBuild WITH
           entries <- Entries,
           built <- table,
           stage <- CASE phase = "reading" -> "collecting"
                      [] phase = "done" -> "complete"
                      [] phase = "endless" -> "hanging"
                      [] OTHER -> "publishing"

\* The sort builds the index: duplicates collapse, the pairs of all runs come
\* out in order, each commit shows readers the beginning of the table, and at
\* the end the table holds exactly the pairs put that a file held.  What is
\* lost is lost with the files before the first commit, never in the merge; a
\* sort that hangs has shown readers nothing.
BuildsIndex == Build!Spec
=============================================================================
