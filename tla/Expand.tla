------------------------------- MODULE Expand -------------------------------
(***************************************************************************)
(* The expand command (src/expand.cpp): the elements of an OSM file go     *)
(* into the element tables in one transaction, while the index entries are *)
(* collected by five external sorters; after the end of the file the       *)
(* transaction is committed, and then one index table after the other is   *)
(* written in transactions of its own.  What a sorter does is module       *)
(* Sorter; here its table grows by batches until it holds every entry,     *)
(* which a disk that is too full for a run file would prevent without an   *)
(* error (expand.cpp:63-71, in Sorter): no run file is cut short here.     *)
(*                                                                         *)
(* Several processes expand one file into one database: at the same time,  *)
(* or one after another when a crash left the database half built.  LMDB   *)
(* lets one transaction write at a time; the temporary directory, named    *)
(* after the output, is there while run files may be.                      *)
(***************************************************************************)
EXTENDS Query

CONSTANTS Expander,   \* the processes
          Source      \* the OSM files, as the databases they describe

ASSUME IdAssumption == Node \subseteq Nat /\ Way \subseteq Nat /\ Relation \subseteq Nat

ASSUME SourceAssumption ==
  \A s \in Source :
    /\ s \in Database /\ TaggedAreLocated(s)
    /\ s = Expanded(s.locations, s.nodes, s.ways, s.relations, s.metadata)

VARIABLES source,     \* the input file
          db,         \* the committed database
          tables,     \* the tables the database has
          tempdir,    \* the temporary directory exists
          writer,     \* the processes in a write transaction, one at most
          txn,        \* the transaction of the element tables
          unread,     \* the elements its reader has not handed over
          collected,  \* what the sorters of each process hold
          phase       \* of each process; the index it writes is one

lmdb == <<db, tables, writer>>
reading == <<txn, unread>>
vars == <<source, lmdb, tempdir, reading, collected, phase>>

\* Mutant: the last index is written first.
LastIndexFirst == <<"relation_relation", "cell_node", "node_way", "node_relation",
                    "way_relation">>

\* In the order of ~Handler.
Indexes == <<"cell_node", "node_way", "node_relation", "way_relation",
             "relation_relation">>

IndexNames == {Indexes[i] : i \in DOMAIN Indexes}

ElementTables == {"metadata", "locations", "nodes", "ways", "relations"}

Ending == {"done", "aborted"}

EmptyTable == [id \in {} |-> {}]

EmptyDatabase == Expanded(EmptyTable, {}, EmptyTable, EmptyTable, NoStamp)

NoEntries == [name \in IndexNames |-> {}]

Elements == ({"node"} \X DOMAIN source.locations) \cup
            ({"way"} \X DOMAIN source.ways) \cup
            ({"relation"} \X DOMAIN source.relations)

Init ==
  /\ source \in Source
  /\ db = EmptyDatabase /\ tables = {} /\ tempdir = FALSE
  /\ writer = {} /\ txn = EmptyDatabase /\ unread = {}
  /\ collected = [p \in Expander |-> NoEntries]
  /\ phase = [p \in Expander |-> "idle"]

----------------------------------------------------------------------------
(* cmdExpand up to the handler.                                            *)

Move(p, from, to) == phase[p] = from /\ phase' = [phase EXCEPT ![p] = to]

Lock(p) == writer = {} /\ writer' = {p}

\* mdb_txn_begin waits for the writer.  The metadata comes from the header of
\* the file, which may have none.
Begin(p) ==
  /\ Move(p, "idle", "opened")
  /\ Lock(p)
  /\ txn' = [db EXCEPT !.metadata = source.metadata]
  /\ unread' = Elements
  /\ UNCHANGED <<source, db, tables, tempdir, collected>>

\* Mutant: the result of mkdir is not looked at.
MakeAnyTempDir(p) ==
  /\ Move(p, "opened", "reading")
  /\ tempdir' = TRUE
  /\ UNCHANGED <<source, lmdb, reading, collected>>

\* The assertion that mkdir succeeds fails when the directory is there: Crash.
MakeTempDir(p) ==
  /\ Move(p, "opened", "reading")
  /\ ~tempdir /\ tempdir' = TRUE
  /\ UNCHANGED <<source, lmdb, reading, collected>>

----------------------------------------------------------------------------
(* Handler's callbacks.  MDB_APPEND refuses an id that is not above all ids *)
(* of its table: a file whose ids are out of order, or a database that has  *)
(* the elements already, ends in Crash.                                     *)

Appendable(table, id) == \A k \in DOMAIN table : k < id

Read(p, type, id) ==
  /\ phase[p] = "reading" /\ <<type, id>> \in unread
  /\ unread' = unread \ {<<type, id>>}
  /\ UNCHANGED <<source, lmdb, tempdir, phase>>

Sort(p, new) ==
  collected' = [collected EXCEPT
                  ![p] = [name \in IndexNames |-> @[name] \cup new[name]]]

ReadNode(p, id) ==
  /\ Read(p, "node", id) /\ Appendable(txn.locations, id)
  /\ LET loc == source.locations[id] IN
       /\ txn' = [txn EXCEPT !.locations = Put(@, id, loc),
                             !.nodes = @ \cup ({id} \cap source.nodes)]
       /\ Sort(p, [NoEntries EXCEPT !["cell_node"] = {<<CellOf[loc], id>>}])

ReadWay(p, id) ==
  /\ Read(p, "way", id) /\ Appendable(txn.ways, id)
  /\ LET nodes == source.ways[id] IN
       /\ txn' = [txn EXCEPT !.ways = Put(@, id, nodes)]
       /\ Sort(p, [NoEntries EXCEPT !["node_way"] = nodes \X {id}])

\* Mutant: the members of two types go to each other's sorter.
ReadRelationSwapped(p, id) ==
  /\ Read(p, "relation", id) /\ Appendable(txn.relations, id)
  /\ LET row == source.relations[id] IN
       /\ txn' = [txn EXCEPT !.relations = Put(@, id, row)]
       /\ Sort(p, [NoEntries EXCEPT !["node_relation"] = row.way \X {id},
                                    !["way_relation"] = row.node \X {id},
                                    !["relation_relation"] = row.relation \X {id}])

ReadRelation(p, id) ==
  /\ Read(p, "relation", id) /\ Appendable(txn.relations, id)
  /\ LET row == source.relations[id] IN
       /\ txn' = [txn EXCEPT !.relations = Put(@, id, row)]
       /\ Sort(p, [NoEntries EXCEPT !["node_relation"] = row.node \X {id},
                                    !["way_relation"] = row.way \X {id},
                                    !["relation_relation"] = row.relation \X {id}])

----------------------------------------------------------------------------
(* ~Handler.                                                               *)

\* Mutants: an error of the reader is taken for the end of the file; the indexes
\* are written before the elements are committed.
CommitPartOfFile(p) ==
  /\ Move(p, "reading", Indexes[1])
  /\ db' = txn
  /\ tables' = tables \cup ElementTables
  /\ writer' = {}
  /\ txn' = EmptyDatabase /\ unread' = {}
  /\ UNCHANGED <<source, tempdir, collected>>

CommitElementsLate(p) ==
  /\ unread = {} /\ Move(p, "reading", Indexes[1])
  /\ writer' = {}
  /\ txn' = EmptyDatabase
  /\ UNCHANGED <<source, db, tables, tempdir, unread, collected>>

CommitElements(p) ==
  /\ unread = {} /\ Move(p, "reading", Indexes[1])
  /\ db' = txn
  /\ tables' = tables \cup ElementTables
  /\ writer' = {}
  /\ txn' = EmptyDatabase
  /\ UNCHANGED <<source, tempdir, unread, collected>>

\* The index writer begins a transaction, at first and after each batch.
BeginIndex(p) ==
  /\ phase[p] \in IndexNames
  /\ Lock(p)
  /\ UNCHANGED <<source, db, tables, tempdir, reading, collected, phase>>

\* The entries are appended in order; which are refused is module Sorter's.
WriteBatch(p, batch) ==
  /\ p \in writer
  /\ db' = [db EXCEPT ![phase[p]] = @ \cup batch]
  /\ tables' = tables \cup {phase[p]}
  /\ writer' = {}
  /\ collected' = [collected EXCEPT ![p][phase[p]] = @ \ batch]
  /\ UNCHANGED <<source, tempdir, reading>>

\* A full transaction of the index writer is committed.
CommitBatch(p) ==
  /\ phase[p] \in IndexNames
  /\ \E batch \in SUBSET collected[p][phase[p]] : WriteBatch(p, batch)
  /\ UNCHANGED phase

\* Mutant: the last batch of an index is not committed.
FinishIndexUncommitted(p, i) ==
  /\ Move(p, Indexes[i], IF i = Len(Indexes) THEN "leaving" ELSE Indexes[i + 1])
  /\ WriteBatch(p, {})

\* Every entry collected: the disk had room for the run files.
FinishIndex(p, i) ==
  /\ Move(p, Indexes[i], IF i = Len(Indexes) THEN "leaving" ELSE Indexes[i + 1])
  /\ WriteBatch(p, collected[p][Indexes[i]])

\* The run files are gone, and rmdir succeeds.
RemoveTempDir(p) ==
  /\ Move(p, "leaving", "done")
  /\ tempdir /\ tempdir' = FALSE
  /\ UNCHANGED <<source, lmdb, reading, collected>>

----------------------------------------------------------------------------
(* The end of a process, and the user.                                     *)

\* A refused id or entry, a failed assertion, an error of the reader, a write of
\* LMDB to a full disk (that of a run file ends nothing) or a kill.  What is not
\* committed is lost; what is, and the directory with its run files, stays.
Crash(p) ==
  /\ phase[p] \notin Ending \cup {"idle"}
  /\ phase' = [phase EXCEPT ![p] = "aborted"]
  /\ writer' = writer \ {p}
  /\ IF phase[p] \in {"opened", "reading"}
     THEN txn' = EmptyDatabase /\ unread' = {}
     ELSE UNCHANGED reading
  /\ collected' = [collected EXCEPT ![p] = NoEntries]
  /\ UNCHANGED <<source, db, tables, tempdir>>

Idle == \A p \in Expander : phase[p] \in Ending \cup {"idle"}

\* Once no process runs, the user may remove what a crash has left, the
\* directory and the unfinished database, or one of them only.
CleanUp ==
  /\ Idle
  /\ \/ /\ tempdir
        /\ tempdir' = FALSE /\ UNCHANGED lmdb
     \/ /\ tables # {} /\ \A p \in Expander : phase[p] # "done"
        /\ db' = EmptyDatabase /\ tables' = {}
        /\ UNCHANGED <<tempdir, writer>>
  /\ UNCHANGED <<source, reading, collected, phase>>

Stopped == (\A p \in Expander : phase[p] \in Ending) /\ UNCHANGED vars

Run(p) ==
  \/ Begin(p)
  \/ MakeTempDir(p)
  \/ \E id \in Node : ReadNode(p, id)
  \/ \E id \in Way : ReadWay(p, id)
  \/ \E id \in Relation : ReadRelation(p, id)
  \/ CommitElements(p)
  \/ BeginIndex(p)
  \/ CommitBatch(p)
  \/ \E i \in DOMAIN Indexes : FinishIndex(p, i)
  \/ RemoveTempDir(p)
  \/ Crash(p)

Next == (\E p \in Expander : Run(p)) \/ CleanUp \/ Stopped

Spec == Init /\ [][Next]_vars

----------------------------------------------------------------------------
(* Properties.                                                             *)

\* Types of the variables.
TypeOK ==
  /\ source \in Source
  /\ db \in Database /\ txn \in Database
  /\ tables \subseteq ElementTables \cup IndexNames
  /\ tempdir \in BOOLEAN
  /\ writer \subseteq Expander
  /\ unread \subseteq Elements
  /\ \A p \in Expander : \A name \in IndexNames :
       collected[p][name] \subseteq source[name]
  /\ phase \in [Expander -> IndexNames \cup Ending
                              \cup {"idle", "opened", "reading", "leaving"}]

Inside(p) == phase[p] \in IndexNames \cup {"reading", "leaving"}

\* Two processes are never between mkdir and rmdir of the one directory, where
\* they would overwrite each other's run files, and none is there without it.
TempDirExclusive ==
  /\ \A p, q \in Expander : Inside(p) /\ Inside(q) => p = q
  /\ (\E p \in Expander : Inside(p)) => tempdir

\* When a process ends well the database is that of the file, with every
\* element and every index entry, although others crashed before it, left
\* their half of a database or their directory, or tried at the same time.  Like
\* IndexesInOrder and QueriesAreFinal it holds when no run file is cut short.
DoneIsExpanded == (\E p \in Expander : phase[p] = "done") => db = source

\* The committed elements with complete indexes.
Complete ==
  Expanded(db.locations, db.nodes, db.ways, db.relations, db.metadata)

\* At every moment, also after a crash between two commits, no index table
\* that readers see holds an entry without the element behind it.
EntriesAreTrue == \A name \in IndexNames : db[name] \subseteq Complete[name]

\* Once readers see any entry of an index table, those written before it are
\* complete, so a reader that finds the parent of a relation also finds every
\* way of a node.
IndexesInOrder ==
  \A i, j \in DOMAIN Indexes :
    i < j /\ db[Indexes[j]] # {} => db[Indexes[i]] = Complete[Indexes[i]]

\* Whenever osmx query is called, each count it prints but the last is that of
\* the whole file, and a location, a way, a relation or a timestamp it prints
\* is that of the file, also when it aborts afterwards.
QueriesAreFinal ==
  /\ LET counts == QueryStat(db, tables).printed
     IN  \A i \in 1..Len(counts) - 1 : counts[i] = Count(source, StatTables[i])
  /\ \A id \in Node : LET answer == QueryNode(db, tables, id) IN
       answer # Silence => answer = QueryNode(source, ElementTables, id)
  /\ \A id \in Way : LET answer == QueryWay(db, tables, id) IN
       answer.ended => answer = QueryWay(source, ElementTables, id)
  /\ \A id \in Relation : LET answer == QueryRelation(db, tables, id) IN
       answer.ended => answer = QueryRelation(source, ElementTables, id)
  /\ LET answer == QueryStamp(db, tables) IN
       answer.ended => answer = QueryStamp(source, ElementTables)
=============================================================================
