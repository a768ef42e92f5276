# A TLA+ model of OSM Express

OSM Express (`osmx`) keeps OpenStreetMap data in one LMDB file with reverse
indexes: from a cell to its nodes, from a node to its ways, from a member to its
relations. This directory holds TLA+ modules that model the program, the TLC
configurations that check them on small instances, and TLAPS proofs for every
value of the constants. All paths below are relative to the repository.

## 1. Inventory

| Part | Code | State it keeps | Operations |
|---|---|---|---|
| storage | `src/storage.cpp`, `include/osmx/storage.h` | ten LMDB tables: `locations`, `nodes`, `ways`, `relations`, five index tables (DUPSORT), `metadata` | put, del, exists, getReader, traverseCell, traverseReverse, IndexWriter |
| expand | `src/expand.cpp` | five external sorters, run files in a temporary directory, one write transaction for the elements, further ones for each index | mkdir, node/way/relation callbacks, `~Handler`, `Sorter::put`, `persist`, `writeDb`, rmdir |
| update | `src/update.cpp` | one write transaction | node/way/relation handlers, commit, abort |
| extract | `src/extract.cpp` | one read transaction, three id sets, the output buffer | selection, completion, write passes |
| regions | `src/region.cpp` | the list of S2 shapes of a region | constructor (`.bbox`, `.disc`, `.poly`, GeoJSON), `GetCovering`, `GetBounds`, `Contains` |
| query | `src/cmd.cpp` | none | lookups of one object, of the metadata, of table sizes |
| replication client | `utils/osmx-update`, `utils/server.py` | lock file, current sequence number, a temporary file, a child process | sequence lookup, download, apply |
| Python library | `python/osmx/osmx.py` | read transactions | lookups |
| augmented diff | `python/examples/augmented_diff.py` | a table of actions | propagation of changes to parents |
| other examples | `python/examples/`, `examples/` | none | demonstrations of the library |

**How they interact.** All programs share one file. LMDB is external: it admits
one writer at a time, gives each reader the last committed database, and a
transaction spans all tables. `expand` creates the file, `update` changes it in
place, `extract`, `query` and the Python programs read it. `osmx-update` starts
`osmx query` and `osmx update` as child processes and keeps other clients out
with a file lock. There are no threads in the program's own code; the
concurrency is between processes.

**What is hard, and what makes each part correct.**

- *update* never rebuilds an index. It writes the differences between the stored
  version of an object and the new one, so an error would stay for ever. The
  indexes have to be the exact inverses of the element tables after any sequence
  of changes, applied in any order, repeated, interrupted or rolled back.
- *expand* collects index entries outside the database, sorts them in runs, and
  writes each table in batches, each a commit of its own. The table must hold
  the entries put and no others; what readers see meanwhile must be true.
- Several runs of *expand* may meet at one output, or follow on each other's crash;
  a database that is half built must never be taken for finished.
- *extract* gets its region from one of five options, in four formats; what it does
  not understand it may refuse, but what it understands must be the region that is
  extracted and the box in the header. It computes a closure over relations that may contain each other, looks
  up ids that may dangle, and writes through a buffer with separate write and
  commit. The selection must be exact, the loop must end, and what is selected
  must be written.
- *query* aborts on what it does not find; what it has printed by then must be true.
- The *augmented diff* has to name what a diff changes indirectly, by looking only at
  the database before the diff.
- *osmx-update* can be killed between any two steps, the network can fail, and
  its child outlives it. The sequence number in the file must agree with the
  data, and it must catch up.

The list of hazards with their lines is in `PROJECT.json`.

## 2. Modules

| Module | Models | Uses |
|---|---|---|
| `Storage` | tables, operations on them, and what the index tables mean (`WellIndexed`, `Expanded`) | |
| `StorageProofs` | lemmas about the tables | `Storage`, `TLAPS` |
| `NumberProofs` | least numbers and induction as facts about sets | `WellFoundedInduction`, `TLAPS` |
| `RefGraph` | abstract specification: a map from objects to what leads to them, with drafts published or discarded as a whole | |
| `Update` | `osmx update` | `Storage`, refines `RefGraph` |
| `UpdateProofs` | theorems about `Update` and the augmented diff | `AugmentedDiff`, `StorageProofs` |
| `IndexBuild` | abstract specification: entries are collected, then published in key order | |
| `Sorter` | the external sort and the batched writer | refines `IndexBuild` |
| `SorterProofs` | theorems about `Sorter` | `Sorter`, `NumberProofs` |
| `Query` | `osmx query`: what it prints of a database, and where it aborts | `Storage` |
| `Expand` | `osmx expand`: several processes, commits, crashes, reruns | `Query` |
| `ExpandProofs` | theorems about `Expand` | `Expand`, `StorageProofs` |
| `Region` | the shapes of a region document, covering and box | |
| `Extract` | `osmx extract` | `Storage`, `Region` |
| `ExtractProofs` | theorems about `Extract` and `Region` | `Extract`, `StorageProofs`, `NumberProofs` |
| `AugmentedDiff` | `augmented_diff.py`: what a diff changes, against the update that follows | `Update` |
| `Diffs` | the diffs of a server and the data after them | |
| `Follower` | abstract specification: a database that applies the diffs of a server one by one and catches up | `Diffs` |
| `Replication` | `utils/osmx-update`: clients, lock, children, failures and kills | `Diffs`, refines `Follower` |
| `ReplicationProofs` | theorems about `Replication` | `Replication`, `TLAPS` |
| `StateSearch` | `timestamp_to_sequence` of `utils/server.py` | |
| `StateSearchProofs` | theorems about `StateSearch` | `StateSearch`, `NumberProofs` |
| `MCUpdate`, `MCSorter`, `MCExpand`, `MCExtract`, `MCReplication`, `MCStateSearch` | instances for TLC | |

### Storage

A database is a record with one field per LMDB table, under the table's name.
Element tables are partial functions from ids to rows, index tables sets of
`<<key, osm_id>>` pairs. A row keeps what the code uses for control: the nodes
of a way (a set, since both the handlers and the indexes treat them as one), the
members of a relation by type, and a `tags` value that says whether a relation is
a multipolygon. Tag lists, roles, versions, users and time stamps are left out;
no decision of the program depends on them. `CellOf` stands for
`S2CellId(...).parent(CELL_INDEX_LEVEL)`.

### Update

`db` is the committed database, `txn` the running transaction's view of it,
`active` whether LMDB's writer lock is taken, `applied` the number of changes
handled (bounded by `MaxChanges`). Each handler of `DataUpdate` is one operator
from database to database (`NodePut`, `NodeDeleted`, `WayPut`, ...) and one action
that applies it to `txn`. `prev_cell` of `DataUpdate::node` is not initialised
when the node is unknown: `PrevCell` then is any value of `Cell`, which must
include values that are cells of other nodes. `Reindex` is the pair of loops over
set differences at the end of `way()` and `relation()`. `Commit` writes the
metadata in the transaction of the data; `Rollback` is `mdb_txn_abort` and also
every way the process can end before its commit, because LMDB drops an
unfinished transaction. A file starts as `expand` leaves it (`IsExpanded`).

### Sorter

`put` is the input in order, `storage` and `runs` are `mStorage` and
`mSavedRuns` (while merging, what is unread of each run), `txn`, `table` and
`writes` are the `IndexWriter`'s transaction, the committed table and `mWrites`.
`WriteIndex` commits on the write that meets `mWrites == 8000000`, counting from
0. `MergeNext` is one turn of the merge: the least pair of the queue, with the
comparison to `last`, the choice between `MDB_APPEND` and `MDB_APPENDDUP`, and LMDB's
refusal of pairs out of order (`Appendable`), which fails a `CHECK`.

The code looks at no stream's state. When the disk is full, `Persist` leaves a run
with the first pairs of those in memory (any number of them); what no file holds any
more is in `lost`, a history variable. When a run cannot be opened (`OpenFails`) its
reader hands out the pair (0,0) for ever, since `getNext` only asks for `eof`, and the
merge never gets past it: phase `"endless"`. `IndexBuild` has both: entries may be lost
while they are collected, a build may hang before it publishes anything. It does not
allow to lose an entry once it is sealed, to publish out of order, or to finish
without an entry that a file holds.

### Query

A query is a function of the committed database and of the set of its tables, since
`mdb_dbi_open` of a table that was never created fails a `CHECK` in a read
transaction. An answer is what has been printed and whether the command came to its
end.

### Expand

`Expander` are the processes that are started with the same file and output, at once or
after one another; each runs once. `source` is the file, as the database that it
describes; it is handed over in any order (`unread`), and an order that `MDB_APPEND`
refuses ends in `Crash`. `writer` is the holder of LMDB's write lock: `Begin` and
`BeginIndex` wait for it, and it is free between the commits, so another process can come
in there. Elements go into `txn`, index entries into `collected`, one set per sorter.
`CommitElements`, `CommitBatch` and `FinishIndex` are the commits of `~Handler`, in its
order; `tables` are the tables that exist for readers. A sorter is represented by what
`Sorter` is checked to do when the disk has room for the run files (a full one cuts them
short and ends nothing, `src/expand.cpp:63`; `DoneIsExpanded`, `IndexesInOrder` and
`QueriesAreFinal` and their theorems have this condition): its table grows within the
entries collected until it holds all of them (any batch is allowed, a superset of the
prefixes the sorter commits). `tempdir` is the directory that `mkdir` makes and `rmdir`
removes; both are in assertions, which the build keeps (`CMakeLists.txt:5` sets `-O3` and
no `NDEBUG`). `Crash` is any end of a process before the last step: a failed `CHECK` or
assertion, a write of LMDB to a full disk, a kill. `CleanUp` is the user, who may remove
the directory, the unfinished database, or only one of them, before the next process is
started.

Readers between two commits, and everyone after a crash there, see elements that no
index leads to, although `README.md:15` says "Reads and writes are transactional": only
what `EntriesAreTrue`, `IndexesInOrder` and `QueriesAreFinal` say holds then.

### Region

S2 is external: a shape is a record of the level 16 cells that cover it and of its
bounding rectangle, with longitudes on a circle from `-East` to `East`. A document is the
text of an option with the kind the code takes it for; numbers are taken to be well
formed. `FromGeoJson` follows the code into the loop over a `GeometryCollection`, which
hands over the collection and so yields nothing. `Crashes` are `.poly` files whose last
line is `END` with a carriage return: `END` of a ring is looked for in a trimmed line,
`END` of the file in the line as it is. `Described` and `Areas` say what a document means
by its format, `Understood` which documents the code reads that way. A ring of a `.poly`
file whose name starts with `!` is a hole by the format; the code takes it for an area, and
`Described` follows the code there: the model does not tell the two kinds of rings apart,
and no property speaks of holes.

### Extract

`options` is the command line: the region options that are given, with their values,
and the level of `--expand`. `MakeRegion` takes the first of the five that is given; no
option ends in `"exited"`, a file of an unknown ending leaves a null pointer that is
followed. `Cover` is the covering with the cells beside it, `WriteHeader` the box.

The read transaction sees one database, so `db` is constant; it ranges over all
databases with exact indexes (what `Update` is proved to keep), dangling references
included. `phase` is the block of `cmdExtract` that runs next. `ParentsRound` is
one turn of the `while(true)` loop, with `discovered_relations` as `discovered`.
The output buffer is split into what is written but not committed (`pending`) and
what the writer gets (`file`): `WriteNode` leaves an untagged node in `pending`, as
the `continue` between builder and commit does; `CommitBuffer` commits everything
that is in the buffer. A `getReader` of a missing row ends in phase `"aborted"`.
`NeverAborts` is about those readers: the crashes of a null region, of a `.poly` file with
carriage returns and of a `GeometryCollection` are in the model (`MakeRegion`, `Crashes`,
`Understood`) and excluded from it, so the hazards at those lines name no property.

### AugmentedDiff

The script reads one database and one file and has no state that outlives it, so it is
a function of both: `Newest` the first pass over the versions, `Modified` what remains a
modify, `AffectedWays` and `AffectedRelations` the propagation, `GetLatLon` where a node's
coordinates come from, `Fails` the databases and files on which it ends with an exception,
`Reported` the objects in its output when it does not. An entry that deletes a node may
state its coordinates or not: without them `get_lat_lon` gives two times `None` without an
exception, and `ET.write` (line 379) refuses the attributes at the end. Entries that delete
ways or relations list no nodes or members; that is an assumption about the files. `Respelled` are the
coordinates whose text in the file differs from Python's text of the stored number, since
texts are compared. The properties relate it to `Update`: `Updates` are all files of two
changes to the current database with what `osmx update` makes of them, the blocks chosen
as OpenStreetMap does (an id is created once; a deleted object that comes back is a
modify).

### Replication

`Client` are the runs of `osmx-update` that may be going on at the same time; a
client that has ended may be started again. `lock` is the holder of
`/tmp/osmx.lock`, `pc`, `current` and `goal` are a client's next statement,
`current_id` and `latest`, and `db` is what queries of the file return: the sequence
number (`NoSeq` when `query seqnum` prints nothing) and the data. One
`osmx update ... --commit` is one step, `ApplyDiff`, when its transaction commits:
that readers see a transaction as a whole, and that a diff overwrites the objects
it names and no others, is `ImplementsGraph` of `Update`, so the data are kept as
the last diff that wrote each object (`Diffs`). `update[p]` is the diff that the
running child of client `p`, or orphan `p`, is to apply. `Kill` ends a client
anywhere: the system releases its lock, and its child becomes an orphan.
`Abort` stands for every exception of a query or a download, among them the
attribute access on the `None` that `get_state_info` returns; `ChildFails` for the exception
of `check_call`. `Exit` is the `finally`. `Search` and `GiveUpSearch` are the answers
that the search by timestamp may give: any number of the server. `done` is a
history variable, the diffs that the data are known to have: those up to the first
number or to the answer of a search, and those committed; no action reads it.

### StateSearch

A state of the server is its sequence number; `times` are the timestamps, `missing`
the states without a file, `target` the parameter. All three are chosen by `Init`.
`upper`, `lower`, `lowerid` and `result` are the variables of the code, `pc` the loop
it is in. Every request reads from some set `Readable`: all published files or, when
`flaky`, any of them, since a failed request and a missing file are both `None`. One
action is one turn of a loop; the requests of the inner loops, towards lower and then
towards upper, are represented by the first that is answered (`IsSplit`). `Base` is
the interpolation with its rounding and its cap; `balanced_search` is never set by
`osmx-update` and is left out.

## 3. Runs

| Run | Module, configuration | Question | Bounds |
|---|---|---|---|
| `update_ways` | `MCUpdate`, `MCUpdateWays.cfg` | Do node and way changes keep the cell index exact, whatever `prev_cell` holds? Does the command implement `RefGraph`? Is the last version decisive, does the order of changes to different objects matter? Does the augmented diff name every way that changes, and fail only where a node is missing? | 2 nodes, 1 way, 3 coordinates in 2 cells, a third stray cell value; 2 changes per transaction, any number of transactions |
| `update_relations` | `MCUpdateRelations.cfg` | Do all changes keep the four member indexes exact, and obey the laws of pairs of changes? | 1 node, 1 way, 2 relations with every combination of members; 1 change per transaction, any number of transactions |
| `extract` | `MCExtract.cfg` | Which objects are written, with which box, for every kind of region? Is no missing row read, does the command end? | 3 relations in every member graph, cycles and loops included; 2 nodes in or out of the region, tagged or not, 2 ways and a relation with dangling members; about 500 command lines over 5 shapes for databases of 2 nodes and a way |
| `extract_trailing` | `MCExtractTrailing.cfg` | Is every node of the region written? **No** | 2 nodes, 1 way |
| `sorter` | `MCSorter.cfg` | Does the sort build the index, in order, and end, whatever a full disk leaves of its runs? | 5 puts of 6 pairs, runs of 2, transactions of 2 writes, every run cut anywhere |
| `expand` | `MCExpand.cfg` | Is a database that a process finishes that of the file, and what do readers and queries see before? | 3 processes, crashes and cleaning anywhere; 2 nodes, 1 way, 1 relation |
| `augmented_diff` | `MCUpdate`, `MCAugmentedDiff.cfg` | Does the augmented diff name every relation whose geometry the update changes? **No** | a node, a way, a relation, 2 coordinates; files of 2 changes |
| `replication_follow` | `MCReplicationFollow.cfg` | Do clients that are not killed implement `Follower`? | 2 clients, 5 diffs after the first data that overwrite each other in part |
| `replication_kills` | `MCReplicationKills.cfg` | Is a diff ever passed over when clients are killed, and is every published diff reached? | 1 client at a time, 2 kills, 3 diffs, a first file with and without a number |
| `replication_timestamp` | `MCReplicationTimestamp.cfg` | Are the data those of the number that readers see? **No** | 1 client, 1 kill, 4 diffs |
| `state_search` | `MCStateSearch.cfg` | Is the last state before the timestamp found? Do the bounds stay sound, and does the search end, when requests fail? | all servers of 5 states with 4 timestamps, all sets of missing files, requests that may fail or not |
| `state_search_contains` | `MCStateSearchContains.cfg` | Is the answer a file that does not start after the timestamp? **No** | as `state_search` |

**Why the bounds are enough.** A handler reads and writes rows and entries of one object,
so interference needs two objects of a type and a third of another; a move inside a cell
and one to another cell need three coordinates, and a stray `prev_cell` can hit the cell
of another node. Two changes per transaction make superseding and undoing possible, the
laws look at every pair of changes, and the number of transactions is not bounded, so
every database over the ids is reached. Three relations give cycles of length three, and
chains in which a relation is found both directly and as a parent. The shapes of
`MCExtract` lie beside each other, have no width, cross the antimeridian or hold a pole,
and documents combine any two of them; the families of databases for the closure, for the
completion and for the command lines are separate, since no action depends on two of these
at once. Three processes of `Expand` let one crash, one be refused while another works,
and one come after both. `MaxRunSize = 1` and `BatchSize = 1` put five pairs into three
runs and three transactions, with equal pairs in different runs. Two kills give two
orphans besides a running child, and three diffs after the first data let an orphan commit
before, between and after its successors. One client is enough with kills: the lock lets
one run at a time, and a restarted client is a new one; `replication_follow` has the
second client that meets the lock. The five states of `StateSearch` are enough for a reset
of the lower id, an upper bound that moves twice and a gap on both sides of the base.
Symmetry is used in `MCUpdate` over ids only, which the code compares for equality alone,
and no liveness is checked there; it is used nowhere else, and ids of `Expand`, `Extract`
and `Sorter` are numbers since their order matters.

**Properties.** In each module the section at the end states them, with the behaviour of
the code they are about. The deeper ones are `CellIndexIntegrity` and
`MemberIndexIntegrity` (indexes against elements over histories), `LastVersionWins` and
`ChangesCommute` (laws of pairs of changes), `ImplementsGraph` (locality and atomicity),
`RelationsExact` (least fixpoint), `NodesExact` (exactly which nodes a buffer with
separate write and commit loses), `BoxIsRight` (a box on a circle against all areas a
document describes), `BuildsIndex` (refinement with liveness and a failing disk),
`DoneIsExpanded` (a finished database against crashes, leftovers and rivals),
`QueriesAreFinal` (what a query prints at any moment against the file), `PropagatesToWays`
(a diff against the difference of two databases), `EndsOnWholeData` (which failures the
caught and uncaught exceptions of the augmented diff leave), `FollowsServer` (exclusion,
atomicity and order together, with liveness), `NoDiffSkipped` (a number against the
history, with orphans), `Exact` (an interpolating search with gaps against a definition),
`EntriesAreTrue` and `IndexesInOrder` (what readers see between the commits).

**Fairness.** `Extract` and `Sorter` are loops of one sequential process; weak fairness of
its next step says that the operating system goes on running it. `Work` of the sorter
leaves out `Put`, since input may end at any time, and `StartMerge` is fair because a file
is finite; a sort that hangs is a stage of its own in `IndexBuild`. Crashes are never
fair. In `Replication` the fairness says that the operator (or cron) runs the client again
and again, that the operating system runs its steps and those of its children (`WF`), and
that requests and children fail at times but not always (`SF` of `ReadSeqnum`, `Search`,
`Download`, `ApplyDiff`). `SF` of `ReadLatest` by a client that is behind says that a
request for the latest state succeeds not only for clients that have nothing to do.
`StateSearch` is one sequential process with timeouts on its requests, so weak fairness of
its next step is what the system gives. `Update` and `Expand` have no fairness: the
properties stated of them are about what can be seen, not about what must come.

**Deadlock** is checked in every run. Processes that have ended stutter
explicitly (`Stopped`).

### Findings

1. `extract_trailing`: an untagged node is written to the buffer and left by
   `continue` (`src/extract.cpp:319`) before `commit()`. The next object's commit
   takes it along; when no tagged node, way or relation follows, `flush()` drops
   it. `NodesExact` states exactly which nodes can be missing: untagged ones at the
   end of an extract without ways and relations.
2. `replication_timestamp`: `docs/MANUAL.md:126` says a read "will retrieve the correct
   timestamp for the data it fetches". `osmx update` writes the number it is given without
   looking at the stored one; the child of a killed client goes on without the lock
   (`utils/osmx-update:46`) and may commit an older diff after newer ones. When that is the
   last commit, the data are newer in part than the number, and the next run applies the
   later diffs again. When it falls between two commits of the next client, whose loop
   does not read the number again, objects of the older diff are back at an old version
   under the newest number, and no later run repairs them. One kill is enough.
   `NoDiffSkipped` and `CatchesUp` hold all the same: every diff is committed and the
   number catches up.
3. `state_search_contains`: the docstring (`utils/server.py:28`) promises the file that
   contains the timestamp. When requests give `None` while a lower bound is searched,
   `upper` is returned (line 64) though earlier files exist, and `osmx-update`, which goes on
   after it, skips the diffs between. `Exact` says when that cannot happen.
4. `augmented_diff`: the comment at `python/examples/augmented_diff.py:218` says that a
   moved node propagates to "any relations that the way belongs to". The loop over
   `way_relation` stands inside `if 'way/' + str(way) not in actions`, and a way that is in
   the diff propagates only when its list of nodes differs: a diff that moves a node and
   retags a way through it hides the change from the relations of that way.

One more disagreement has no run of its own: `src/extract.cpp:291` says that for regions
that cross the antimeridian "the output header box is omitted". It is, when the area
that crosses is the only one; next to another area `GetBounds` takes the least and the
greatest longitude and a box is written that does not hold the crossing one. `BoxIsRight`
states what does hold.

## 4. Proofs

Every safety invariant that a passing run checks is a theorem, and so are the refinement
of `RefGraph` and the safety parts of the refinements of `IndexBuild` and `Follower`. The
theorems hold for every value of the constants that satisfies the assumptions named in
each module, which TLC evaluates on the instances. They are listed with what they
establish in `PROJECT.json`.

### Update (`UpdateProofs`)

For all sets of ids, coordinates and cells and any number of changes (`CellOf` maps
coordinates to cells, `NoStamp` is no stamp, `MaxChanges` is a natural number):

| Theorem | States |
|---|---|
| `TypeCorrect`, `CellIndexCorrect`, `MemberIndexesCorrect`, `StrayCellNeverMatters` | `[]TypeOK`, `[]CellIndexIntegrity`, `[]MemberIndexIntegrity`, `[]StrayCellHarmless` |
| `LastVersionAlwaysWins`, `ChangesAlwaysCommute` | `[]LastVersionWins`, `[]ChangesCommute` |
| `DiffsPropagateToWays`, `DiffsPropagateUnlessHidden` | `[]PropagatesToWays`, `[]PropagatesUnlessHidden` |
| `DiffsEndOnWholeData` | `[]EndsOnWholeData` |
| `UpdateImplementsGraph` | `ImplementsGraph`, the refinement of `RefGraph` |

The inductive invariant is `Inv == TypeOK /\ WellIndexed(db) /\ WellIndexed(txn)`. Neither
index property is inductive alone: that a move deletes the right cell entry needs the
cell index exact and the location present, and that a stray deletion hits nothing needs
both that there is no entry for an unknown node and that tagged nodes are
located (`TaggedAreLocated`, otherwise deleting an unknown but tagged node would
change `nodes`). Types are needed as rows are only functions on their domain.
The heart are two lemmas about `Reindex`, `ReindexPut` and `ReindexDel`: if an index
is the inverse of a table, writing the differences between the old and the new
references of one object makes it the inverse of the changed table. Each handler
has a `...Keeps` lemma that applies them to the tables it touches; `InvNext` has one
step per action. The refinement rests on locality (`...HandlersLocal`): a handler
changes entries `<<_, id>>` of its own object only, so `Lookup` changes at one
object, which is a `Replace` step.

The two laws need no look at the index tables at all. From a well-indexed database a
change has one outcome, whatever `prev_cell` is (`OneOutcome`), that outcome is
well-indexed (`ResultKeeps`), and two well-indexed databases with the same rows are
equal, since the indexes are functions of the rows. What remains are two puts or deletions
in one table or in two (`Changed`).

The augmented diff is compared with `Changed` as well. A file of two changes leads
from the database over the result of the first to that of the second (`Leads`). Of a node
that has another location afterwards the entry that counts is a modify with that
location, whatever stands before it (`NodeMoved`), and likewise for the nodes of a way
(`WayRewired`), so the indexes, exact by `Inv`, lead to every way (`WayNoticed`).
`DiffsPropagateUnlessHidden` is the other half of the finding of run `augmented_diff`: a
relation is missed only through a way that is in the file with its old nodes while its
geometry changes; every other relation is reported, in particular none is left out as
one that cannot be augmented. The theorem stands for itself: no run has this property.
Both say what the output holds when the script does not fail. `DiffsEndOnWholeData` says
when that is: when the ways of the database have their nodes, and those and the relations
still have them after the update. The entry that counts for an object has the last word on
its row (`CountsLast`), so a node without coordinates is gone after the update
(`BareIsGone`), while what the script draws with new nodes is still there (`NewNodesStay`,
`NewMembersStay`) and would lack it. The instance of the run has no relations; the theorem
has them.

### Expand (`ExpandProofs`)

For any number of processes, every file that is a database with derived indexes
(`SourceAssumption`: what a file describes), ids that are natural numbers:
`ExpandTypes`, `OneProcessInTempDir`, `FinishedIsTheFile`, `EntriesAlwaysTrue`,
`IndexesAppearInOrder`, `QueriesPrintTheFile` state the six invariants of run `expand`.

They are inductive together. `PartsInv`: what readers see is a part of the file, with all
elements or none. `LockInv`: at most one process is in a write transaction, and the
elements are only touched in one. `ReaderInv`: each object of the file is in the
transaction or unread, each index entry with its sorter or belongs to an unread object;
the transaction's index tables are those of the database. `WriterInv`: while index *i* is
written those before it are complete, and of those after it every entry is in the table or
still with the process; so when the last is written the database is the file.
`OrderInv`: an index table exists only when those before it are complete. `TempDirExclusive`
is part of the invariant: that a second process cannot append to tables of the first rests
on the directory as well as on LMDB's lock, which is free between commits.

### Extract and regions (`ExtractProofs`)

For every well-indexed database and every command line whose documents are well
formed (`InputAssumption`), where the cells beside a cell include it (`WidenAssumption`):
`ExtractTypes`, `ExtractNeverAborts`, `ExtractRelations`, `ExtractWays`, `ExtractNodes`,
`ExtractBox` state the six invariants of run `extract`.

The invariant has a part per stage. `PlaceInv`: the region is that of the document, the
covering that of the region, the box its bounds. `FoundInv`: the nodes and ways selected
at each phase, given by element rows alone (exact indexes make the traversals that).
`RelationInv`: during the rounds all parents of relations that are not of the last round
are selected already, and whatever is selected is in every closed set: at the end
`discovered` is empty, so the selection is closed and the least such set, whether or not
relations form cycles. `OutputInv`: what the passes have reached is in the file or in the
buffer, and everything in the buffer is an untagged node after which nothing was
committed. The box needs the bounds of a sequence of shapes (`BoundsAreBox`), and
`BoxIsRight` that the shapes of a document are the areas it describes (`Understood`).

### External sort (`SorterProofs`)

For any number of pairs of natural numbers, runs and transactions of any length:
`SorterTypes` and `SorterNeverAborts` state the invariants of run `sorter`;
`SorterBuilds` that every behaviour starts in an initial state of `IndexBuild` and makes
its steps, which is `BuildsIndex` without fairness.

`RunsInv`: every run is in ascending order, also one that was cut, since a cut leaves
the beginning. `LastInv`: what is written does not come after the last pair taken, what is
still in a run does not come before it; so the head of the queue may be appended.
`ContentInv`: the entries of the abstract index are those in memory, runs and tables. Two
facts about data are proved on the way: that a sorted arrangement of the pairs in memory
exists (`OrderExists`), without which the `CHOOSE` in `Sorted` would say nothing, and
that of several runs with heads the queue has a least one (`FirstOfPairs`).

### Replication client (`ReplicationProofs`)

For any number of clients, kills and diffs (clients are no numbers of orphans, diffs and
the first number are in range): `ReplicationTypes` states `[]TypeOK`,
`NoDiffIsSkipped` states `[]NoDiffSkipped`. Of a file without a number the answer of the
search, also of one that gave up, says where to begin: what lies before it counts as done.

`NoDiffSkipped` speaks of the stored number only. It is inductive together with
what each client and child rests on (`SkipInv`): all diffs before a client's `current`
are committed, so are those before the diff of every child and orphan, a child runs
its client's `current`, and when the child is gone that diff is committed (`check_call`).
The lock is not used: a second client may repeat diffs but not pass over one. The
types need `GoalInv`, without which `Continue` could count past the last diff.

`FollowsDiffByDiff`: without kills and from a file with a number (`MaxKills = 0`,
`NoSeq \notin FirstSeq`, as in run `replication_follow`; with kills the refinement is
false, run `replication_timestamp`), every behaviour starts in an initial state of
`Follower` and makes its steps, which is `FollowsServer` without fairness. Here the lock is
what counts: only its holder is not idle (`OneRuns`), so its `current` stays one ahead of the
number in the file (`AheadInv`), and the data are those of the number (`DataInv`).

### Search for a state (`StateSearchProofs`)

For any server and any way its requests fail (`Last` and `MaxTime` are natural numbers):
`SearchTypes`, `SearchBrackets` and `SearchIsExact` state `[]TypeOK`, `[]Brackets` and
`[]Exact`. `Enclosed` has the two orders of the bounds, of ids and of timestamps; the
interpolation needs both (`BaseBetween`), and the next bound is between them because
`Base` is. `Exact` needs besides (`AnswerInv`) that timestamps are in order over the whole
range although the assumption on a server only compares neighbours (`StepsInOrder`, by
induction), and that without failing requests the lower bound is a state before the
timestamp that has a file; when no split is found, no file is left between the bounds.

### Limits

**Induction over data.** The library's induction theorems take operators as parameters,
which the provers cannot instantiate. Where an inductive fact is needed it is stated as
one about a set of numbers: `SetInduction` of `NumberProofs` says that a set of natural
numbers with 0 and all successors is `Nat`, and follows from the well-foundedness of
`<`. In this way the existence of a sorted arrangement, the bounds of a sequence of
shapes and the flattening of sequences (`FlatteningExists`) are proved.

**Definitions written for the proofs.** `Sorted` is the arrangement through a bijection
rather than `SortSeq` of the module `TLC`, which has no definition the prover can use.
`Widen` is given for all levels and the guards of the kinds of documents are disjoint:
a `CASE` with overlapping guards, or a function outside its domain, means some value that
nothing is known of.

**Model-checked only.** Liveness (`Terminates`, `Ends`, `CatchesUp`, the fair parts of
`BuildsIndex` and `FollowsServer`), which the prover cannot reach; and, by their nature,
the four counterexamples of the runs that expect a violation.

## 5. Not modelled

The geometry of S2 and the reading of numbers (a text with too few numbers leaves
uninitialised coordinates, `src/region.cpp:75`; `Region::Contains` is only called by
tests), output formats, help texts, progress output, the metadata and tags of single
objects, the boxes and the order of the augmented diff, the other examples, the URLs
and the parsing of state files, the temporary file of a download. LMDB is taken at its
word (one writer, snapshots, atomic commits); what a power failure does to a file opened
with `MDB_NOSYNC` is outside. An `update` of a file that is still being expanded is
possible, since the lock is free between the commits, and would leave wrong indexes; no
document promises anything for it and no property is stated.

## 6. Plan

What is left:

1. With kills: what does hold of the data of `Replication` when an orphan commits late
   (which diffs the data may lack, and until when), as a property and a theorem.
2. What the statement on termination of `Extract` rests on, without fairness: that each
   round of `ParentsRound` but the last adds a relation, as an action property with a proof.
3. An update of a file that is still being expanded is not modelled (section 5); if the
   program ever documents that case, `Expand` and `Update` would be composed.
