---------------------------- MODULE ExpandProofs ----------------------------
(***************************************************************************)
(* Proofs about Expand, for any number of processes, every OSM file and    *)
(* crashes anywhere.                                                       *)
(***************************************************************************)
EXTENDS Expand, StorageProofs

----------------------------------------------------------------------------
(* The inductive invariant.                                                *)

PartOf(table, whole) ==
  /\ DOMAIN table \subseteq DOMAIN whole
  /\ \A id \in DOMAIN table : table[id] = whole[id]

\* The rows and entries of d are rows and entries of the file.
Part(d) ==
  /\ PartOf(d.locations, source.locations)
  /\ d.nodes = source.nodes \cap DOMAIN d.locations
  /\ PartOf(d.ways, source.ways)
  /\ PartOf(d.relations, source.relations)
  /\ \A name \in IndexNames : d[name] \subseteq source[name]

\* The elements of the file are committed.
Filled ==
  /\ ElementTables \subseteq tables
  /\ \A name \in ElementTables : db[name] = source[name]

\* Readers see a part of the file, with all elements or with none.
PartsInv ==
  /\ Part(db) /\ Part(txn)
  /\ Filled \/ (db = EmptyDatabase /\ tables = {})

\* Each process has a sorter for each index.
SortersInv ==
  collected = [p \in Expander |-> [name \in IndexNames |-> collected[p][name]]]

\* One process writes, and the transaction of the elements is a write transaction.
LockInv ==
  /\ \A p, q \in writer : p = q
  /\ \A p \in Expander : phase[p] \in {"opened", "reading"} => p \in writer

\* The type of the elements that give the entries of an index.
Owner == [cell_node |-> "node", node_way |-> "way", node_relation |-> "relation",
          way_relation |-> "relation", relation_relation |-> "relation"]

\* What a process has read of the file is in its transaction and its sorters,
\* and it has changed no index table.
ReaderInv ==
  \A p \in Expander : phase[p] \in {"opened", "reading"} =>
    /\ txn.metadata = source.metadata
    /\ \A id \in DOMAIN source.locations :
         id \in DOMAIN txn.locations \/ <<"node", id>> \in unread
    /\ \A id \in DOMAIN source.ways :
         id \in DOMAIN txn.ways \/ <<"way", id>> \in unread
    /\ \A id \in DOMAIN source.relations :
         id \in DOMAIN txn.relations \/ <<"relation", id>> \in unread
    /\ \A name \in IndexNames :
         /\ txn[name] = db[name]
         /\ \A e \in source[name] :
              e \in collected[p][name] \/ <<Owner[name], e[2]>> \in unread

\* Index i is being written: those before it are complete, and the entries of it
\* and of those after it are in their table or still with the process.
Writing(p, i) ==
  /\ Filled
  /\ \A j \in DOMAIN Indexes :
       IF j < i THEN db[Indexes[j]] = source[Indexes[j]]
       ELSE source[Indexes[j]] \subseteq db[Indexes[j]] \cup collected[p][Indexes[j]]

WriterInv ==
  /\ \A p \in Expander, i \in DOMAIN Indexes : phase[p] = Indexes[i] => Writing(p, i)
  /\ \A p \in Expander : phase[p] \in {"leaving", "done"} => Filled /\ db = source

\* An index table exists when those before it are complete.
OrderInv ==
  \A i, j \in DOMAIN Indexes :
    /\ i < j /\ Indexes[j] \in tables => db[Indexes[i]] = source[Indexes[i]]
    /\ db[Indexes[j]] # {} => Indexes[j] \in tables

Inv ==
  /\ TypeOK /\ PartsInv /\ SortersInv /\ LockInv /\ TempDirExclusive
  /\ ReaderInv /\ WriterInv /\ OrderInv

----------------------------------------------------------------------------
(* The names.                                                              *)

\* The five index tables, in their order.
LEMMA IndexNamesAre ==
  /\ IndexNames = {"cell_node", "node_way", "node_relation", "way_relation",
                   "relation_relation"}
  /\ DOMAIN Indexes = 1..5 /\ Len(Indexes) = 5
  BY DEF IndexNames, Indexes

\* Every index has one place in the order of ~Handler.
LEMMA IndexPlaces ==
  /\ \A i \in DOMAIN Indexes : Indexes[i] \in IndexNames
  /\ \A name \in IndexNames : \E i \in DOMAIN Indexes : name = Indexes[i]
  /\ \A i, j \in DOMAIN Indexes : Indexes[i] = Indexes[j] => i = j
  BY DEF IndexNames, Indexes

\* The phases of the index writer are none of the others.
LEMMA PhasesDiffer ==
  /\ IndexNames \cap {"idle", "opened", "reading", "leaving", "done", "aborted"} = {}
  /\ IndexNames \cap ElementTables = {}
  BY IndexNamesAre DEF ElementTables

\* Two databases with the same tables are the same.
LEMMA DatabasesEqual ==
  ASSUME NEW d \in Database, NEW e \in Database,
         \A name \in ElementTables \cup IndexNames : d[name] = e[name]
  PROVE  d = e
  BY IndexNamesAre DEF Database, ElementTables

----------------------------------------------------------------------------
(* The file and its entries.                                               *)

\* The empty database is a part of every file.
LEMMA EmptyFacts ==
  /\ EmptyDatabase \in Database
  /\ DOMAIN EmptyDatabase.locations = {} /\ EmptyDatabase.nodes = {}
  /\ DOMAIN EmptyDatabase.ways = {} /\ DOMAIN EmptyDatabase.relations = {}
  /\ \A name \in IndexNames : EmptyDatabase[name] = {}
<1>1. /\ EmptyTable \in Table(Node, Loc)
      /\ EmptyTable \in Table(Way, SUBSET Node)
      /\ EmptyTable \in Table(Relation, RelationRow)
  <2>1. \A V : EmptyTable \in [{} -> V]
    BY DEF EmptyTable
  <2> QED
    BY <2>1 DEF Table
<1>2. IsExpanded(EmptyDatabase)
  BY <1>1 DEF IsExpanded, EmptyDatabase
<1>3. \A refs : DOMAIN refs = {} => Backrefs(refs) = {}
  BY DEF Backrefs
<1> QED
  BY <1>2, <1>3, ExpandedIsWellIndexed, IndexNamesAre
     DEF EmptyDatabase, Expanded, EmptyTable

\* The entries of the indexes of the file, pair by pair.
LEMMA SourceEntries ==
  ASSUME NEW s \in Source
  PROVE  /\ \A x, o : <<x, o>> \in s.cell_node
               <=> o \in DOMAIN s.locations /\ x = CellOf[s.locations[o]]
         /\ \A x, o : <<x, o>> \in s.node_way <=> o \in DOMAIN s.ways /\ x \in s.ways[o]
         /\ \A x, o : <<x, o>> \in s.node_relation
               <=> o \in DOMAIN s.relations /\ x \in s.relations[o].node
         /\ \A x, o : <<x, o>> \in s.way_relation
               <=> o \in DOMAIN s.relations /\ x \in s.relations[o].way
         /\ \A x, o : <<x, o>> \in s.relation_relation
               <=> o \in DOMAIN s.relations /\ x \in s.relations[o].relation
         /\ \A name \in IndexNames : \A e \in s[name] : e = <<e[1], e[2]>>
<1>1. s = Expanded(s.locations, s.nodes, s.ways, s.relations, s.metadata)
  BY SourceAssumption
<1>2. /\ s.cell_node = Backrefs([n \in DOMAIN s.locations |-> {CellOf[s.locations[n]]}])
      /\ s.node_way = Backrefs(s.ways)
      /\ s.node_relation = Backrefs([r \in DOMAIN s.relations |-> s.relations[r].node])
      /\ s.way_relation = Backrefs([r \in DOMAIN s.relations |-> s.relations[r].way])
      /\ s.relation_relation
           = Backrefs([r \in DOMAIN s.relations |-> s.relations[r].relation])
  BY <1>1 DEF Expanded
<1>3. \A name \in IndexNames : \A e \in s[name] : e = <<e[1], e[2]>>
  BY <1>2, BackrefsPairs, IndexNamesAre
<1>4. ASSUME NEW refs, NEW index, index = Backrefs(refs)
      PROVE  \A x, o : <<x, o>> \in index <=> o \in DOMAIN refs /\ x \in refs[o]
  BY <1>4, BackrefsPair
<1>5. \A x, o : <<x, o>> \in s.node_way <=> o \in DOMAIN s.ways /\ x \in s.ways[o]
  BY <1>2, <1>4
<1>6. \A x, o : <<x, o>> \in s.cell_node
        <=> o \in DOMAIN s.locations /\ x = CellOf[s.locations[o]]
  <2> DEFINE refs == [n \in DOMAIN s.locations |-> {CellOf[s.locations[n]]}]
  <2>1. s.cell_node = Backrefs(refs)
    BY <1>2
  <2>2. \A x, o : <<x, o>> \in s.cell_node <=> o \in DOMAIN refs /\ x \in refs[o]
    <3> HIDE DEF refs
    <3> QED  BY <2>1, <1>4
  <2> QED
    BY <2>2
<1>7. \A x, o : <<x, o>> \in s.node_relation
        <=> o \in DOMAIN s.relations /\ x \in s.relations[o].node
  <2> DEFINE refs == [r \in DOMAIN s.relations |-> s.relations[r].node]
  <2>1. s.node_relation = Backrefs(refs)
    BY <1>2
  <2>2. \A x, o : <<x, o>> \in s.node_relation <=> o \in DOMAIN refs /\ x \in refs[o]
    <3> HIDE DEF refs
    <3> QED  BY <2>1, <1>4
  <2> QED
    BY <2>2
<1>8. \A x, o : <<x, o>> \in s.way_relation
        <=> o \in DOMAIN s.relations /\ x \in s.relations[o].way
  <2> DEFINE refs == [r \in DOMAIN s.relations |-> s.relations[r].way]
  <2>1. s.way_relation = Backrefs(refs)
    BY <1>2
  <2>2. \A x, o : <<x, o>> \in s.way_relation <=> o \in DOMAIN refs /\ x \in refs[o]
    <3> HIDE DEF refs
    <3> QED  BY <2>1, <1>4
  <2> QED
    BY <2>2
<1>9. \A x, o : <<x, o>> \in s.relation_relation
        <=> o \in DOMAIN s.relations /\ x \in s.relations[o].relation
  <2> DEFINE refs == [r \in DOMAIN s.relations |-> s.relations[r].relation]
  <2>1. s.relation_relation = Backrefs(refs)
    BY <1>2
  <2>2. \A x, o : <<x, o>> \in s.relation_relation <=> o \in DOMAIN refs /\ x \in refs[o]
    <3> HIDE DEF refs
    <3> QED  BY <2>1, <1>4
  <2> QED
    BY <2>2
<1> QED
  BY <1>3, <1>5, <1>6, <1>7, <1>8, <1>9

\* Every entry of the file belongs to an element of the file.
LEMMA EntriesHaveElements ==
  ASSUME source \in Source, NEW name \in IndexNames, NEW e \in source[name]
  PROVE  <<Owner[name], e[2]>> \in Elements
<1>1. e = <<e[1], e[2]>>
  BY SourceEntries
<1>2. CASE name = "cell_node"
  BY <1>1, <1>2, SourceEntries DEF Owner, Elements
<1>3. CASE name = "node_way"
  BY <1>1, <1>3, SourceEntries DEF Owner, Elements
<1>4. CASE name \in {"node_relation", "way_relation", "relation_relation"}
  BY <1>1, <1>4, SourceEntries DEF Owner, Elements
<1> QED
  BY <1>2, <1>3, <1>4, IndexNamesAre

----------------------------------------------------------------------------
(* Every action keeps the invariant.                                       *)

\* It holds of every file before the first process.
LEMMA InvInit == Init => Inv
<1> SUFFICES ASSUME Init PROVE Inv
  OBVIOUS
<1> USE DEF Init
<1>1. \A p \in Expander : phase[p] = "idle" /\ collected[p] = NoEntries
  OBVIOUS
<1>2. \A name \in IndexNames : NoEntries[name] = {}
  BY DEF NoEntries
<1>3. Part(db) /\ Part(txn)
  BY EmptyFacts DEF Part, PartOf
<1>4. TypeOK
  BY <1>1, <1>2, EmptyFacts DEF TypeOK
<1>5. PartsInv
  BY <1>3 DEF PartsInv
<1>6. SortersInv
  BY <1>1 DEF SortersInv, NoEntries
<1>7. LockInv /\ TempDirExclusive
  BY <1>1, PhasesDiffer DEF LockInv, TempDirExclusive, Inside
<1>8. ReaderInv
  BY <1>1 DEF ReaderInv
<1>9. WriterInv
  BY <1>1, PhasesDiffer, IndexPlaces DEF WriterInv
<1>10. OrderInv
  BY EmptyFacts, IndexPlaces DEF OrderInv
<1> QED
  BY <1>4, <1>5, <1>6, <1>7, <1>8, <1>9, <1>10 DEF Inv

\* A process opens the transaction of the elements.
LEMMA InvBegin == ASSUME Inv, NEW p \in Expander, Begin(p) PROVE Inv'
<1> USE DEF Inv, Begin, Move, Lock
<1>1. /\ phase' = [phase EXCEPT ![p] = "opened"] /\ phase[p] = "idle"
      /\ phase'[p] = "opened" /\ \A q \in Expander \ {p} : phase'[q] = phase[q]
  BY DEF TypeOK
<1>2. source \in Source /\ source \in Database /\ db \in Database
  BY SourceAssumption DEF TypeOK
<1>3. /\ txn' \in Database
      /\ \A name \in IndexNames : txn'[name] = db[name]
      /\ txn'.locations = db.locations /\ txn'.nodes = db.nodes
      /\ txn'.ways = db.ways /\ txn'.relations = db.relations
      /\ txn'.metadata = source.metadata
  BY <1>2, IndexNamesAre DEF Database
<1>4. Elements' = Elements
  BY DEF Elements
<1>5. TypeOK'
  BY <1>1, <1>3, <1>4 DEF TypeOK
<1>6. PartsInv'
  BY <1>3 DEF PartsInv, Part, Filled
<1>7. SortersInv'
  BY DEF SortersInv
<1>8. LockInv'
  BY <1>1 DEF LockInv
<1>9. TempDirExclusive'
  BY <1>1, PhasesDiffer DEF TempDirExclusive, Inside
<1>10. ReaderInv'
  <2>1. \A q \in Expander : phase'[q] \in {"opened", "reading"} => q = p
    BY <1>1 DEF LockInv
  <2>2. \A name \in IndexNames : \A e \in source[name] : <<Owner[name], e[2]>> \in unread'
    BY <1>2, EntriesHaveElements
  <2>3. /\ \A id \in DOMAIN source.locations : <<"node", id>> \in unread'
        /\ \A id \in DOMAIN source.ways : <<"way", id>> \in unread'
        /\ \A id \in DOMAIN source.relations : <<"relation", id>> \in unread'
    BY DEF Elements
  <2> QED
    BY <1>3, <2>1, <2>2, <2>3 DEF ReaderInv
<1>11. WriterInv'
  BY <1>1, IndexPlaces, PhasesDiffer DEF WriterInv, Writing, Filled
<1>12. OrderInv'
  BY DEF OrderInv
<1> QED
  BY <1>5, <1>6, <1>7, <1>8, <1>9, <1>10, <1>11, <1>12

\* A process makes the temporary directory.
LEMMA InvMakeTempDir == ASSUME Inv, NEW p \in Expander, MakeTempDir(p) PROVE Inv'
<1> USE DEF Inv, MakeTempDir, Move, lmdb, reading
<1>1. /\ phase' = [phase EXCEPT ![p] = "reading"] /\ phase[p] = "opened"
      /\ phase'[p] = "reading" /\ \A q \in Expander \ {p} : phase'[q] = phase[q]
  BY DEF TypeOK
<1>2. TypeOK'
  BY <1>1 DEF TypeOK, Elements
<1>3. PartsInv' /\ SortersInv' /\ OrderInv'
  BY DEF PartsInv, Part, Filled, SortersInv, OrderInv
<1>4. LockInv'
  BY <1>1 DEF LockInv
<1>5. TempDirExclusive'
  BY <1>1 DEF TempDirExclusive, Inside
<1>6. ReaderInv'
  BY <1>1 DEF ReaderInv
<1>7. WriterInv'
  BY <1>1, IndexPlaces, PhasesDiffer DEF WriterInv, Writing, Filled
<1> QED
  BY <1>2, <1>3, <1>4, <1>5, <1>6, <1>7

\* What the sorters of p hold after new entries; those of others keep theirs.
LEMMA SortAdds ==
  ASSUME SortersInv, NEW p \in Expander, NEW new, Sort(p, new)
  PROVE  /\ SortersInv'
         /\ \A name \in IndexNames : collected'[p][name] = collected[p][name] \cup new[name]
         /\ \A q \in Expander \ {p} : collected'[q] = collected[q]
  BY DEF SortersInv, Sort

\* An element that is read goes into the transaction with its row and into the
\* sorters with its entries, and no others.
LEMMA InvRead ==
  ASSUME Inv, NEW p \in Expander, NEW type, NEW id, NEW new,
         Read(p, type, id), Sort(p, new), txn' \in Database, Part(txn)',
         txn'.metadata = txn.metadata,
         DOMAIN txn.locations \subseteq DOMAIN txn'.locations,
         DOMAIN txn.ways \subseteq DOMAIN txn'.ways,
         DOMAIN txn.relations \subseteq DOMAIN txn'.relations,
         type = "node" => id \in DOMAIN txn'.locations,
         type = "way" => id \in DOMAIN txn'.ways,
         type = "relation" => id \in DOMAIN txn'.relations,
         \A name \in IndexNames :
           /\ txn'[name] = txn[name]
           /\ new[name] \subseteq source[name]
           /\ \A e \in source[name] : Owner[name] = type /\ e[2] = id => e \in new[name]
  PROVE  Inv'
<1> USE DEF Inv, Read, lmdb
<1>1. phase[p] = "reading"
  OBVIOUS
<1>2. /\ SortersInv'
      /\ \A name \in IndexNames : collected'[p][name] = collected[p][name] \cup new[name]
      /\ \A q \in Expander \ {p} : collected'[q] = collected[q]
  BY SortAdds
<1>3. TypeOK'
  BY <1>2 DEF TypeOK, Elements
<1>4. PartsInv'
  BY DEF PartsInv, Part, Filled
<1>5. LockInv' /\ TempDirExclusive'
  BY DEF LockInv, TempDirExclusive, Inside
<1>6. ReaderInv'
  <2>1. \A q \in Expander : phase'[q] \in {"opened", "reading"} => q = p
    BY <1>1 DEF LockInv
  <2>2. \A other : other \in unread => other \in unread' \/ other = <<type, id>>
    OBVIOUS
  <2>3. ASSUME NEW name \in IndexNames, NEW e \in source[name]
        PROVE  e \in collected'[p][name] \/ <<Owner[name], e[2]>> \in unread'
    BY <1>1, <1>2, <2>2, <2>3 DEF ReaderInv
  <2> QED
    BY <1>1, <2>1, <2>2, <2>3 DEF ReaderInv
<1>7. WriterInv'
  BY <1>1, <1>2, IndexPlaces, PhasesDiffer DEF WriterInv, Writing, Filled
<1>8. OrderInv'
  BY DEF OrderInv
<1> QED
  BY <1>2, <1>3, <1>4, <1>5, <1>6, <1>7, <1>8

\* A table that holds a part of the file's still does with one more row of it.
LEMMA PutPart ==
  ASSUME NEW table, NEW whole, PartOf(table, whole), NEW id \in DOMAIN whole
  PROVE  /\ PartOf(Put(table, id, whole[id]), whole)
         /\ DOMAIN Put(table, id, whole[id]) = DOMAIN table \cup {id}
  BY DEF PartOf, Put

\* The callback of a node.
LEMMA InvReadNode ==
  ASSUME Inv, NEW p \in Expander, NEW id \in Node, ReadNode(p, id)
  PROVE  Inv'
<1> DEFINE loc == source.locations[id]
           new == [NoEntries EXCEPT !["cell_node"] = {<<CellOf[loc], id>>}]
<1>1. /\ Read(p, "node", id) /\ Sort(p, new)
      /\ txn' = [txn EXCEPT !.locations = Put(@, id, loc),
                            !.nodes = @ \cup ({id} \cap source.nodes)]
      /\ source' = source /\ db' = db
  BY DEF ReadNode, Read, lmdb
<1>2. id \in DOMAIN source.locations
  BY <1>1 DEF Read, Inv, TypeOK, Elements
<1>3. source \in Source /\ source \in Database /\ txn \in Database /\ Part(txn)
  BY SourceAssumption DEF Inv, TypeOK, PartsInv
<1>4. loc \in Loc
  BY <1>2, <1>3, RowOfTable DEF Database
<1>5. Put(txn.locations, id, loc) \in Table(Node, Loc)
  BY <1>3, <1>4, PutTable DEF Database
<1>6. /\ PartOf(Put(txn.locations, id, loc), source.locations)
      /\ DOMAIN Put(txn.locations, id, loc) = DOMAIN txn.locations \cup {id}
  BY <1>2, <1>3, PutPart DEF Part
<1>7. /\ txn' \in Database
      /\ txn'.metadata = txn.metadata /\ txn'.ways = txn.ways
      /\ txn'.relations = txn.relations
      /\ txn'.locations = Put(txn.locations, id, loc)
      /\ txn'.nodes = txn.nodes \cup ({id} \cap source.nodes)
      /\ \A name \in IndexNames : txn'[name] = txn[name]
  BY <1>1, <1>3, <1>5, IndexNamesAre DEF Database
<1>8. Part(txn)'
  BY <1>1, <1>3, <1>6, <1>7 DEF Part
<1>9. /\ new["cell_node"] = {<<CellOf[loc], id>>}
      /\ \A name \in IndexNames \ {"cell_node"} : new[name] = {}
  BY IndexNamesAre DEF NoEntries
<1>10. \A name \in IndexNames :
         /\ new[name] \subseteq source[name]
         /\ \A e \in source[name] : Owner[name] = "node" /\ e[2] = id => e \in new[name]
  <2>1. CellOf[loc] = CellOf[source.locations[id]]
    OBVIOUS
  <2> HIDE DEF new, loc
  <2>2. new["cell_node"] \subseteq source["cell_node"]
    BY <1>2, <1>3, <1>9, <2>1, SourceEntries
  <2>3. \A e \in source["cell_node"] : e[2] = id => e \in new["cell_node"]
    <3> SUFFICES ASSUME NEW e \in source["cell_node"], e[2] = id
                 PROVE  e = <<CellOf[loc], id>>
      BY <1>9
    <3>1. e = <<e[1], id>>
      BY <1>3, SourceEntries, IndexNamesAre
    <3> QED
      BY <1>3, <2>1, <3>1, SourceEntries
  <2> QED
    BY <1>9, <2>2, <2>3, IndexNamesAre DEF Owner
<1> HIDE DEF new, loc
<1> QED
  BY <1>1, <1>6, <1>7, <1>8, <1>10, InvRead

\* The callback of a way.
LEMMA InvReadWay ==
  ASSUME Inv, NEW p \in Expander, NEW id \in Way, ReadWay(p, id)
  PROVE  Inv'
<1> DEFINE nodes == source.ways[id]
           new == [NoEntries EXCEPT !["node_way"] = nodes \X {id}]
<1>1. /\ Read(p, "way", id) /\ Sort(p, new)
      /\ txn' = [txn EXCEPT !.ways = Put(@, id, nodes)]
      /\ source' = source /\ db' = db
  BY DEF ReadWay, Read, lmdb
<1>2. id \in DOMAIN source.ways
  BY <1>1 DEF Read, Inv, TypeOK, Elements
<1>3. source \in Source /\ source \in Database /\ txn \in Database /\ Part(txn)
  BY SourceAssumption DEF Inv, TypeOK, PartsInv
<1>4. nodes \in SUBSET Node
  BY <1>2, <1>3, RowOfTable DEF Database
<1>5. Put(txn.ways, id, nodes) \in Table(Way, SUBSET Node)
  BY <1>3, <1>4, PutTable DEF Database
<1>6. /\ PartOf(Put(txn.ways, id, nodes), source.ways)
      /\ DOMAIN Put(txn.ways, id, nodes) = DOMAIN txn.ways \cup {id}
  BY <1>2, <1>3, PutPart DEF Part
<1>7. /\ txn' \in Database
      /\ txn'.metadata = txn.metadata /\ txn'.locations = txn.locations
      /\ txn'.nodes = txn.nodes /\ txn'.relations = txn.relations
      /\ txn'.ways = Put(txn.ways, id, nodes)
      /\ \A name \in IndexNames : txn'[name] = txn[name]
  BY <1>1, <1>3, <1>5, IndexNamesAre DEF Database
<1>8. Part(txn)'
  BY <1>1, <1>3, <1>6, <1>7 DEF Part
<1>9. /\ new["node_way"] = nodes \X {id}
      /\ \A name \in IndexNames \ {"node_way"} : new[name] = {}
  BY IndexNamesAre DEF NoEntries
<1>10. \A name \in IndexNames :
         /\ new[name] \subseteq source[name]
         /\ \A e \in source[name] : Owner[name] = "way" /\ e[2] = id => e \in new[name]
  <2>1. nodes = source.ways[id]
    OBVIOUS
  <2> HIDE DEF new, nodes
  <2>2. new["node_way"] \subseteq source["node_way"]
    BY <1>2, <1>3, <1>9, <2>1, SourceEntries
  <2>3. \A e \in source["node_way"] : e[2] = id => e \in new["node_way"]
    <3> SUFFICES ASSUME NEW e \in source["node_way"], e[2] = id
                 PROVE  e \in nodes \X {id}
      BY <1>9
    <3>1. e = <<e[1], id>>
      BY <1>3, SourceEntries, IndexNamesAre
    <3> QED
      BY <1>3, <2>1, <3>1, SourceEntries
  <2> QED
    BY <1>9, <2>2, <2>3, IndexNamesAre DEF Owner
<1> HIDE DEF new, nodes
<1> QED
  BY <1>1, <1>6, <1>7, <1>8, <1>10, InvRead

\* The callback of a relation.
LEMMA InvReadRelation ==
  ASSUME Inv, NEW p \in Expander, NEW id \in Relation, ReadRelation(p, id)
  PROVE  Inv'
<1> DEFINE row == source.relations[id]
           new == [NoEntries EXCEPT !["node_relation"] = row.node \X {id},
                                    !["way_relation"] = row.way \X {id},
                                    !["relation_relation"] = row.relation \X {id}]
<1>1. /\ Read(p, "relation", id) /\ Sort(p, new)
      /\ txn' = [txn EXCEPT !.relations = Put(@, id, row)]
      /\ source' = source /\ db' = db
  BY DEF ReadRelation, Read, lmdb
<1>2. id \in DOMAIN source.relations
  BY <1>1 DEF Read, Inv, TypeOK, Elements
<1>3. source \in Source /\ source \in Database /\ txn \in Database /\ Part(txn)
  BY SourceAssumption DEF Inv, TypeOK, PartsInv
<1>4. row \in RelationRow
  BY <1>2, <1>3, RowOfTable DEF Database
<1>5. Put(txn.relations, id, row) \in Table(Relation, RelationRow)
  BY <1>3, <1>4, PutTable DEF Database
<1>6. /\ PartOf(Put(txn.relations, id, row), source.relations)
      /\ DOMAIN Put(txn.relations, id, row) = DOMAIN txn.relations \cup {id}
  BY <1>2, <1>3, PutPart DEF Part
<1>7. /\ txn' \in Database
      /\ txn'.metadata = txn.metadata /\ txn'.locations = txn.locations
      /\ txn'.nodes = txn.nodes /\ txn'.ways = txn.ways
      /\ txn'.relations = Put(txn.relations, id, row)
      /\ \A name \in IndexNames : txn'[name] = txn[name]
  BY <1>1, <1>3, <1>5, IndexNamesAre DEF Database
<1>8. Part(txn)'
  BY <1>1, <1>3, <1>6, <1>7 DEF Part
<1>9. /\ new["node_relation"] = row.node \X {id}
      /\ new["way_relation"] = row.way \X {id}
      /\ new["relation_relation"] = row.relation \X {id}
      /\ new["cell_node"] = {} /\ new["node_way"] = {}
  BY IndexNamesAre DEF NoEntries
<1>10. \A name \in IndexNames :
         /\ new[name] \subseteq source[name]
         /\ \A e \in source[name] : Owner[name] = "relation" /\ e[2] = id => e \in new[name]
  <2>1. row = source.relations[id]
    OBVIOUS
  <2> HIDE DEF new, row
  <2>2. /\ new["node_relation"] \subseteq source["node_relation"]
        /\ new["way_relation"] \subseteq source["way_relation"]
        /\ new["relation_relation"] \subseteq source["relation_relation"]
    BY <1>2, <1>3, <1>9, <2>1, SourceEntries
  <2>3. ASSUME NEW name \in {"node_relation", "way_relation", "relation_relation"},
               NEW e \in source[name], e[2] = id
        PROVE  e \in new[name]
    <3>1. e = <<e[1], id>>
      BY <1>3, <2>3, SourceEntries, IndexNamesAre
    <3> QED
      BY <1>3, <1>9, <2>1, <2>3, <3>1, SourceEntries
  <2> QED
    BY <1>9, <2>2, <2>3, IndexNamesAre DEF Owner
<1> HIDE DEF new, row
<1> QED
  BY <1>1, <1>6, <1>7, <1>8, <1>10, InvRead

\* The elements of the file are committed, all of them.
LEMMA InvCommitElements ==
  ASSUME Inv, NEW p \in Expander, CommitElements(p)
  PROVE  Inv'
<1> USE DEF Inv, CommitElements, Move
<1>1. /\ phase[p] = "reading" /\ phase'[p] = Indexes[1]
      /\ \A q \in Expander \ {p} : phase'[q] = phase[q]
      /\ phase' \in [Expander -> IndexNames \cup Ending
                                   \cup {"idle", "opened", "reading", "leaving"}]
  BY IndexPlaces, IndexNamesAre DEF TypeOK
<1>2. source \in Source /\ source \in Database /\ db \in Database /\ txn \in Database
  BY SourceAssumption DEF TypeOK
<1>3. p \in writer /\ \A q \in Expander : phase[q] \in {"opened", "reading"} => q = p
  BY <1>1 DEF LockInv
<1>4. /\ txn.metadata = source.metadata
      /\ \A name \in IndexNames :
           txn[name] = db[name] /\ \A e \in source[name] : e \in collected[p][name]
  BY <1>1 DEF ReaderInv
<1>5. /\ DOMAIN source.locations \subseteq DOMAIN txn.locations
      /\ DOMAIN source.ways \subseteq DOMAIN txn.ways
      /\ DOMAIN source.relations \subseteq DOMAIN txn.relations
  BY <1>1 DEF ReaderInv
<1>6. ASSUME NEW K, NEW V, NEW table \in Table(K, V), NEW whole \in Table(K, V),
             PartOf(table, whole), DOMAIN whole \subseteq DOMAIN table
      PROVE  table = whole
  <2>1. PICK ids \in SUBSET K : table \in [ids -> V]
    BY <1>6 DEF Table
  <2>2. PICK all \in SUBSET K : whole \in [all -> V]
    BY <1>6 DEF Table
  <2> QED
    BY <1>6, <2>1, <2>2 DEF PartOf
<1>7. Part(txn)
  BY DEF PartsInv
<1>8. txn.locations = source.locations
  BY <1>2, <1>5, <1>6, <1>7 DEF Part, Database
<1>9. txn.ways = source.ways
  BY <1>2, <1>5, <1>6, <1>7 DEF Part, Database
<1>10. txn.relations = source.relations
  BY <1>2, <1>5, <1>6, <1>7 DEF Part, Database
<1>11. txn.nodes = source.nodes
  BY <1>2, <1>7, <1>8, SourceAssumption DEF Part, TaggedAreLocated
<1>12. /\ Filled' /\ \A name \in IndexNames : db'[name] = db[name]
       /\ \A name \in IndexNames : name \in tables' <=> name \in tables
  BY <1>4, <1>8, <1>9, <1>10, <1>11, PhasesDiffer DEF Filled, ElementTables
<1>13. TypeOK'
  BY <1>1, <1>2, EmptyFacts DEF TypeOK
<1>14. PartsInv'
  BY <1>7, <1>12, EmptyFacts DEF PartsInv, Part, PartOf
<1>15. SortersInv'
  BY DEF SortersInv
<1>16. LockInv'
  BY <1>1, <1>3, IndexPlaces, IndexNamesAre, PhasesDiffer DEF LockInv
<1>17. TempDirExclusive'
  BY <1>1, IndexPlaces, IndexNamesAre DEF TempDirExclusive, Inside
<1>18. ReaderInv'
  BY <1>1, <1>3, IndexPlaces, IndexNamesAre, PhasesDiffer DEF ReaderInv
<1>19. WriterInv'
  <2>1. ASSUME NEW q \in Expander, NEW i \in DOMAIN Indexes, phase'[q] = Indexes[i]
        PROVE  Writing(q, i)'
    <3>1. CASE q = p
      <4>1. i = 1
        BY <1>1, <2>1, <3>1, IndexPlaces, IndexNamesAre
      <4>2. \A j \in DOMAIN Indexes : ~(j < 1)
        BY IndexNamesAre
      <4> QED
        BY <1>4, <1>12, <3>1, <4>1, <4>2, IndexPlaces DEF Writing
    <3>2. CASE q # p
      <4>1. Writing(q, i)
        BY <1>1, <2>1, <3>2 DEF WriterInv
      <4> QED
        BY <1>12, <4>1, IndexPlaces DEF Writing
    <3> QED
      BY <3>1, <3>2
  <2>2. ASSUME NEW q \in Expander, phase'[q] \in {"leaving", "done"}
        PROVE  Filled' /\ db' = source'
    <3>1. q # p
      BY <1>1, <2>2, IndexPlaces, IndexNamesAre, PhasesDiffer
    <3>2. db = source
      BY <1>1, <2>2, <3>1 DEF WriterInv
    <3>3. \A name \in ElementTables \cup IndexNames : db'[name] = source[name]
      BY <1>12, <3>2 DEF Filled
    <3> QED
      BY <1>2, <1>12, <3>3, DatabasesEqual
  <2> QED
    BY <2>1, <2>2 DEF WriterInv
<1>20. OrderInv'
  BY <1>12, IndexPlaces DEF OrderInv
<1> QED
  BY <1>13, <1>14, <1>15, <1>16, <1>17, <1>18, <1>19, <1>20

\* The index writer begins a transaction.
LEMMA InvBeginIndex == ASSUME Inv, NEW p \in Expander, BeginIndex(p) PROVE Inv'
<1> USE DEF Inv, BeginIndex, Lock, reading
<1>1. TypeOK'
  BY DEF TypeOK, Elements
<1>2. PartsInv' /\ SortersInv' /\ OrderInv' /\ TempDirExclusive'
  BY DEF PartsInv, Part, Filled, SortersInv, OrderInv, TempDirExclusive, Inside
<1>3. LockInv'
  BY PhasesDiffer DEF LockInv
<1>4. ReaderInv'
  BY DEF ReaderInv
<1>5. WriterInv'
  BY DEF WriterInv, Writing, Filled
<1> QED
  BY <1>1, <1>2, <1>3, <1>4, <1>5

\* A batch of entries goes from a sorter of p into its table.  Either the index
\* is not at its end, or the batch is all that is left of it.
LEMMA InvWrite ==
  ASSUME Inv, NEW p \in Expander, NEW i \in DOMAIN Indexes, phase[p] = Indexes[i],
         NEW batch \in SUBSET collected[p][Indexes[i]], WriteBatch(p, batch),
         NEW next \in IndexNames \cup {"leaving"}, phase' = [phase EXCEPT ![p] = next],
         \/ next = Indexes[i]
         \/ /\ batch = collected[p][Indexes[i]]
            /\ next = IF i = 5 THEN "leaving" ELSE Indexes[i + 1]
  PROVE  Inv'
<1> DEFINE name == Indexes[i]
<1> USE DEF Inv, reading
<1>1. /\ name \in IndexNames /\ phase[p] = name /\ phase'[p] = next
      /\ \A q \in Expander \ {p} : phase'[q] = phase[q]
      /\ phase' \in [Expander -> IndexNames \cup Ending
                                   \cup {"idle", "opened", "reading", "leaving"}]
  BY IndexPlaces DEF TypeOK
<1>2. source \in Source /\ source \in Database /\ db \in Database
  BY SourceAssumption DEF TypeOK
<1>3. /\ p \in writer /\ writer' = {} /\ tempdir' = tempdir
      /\ source' = source /\ txn' = txn /\ unread' = unread
      /\ tables' = tables \cup {name}
      /\ db' = [db EXCEPT ![name] = @ \cup batch]
      /\ collected' = [collected EXCEPT ![p][name] = @ \ batch]
  BY <1>1 DEF WriteBatch
<1>4. \A q \in Expander : phase[q] \notin {"opened", "reading"}
  BY <1>1, <1>3, PhasesDiffer DEF LockInv
<1>5. batch \subseteq source[name]
  BY <1>1 DEF TypeOK
<1>6. Writing(p, i)
  BY DEF WriterInv
<1> HIDE DEF name
<1>7. /\ db' \in Database
      /\ db'[name] = db[name] \cup batch
      /\ \A other \in (ElementTables \cup IndexNames) \ {name} : db'[other] = db[other]
  <2>1. db[name] \cup batch \in SUBSET source[name]
    BY <1>1, <1>5 DEF PartsInv, Part
  <2> QED
    BY <1>1, <1>2, <1>3, <2>1, IndexNamesAre DEF Database, ElementTables
<1>8. /\ SortersInv'
      /\ collected'[p][name] = collected[p][name] \ batch
      /\ \A other \in IndexNames \ {name} : collected'[p][other] = collected[p][other]
      /\ \A q \in Expander \ {p} : collected'[q] = collected[q]
  BY <1>1, <1>3 DEF SortersInv
<1>9. Filled'
  BY <1>1, <1>3, <1>6, <1>7, PhasesDiffer DEF Writing, Filled
<1>10. TypeOK'
  <2>1. \A q \in Expander : \A other \in IndexNames :
          collected'[q][other] \subseteq collected[q][other]
    BY <1>8
  <2> QED
    BY <1>1, <1>3, <1>7, <2>1 DEF TypeOK, Elements
<1>11. PartsInv'
  <2>1. /\ db'.locations = db.locations /\ db'.nodes = db.nodes
        /\ db'.ways = db.ways /\ db'.relations = db.relations
    BY <1>1, <1>7, PhasesDiffer DEF ElementTables
  <2>2. \A other \in IndexNames : db'[other] \subseteq source[other]
    BY <1>5, <1>7 DEF PartsInv, Part
  <2> QED
    BY <1>3, <1>9, <2>1, <2>2 DEF PartsInv, Part
<1>12. LockInv'
  BY <1>1, <1>3, <1>4, PhasesDiffer DEF LockInv
<1>13. TempDirExclusive'
  BY <1>1, <1>3 DEF TempDirExclusive, Inside
<1>14. ReaderInv'
  BY <1>1, <1>4, PhasesDiffer DEF ReaderInv
<1>15. \A other \in IndexNames : db[other] = source[other] => db'[other] = source[other]
  BY <1>5, <1>7
<1>16. WriterInv'
  <2>1. ASSUME NEW q \in Expander \ {p}, NEW k \in DOMAIN Indexes, phase'[q] = Indexes[k]
        PROVE  Writing(q, k)'
    <3>1. Writing(q, k)
      BY <1>1, <2>1 DEF WriterInv
    <3>2. \A other \in IndexNames : db[other] \subseteq db'[other]
      BY <1>7
    <3> QED
      BY <1>3, <1>8, <1>9, <1>15, <2>1, <3>1, <3>2, IndexPlaces DEF Writing
  <2>2. ASSUME NEW q \in Expander \ {p}, phase'[q] \in {"leaving", "done"}
        PROVE  db' = source
    <3>1. db = source
      BY <1>1, <2>2 DEF WriterInv
    <3>2. \A other \in ElementTables \cup IndexNames : db'[other] = source[other]
      BY <1>5, <1>7, <3>1
    <3> QED
      BY <1>2, <1>7, <3>2, DatabasesEqual
  <2>3. \A other \in IndexNames :
          source[other] \subseteq db[other] \cup collected[p][other]
            => source[other] \subseteq db'[other] \cup collected'[p][other]
    BY <1>7, <1>8
  <2>4. CASE next = Indexes[i]
    <3>1. Writing(p, i)'
      BY <1>3, <1>6, <1>9, <1>15, <2>3, IndexPlaces DEF Writing
    <3>2. next \notin {"leaving", "done"}
      BY <2>4, IndexPlaces, PhasesDiffer
    <3> QED
      BY <1>1, <1>3, <1>9, <2>1, <2>2, <2>4, <3>1, <3>2, IndexPlaces DEF WriterInv
  <2>5. CASE /\ batch = collected[p][Indexes[i]]
             /\ next = IF i = 5 THEN "leaving" ELSE Indexes[i + 1]
    <3>1. db'[name] = source[name]
      <4>1. source[name] \subseteq db[name] \cup batch
        BY <1>6, <2>5 DEF Writing, name
      <4> QED
        BY <1>1, <1>5, <1>7, <4>1 DEF PartsInv, Part
    <3>2. \A j \in DOMAIN Indexes : j <= i => db'[Indexes[j]] = source[Indexes[j]]
      <4> SUFFICES ASSUME NEW j \in DOMAIN Indexes, j <= i
                   PROVE  db'[Indexes[j]] = source[Indexes[j]]
        OBVIOUS
      <4>1. CASE j = i
        BY <3>1, <4>1 DEF name
      <4>2. CASE j < i
        BY <1>6, <1>15, <4>2, IndexPlaces DEF Writing
      <4> QED
        BY <4>1, <4>2, IndexNamesAre
    <3>3. CASE i = 5
      <4>1. \A other \in IndexNames : db'[other] = source[other]
        BY <3>2, <3>3, IndexPlaces, IndexNamesAre
      <4>2. db' = source
        <5>1. \A other \in ElementTables \cup IndexNames : db'[other] = source[other]
          BY <1>3, <1>9, <4>1 DEF Filled
        <5> QED
          BY <1>2, <1>7, <5>1, DatabasesEqual
      <4>3. next = "leaving"
        BY <2>5, <3>3
      <4> QED
        BY <1>1, <1>3, <1>9, <2>1, <2>2, <4>2, <4>3, IndexPlaces, PhasesDiffer DEF WriterInv
    <3>4. CASE i # 5
      <4>1. i + 1 \in DOMAIN Indexes /\ next = Indexes[i + 1]
        BY <2>5, <3>4, IndexNamesAre
      <4>2. Writing(p, i + 1)'
        <5>1. \A j \in DOMAIN Indexes : (j < i + 1 <=> j <= i) /\ (~(j < i + 1) => ~(j < i))
          BY IndexNamesAre
        <5> QED
          BY <1>3, <1>6, <1>9, <2>3, <3>2, <5>1, IndexPlaces DEF Writing
      <4>3. next \notin {"leaving", "done"}
        BY <4>1, IndexPlaces, PhasesDiffer
      <4> QED
        BY <1>1, <1>3, <1>9, <2>1, <2>2, <4>1, <4>2, <4>3, IndexPlaces DEF WriterInv
    <3> QED
      BY <3>3, <3>4
  <2> QED
    BY <2>4, <2>5
<1>17. OrderInv'
  <2>1. \A j \in DOMAIN Indexes : j < i => db[Indexes[j]] = source[Indexes[j]]
    BY <1>6 DEF Writing
  <2>2. \A j \in DOMAIN Indexes : Indexes[j] \in tables' => Indexes[j] \in tables \/ j = i
    BY <1>3, IndexPlaces DEF name
  <2>3. \A j \in DOMAIN Indexes : db'[Indexes[j]] # {} => db[Indexes[j]] # {} \/ j = i
    BY <1>7, IndexPlaces DEF name
  <2>4. ASSUME NEW j \in DOMAIN Indexes, NEW k \in DOMAIN Indexes,
               j < k, Indexes[k] \in tables'
        PROVE  db'[Indexes[j]] = source[Indexes[j]]
    <3>1. db[Indexes[j]] = source[Indexes[j]]
      BY <2>1, <2>2, <2>4 DEF OrderInv
    <3> QED
      BY <1>15, <3>1, IndexPlaces
  <2>5. ASSUME NEW j \in DOMAIN Indexes, db'[Indexes[j]] # {}
        PROVE  Indexes[j] \in tables'
    BY <1>3, <2>3, <2>5 DEF OrderInv, name
  <2> QED
    BY <1>3, <2>4, <2>5 DEF OrderInv
<1> QED
  BY <1>8, <1>10, <1>11, <1>12, <1>13, <1>14, <1>16, <1>17

\* A full transaction of the index writer is committed.
LEMMA InvCommitBatch == ASSUME Inv, NEW p \in Expander, CommitBatch(p) PROVE Inv'
<1>1. PICK i \in DOMAIN Indexes : phase[p] = Indexes[i]
  BY IndexPlaces DEF CommitBatch
<1>2. PICK batch \in SUBSET collected[p][Indexes[i]] : WriteBatch(p, batch)
  BY <1>1 DEF CommitBatch
<1>3. phase' = [phase EXCEPT ![p] = Indexes[i]]
  BY <1>1 DEF CommitBatch, Inv, TypeOK
<1> QED
  BY <1>1, <1>2, <1>3, IndexPlaces, InvWrite

\* The last transaction of an index is committed.
LEMMA InvFinishIndex ==
  ASSUME Inv, NEW p \in Expander, NEW i \in DOMAIN Indexes, FinishIndex(p, i)
  PROVE  Inv'
<1> DEFINE next == IF i = 5 THEN "leaving" ELSE Indexes[i + 1]
<1>1. phase[p] = Indexes[i] /\ phase' = [phase EXCEPT ![p] = next]
  BY IndexNamesAre DEF FinishIndex, Move
<1>2. WriteBatch(p, collected[p][Indexes[i]])
  BY DEF FinishIndex
<1>3. next \in IndexNames \cup {"leaving"}
  BY IndexPlaces, IndexNamesAre
<1> QED
  BY <1>1, <1>2, <1>3, InvWrite

\* A process leaves and removes the directory.
LEMMA InvRemoveTempDir == ASSUME Inv, NEW p \in Expander, RemoveTempDir(p) PROVE Inv'
<1> USE DEF Inv, RemoveTempDir, Move, lmdb, reading
<1>1. /\ phase[p] = "leaving" /\ phase'[p] = "done"
      /\ \A q \in Expander \ {p} : phase'[q] = phase[q]
      /\ phase' \in [Expander -> IndexNames \cup Ending
                                   \cup {"idle", "opened", "reading", "leaving"}]
  BY DEF TypeOK, Ending
<1>2. TypeOK'
  BY <1>1 DEF TypeOK, Elements
<1>3. PartsInv' /\ SortersInv' /\ OrderInv'
  BY DEF PartsInv, Part, Filled, SortersInv, OrderInv
<1>4. LockInv' /\ ReaderInv'
  BY <1>1 DEF LockInv, ReaderInv
<1>5. TempDirExclusive'
  BY <1>1, PhasesDiffer DEF TempDirExclusive, Inside
<1>6. WriterInv'
  BY <1>1, IndexPlaces, PhasesDiffer DEF WriterInv, Writing, Filled
<1> QED
  BY <1>2, <1>3, <1>4, <1>5, <1>6

\* A process ends before its end: what it held is gone.
LEMMA InvCrash == ASSUME Inv, NEW p \in Expander, Crash(p) PROVE Inv'
<1> USE DEF Inv, Crash
<1>1. /\ phase'[p] = "aborted" /\ \A q \in Expander \ {p} : phase'[q] = phase[q]
      /\ phase' \in [Expander -> IndexNames \cup Ending
                                   \cup {"idle", "opened", "reading", "leaving"}]
  BY DEF TypeOK, Ending
<1>2. /\ SortersInv' /\ collected'[p] = NoEntries
      /\ \A name \in IndexNames : collected'[p][name] = {}
      /\ \A q \in Expander \ {p} : collected'[q] = collected[q]
  BY DEF SortersInv, NoEntries
<1>3. \/ txn' = EmptyDatabase /\ unread' = {} /\ phase[p] \in {"opened", "reading"}
      \/ txn' = txn /\ unread' = unread
  BY DEF reading
<1>4. TypeOK'
  BY <1>1, <1>2, <1>3, EmptyFacts DEF TypeOK, Elements
<1>5. PartsInv'
  <2>1. Part(EmptyDatabase)
    BY EmptyFacts DEF Part, PartOf
  <2> QED
    BY <1>3, <2>1 DEF PartsInv, Part, Filled
<1>6. LockInv'
  BY <1>1 DEF LockInv
<1>7. TempDirExclusive'
  BY <1>1, PhasesDiffer DEF TempDirExclusive, Inside
<1>8. ReaderInv'
  <2>1. ASSUME NEW q \in Expander, phase'[q] \in {"opened", "reading"}
        PROVE  q # p /\ phase[q] \in {"opened", "reading"} /\ txn' = txn /\ unread' = unread
    BY <1>1, <1>3, <2>1 DEF LockInv
  <2> QED
    BY <1>2, <2>1 DEF ReaderInv
<1>9. WriterInv'
  BY <1>1, <1>2, IndexPlaces, PhasesDiffer DEF WriterInv, Writing, Filled
<1>10. OrderInv'
  BY DEF OrderInv
<1> QED
  BY <1>2, <1>4, <1>5, <1>6, <1>7, <1>8, <1>9, <1>10

\* The user cleans up when no process runs.
LEMMA InvCleanUp == ASSUME Inv, CleanUp PROVE Inv'
<1> USE DEF Inv, CleanUp, Idle, reading
<1>1. /\ \A p \in Expander : phase[p] \in {"idle", "done", "aborted"}
      /\ phase' = phase /\ source' = source /\ collected' = collected
      /\ txn' = txn /\ unread' = unread /\ writer' = writer
  BY DEF Ending, lmdb
<1>2. \/ db' = db /\ tables' = tables
      \/ /\ db' = EmptyDatabase /\ tables' = {} /\ tempdir' = tempdir
         /\ \A p \in Expander : phase[p] # "done"
  BY DEF lmdb
<1>3. tempdir' \in BOOLEAN
  BY DEF TypeOK
<1>4. TypeOK'
  BY <1>1, <1>2, <1>3, EmptyFacts DEF TypeOK, Elements
<1>5. PartsInv'
  <2>1. Part(EmptyDatabase)
    BY EmptyFacts DEF Part, PartOf
  <2> QED
    BY <1>1, <1>2, <2>1 DEF PartsInv, Part, Filled
<1>6. SortersInv' /\ LockInv'
  BY <1>1 DEF SortersInv, LockInv
<1>7. TempDirExclusive'
  BY <1>1, PhasesDiffer DEF TempDirExclusive, Inside
<1>8. ReaderInv'
  BY <1>1 DEF ReaderInv
<1>9. WriterInv'
  BY <1>1, <1>2, IndexPlaces, PhasesDiffer DEF WriterInv, Filled
<1>10. OrderInv'
  BY <1>1, <1>2, EmptyFacts, IndexPlaces DEF OrderInv
<1> QED
  BY <1>4, <1>5, <1>6, <1>7, <1>8, <1>9, <1>10

\* Every step keeps the invariant.
LEMMA InvNext == Inv /\ [Next]_vars => Inv'
<1> SUFFICES ASSUME Inv, [Next]_vars PROVE Inv'
  OBVIOUS
<1>1. ASSUME NEW p \in Expander, Run(p) PROVE Inv'
  BY <1>1, InvBegin, InvMakeTempDir, InvReadNode, InvReadWay, InvReadRelation,
     InvCommitElements, InvBeginIndex, InvCommitBatch, InvFinishIndex,
     InvRemoveTempDir, InvCrash DEF Run
<1>2. CASE CleanUp
  BY <1>2, InvCleanUp
<1>3. CASE UNCHANGED vars
  BY <1>3 DEF vars, lmdb, reading, Inv, TypeOK, Elements, PartsInv, Part, Filled,
              SortersInv, LockInv, TempDirExclusive, Inside, ReaderInv, WriterInv,
              Writing, OrderInv
<1> QED
  BY <1>1, <1>2, <1>3 DEF Next, Stopped

\* The inductive invariant holds for ever.
LEMMA Invariance == Spec => []Inv
  BY InvInit, InvNext, PTL DEF Spec

----------------------------------------------------------------------------
(* The theorems.                                                           *)

\* The database with complete indexes for its elements is the file, once these
\* are committed.
LEMMA CompleteIsSource ==
  ASSUME Inv, Filled
  PROVE  Complete = source
<1>1. source \in Source
  BY DEF Inv, TypeOK
<1>2. /\ db.locations = source.locations /\ db.nodes = source.nodes
      /\ db.ways = source.ways /\ db.relations = source.relations
      /\ db.metadata = source.metadata
  BY DEF Filled, ElementTables
<1> QED
  BY <1>1, <1>2, SourceAssumption DEF Complete

\* The variables of Expand keep their types.
THEOREM ExpandTypes == Spec => []TypeOK
<1>1. Inv => TypeOK
  BY DEF Inv
<1> QED
  BY <1>1, Invariance, PTL

\* Two processes are never inside the temporary directory (the mkdir and the rmdir
\* of cmdExpand and ~Handler).
THEOREM OneProcessInTempDir == Spec => []TempDirExclusive
<1>1. Inv => TempDirExclusive
  BY DEF Inv
<1> QED
  BY <1>1, Invariance, PTL

\* The database of a process that ended well is that of the file, whatever crashed
\* before or runs beside it.
THEOREM FinishedIsTheFile == Spec => []DoneIsExpanded
<1>1. Inv => DoneIsExpanded
  BY DEF Inv, WriterInv, DoneIsExpanded
<1> QED
  BY <1>1, Invariance, PTL

\* Readers never see an index entry without its element.
THEOREM EntriesAlwaysTrue == Spec => []EntriesAreTrue
<1>1. ASSUME Inv PROVE EntriesAreTrue
  <2>1. CASE Filled
    BY <1>1, <2>1, CompleteIsSource DEF EntriesAreTrue, Inv, PartsInv, Part
  <2>2. CASE db = EmptyDatabase
    BY <2>2, EmptyFacts DEF EntriesAreTrue
  <2> QED
    BY <1>1, <2>1, <2>2 DEF Inv, PartsInv
<1> QED
  BY <1>1, Invariance, PTL

\* Readers who see an entry of an index see all entries of those written before it.
THEOREM IndexesAppearInOrder == Spec => []IndexesInOrder
<1>1. ASSUME Inv PROVE IndexesInOrder
  <2>1. CASE Filled
    BY <1>1, <2>1, CompleteIsSource DEF IndexesInOrder, Inv, OrderInv
  <2>2. CASE db = EmptyDatabase
    BY <2>2, EmptyFacts, IndexPlaces DEF IndexesInOrder
  <2> QED
    BY <1>1, <2>1, <2>2 DEF Inv, PartsInv
<1> QED
  BY <1>1, Invariance, PTL

\* The number of tables that query finds is one of the possible numbers, and a
\* table with a smaller number is there.
LEMMA OpenedTables ==
  ASSUME NEW S \in SUBSET (0..9), 0 \in S
  PROVE  Max(S) \in S
<1>1. \E n \in S : \A k \in S : n >= k
  <2> SUFFICES ASSUME \A n \in S : \E k \in S : k > n PROVE FALSE
    OBVIOUS
  <2>1. 9 \notin S
    OBVIOUS
  <2>2. 8 \notin S
    BY <2>1
  <2>3. 7 \notin S
    BY <2>1, <2>2
  <2>4. 6 \notin S
    BY <2>1, <2>2, <2>3
  <2>5. 5 \notin S
    BY <2>1, <2>2, <2>3, <2>4
  <2>6. 4 \notin S
    BY <2>1, <2>2, <2>3, <2>4, <2>5
  <2>7. 3 \notin S
    BY <2>1, <2>2, <2>3, <2>4, <2>5, <2>6
  <2>8. 2 \notin S
    BY <2>1, <2>2, <2>3, <2>4, <2>5, <2>6, <2>7
  <2>9. 1 \notin S
    BY <2>1, <2>2, <2>3, <2>4, <2>5, <2>6, <2>7, <2>8
  <2> QED
    BY <2>1, <2>2, <2>3, <2>4, <2>5, <2>6, <2>7, <2>8, <2>9
<1> QED
  BY <1>1 DEF Max

\* A table that exists is that of the file when it is one of the elements, or when
\* the table after it exists.
LEMMA TablesFinal ==
  ASSUME Inv
  PROVE  /\ \A name \in ElementTables : name \in tables => db[name] = source[name]
         /\ \A i \in 1..8 :
              StatTables[i] \in tables /\ StatTables[i + 1] \in tables
                => db[StatTables[i]] = source[StatTables[i]]
         /\ tables \cap ElementTables # {} => ElementTables \subseteq tables
<1>1. \A name \in ElementTables : name \in tables => Filled
  BY DEF Inv, PartsInv
<1>2. \A name \in ElementTables : name \in tables => db[name] = source[name]
  BY <1>1 DEF Filled
<1>3. ASSUME NEW i \in 1..8, StatTables[i] \in tables, StatTables[i + 1] \in tables
      PROVE  db[StatTables[i]] = source[StatTables[i]]
  <2>1. CASE i \in 1..4
    <3>1. StatTables[i] \in ElementTables
      BY <2>1 DEF StatTables, ElementTables
    <3> QED
      BY <1>2, <1>3, <3>1
  <2>2. CASE i \in 5..8
    <3>1. /\ i - 4 \in DOMAIN Indexes /\ i - 3 \in DOMAIN Indexes /\ i - 4 < i - 3
          /\ StatTables[i] = Indexes[i - 4] /\ StatTables[i + 1] = Indexes[i - 3]
      BY <2>2 DEF StatTables, Indexes
    <3> QED
      BY <1>3, <3>1 DEF Inv, OrderInv
  <2> QED
    BY <2>1, <2>2
<1> QED
  BY <1>1, <1>2, <1>3 DEF Filled

\* All counts that query prints but the last are those of the file.
LEMMA CountsFinal ==
  ASSUME Inv
  PROVE  LET counts == QueryStat(db, tables).printed
         IN  \A i \in 1..Len(counts) - 1 : counts[i] = Count(source, StatTables[i])
<1> DEFINE S == {n \in 0..Len(StatTables) : \A i \in 1..n : StatTables[i] \in tables}
           opened == Max(S)
           counts == [i \in 1..opened |-> Count(db, StatTables[i])]
<1>1. QueryStat(db, tables).printed = counts
  BY DEF QueryStat, Answer
<1>2. opened \in 0..9 /\ \A i \in 1..opened : StatTables[i] \in tables
  <2>1. Len(StatTables) = 9
    BY DEF StatTables
  <2>2. 0 \in S /\ S \in SUBSET (0..9)
    BY <2>1
  <2>3. Max(S) \in S
    <3> HIDE DEF S
    <3> QED  BY <2>2, OpenedTables
  <2> QED
    BY <2>1, <2>3
<1> HIDE DEF opened
<1>3. Len(counts) = opened
  BY <1>2
<1>4. ASSUME NEW i \in 1..opened - 1
      PROVE  counts[i] = Count(source, StatTables[i])
  <2>1. i \in 1..8 /\ i \in 1..opened /\ i + 1 \in 1..opened
    BY <1>2
  <2>2. db[StatTables[i]] = source[StatTables[i]]
    BY <1>2, <2>1, TablesFinal
  <2>3. db.locations = db["locations"] /\ source.locations = source["locations"]
    OBVIOUS
  <2>4. Count(db, StatTables[i]) = Count(source, StatTables[i])
    BY <2>2 DEF Count
  <2> QED
    BY <2>1, <2>4
<1> HIDE DEF counts
<1> QED
  BY <1>1, <1>3, <1>4

\* What query prints of a database in the making is final.
THEOREM QueriesPrintTheFile == Spec => []QueriesAreFinal
<1>1. ASSUME Inv PROVE QueriesAreFinal
  <2>1. /\ \A name \in ElementTables : name \in tables => db[name] = source[name]
        /\ tables \cap ElementTables # {} => ElementTables \subseteq tables
    BY <1>1, TablesFinal
  <2>2. \A id \in Node : LET answer == QueryNode(db, tables, id) IN
          answer # Silence => answer = QueryNode(source, ElementTables, id)
    BY <2>1 DEF QueryNode, ElementTables
  <2>3. \A id \in Way : LET answer == QueryWay(db, tables, id) IN
          answer.ended => answer = QueryWay(source, ElementTables, id)
    BY <2>1 DEF QueryWay, QueryRow, Silence, Answer, ElementTables
  <2>4. \A id \in Relation : LET answer == QueryRelation(db, tables, id) IN
          answer.ended => answer = QueryRelation(source, ElementTables, id)
    BY <2>1 DEF QueryRelation, QueryRow, Silence, Answer, ElementTables
  <2>5. LET answer == QueryStamp(db, tables) IN
          answer.ended => answer = QueryStamp(source, ElementTables)
    BY <2>1 DEF QueryStamp, Silence, Answer, ElementTables
  <2> QED
    BY <1>1, <2>2, <2>3, <2>4, <2>5, CountsFinal DEF QueriesAreFinal
<1> QED
  BY <1>1, Invariance, PTL
=============================================================================
