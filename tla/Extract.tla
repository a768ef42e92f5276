------------------------------ MODULE Extract ------------------------------
(***************************************************************************)
(* The extract command (src/extract.cpp): one read transaction selects the *)
(* nodes of the region's cells, the ways and relations that use them,      *)
(* completes the selection, and writes it out in passes.  LMDB gives the   *)
(* command one committed database for its whole run, so `db' is constant.  *)
(***************************************************************************)
EXTENDS Storage, Region, FiniteSetsExt

CONSTANTS Multipolygon,  \* the relation tags with type=multipolygon
          Widen,         \* Widen[l][c]: c and the cells at level l beside it
          Input          \* sets of databases, each with the command lines for it

ASSUME MultipolygonAssumption == Multipolygon \subseteq RelationTags
ASSUME IdAssumption == Node \subseteq Nat /\ Way \subseteq Nat /\ Relation \subseteq Nat
ASSUME WidenAssumption ==
  /\ Widen \in [0..16 -> [Cell -> SUBSET Cell]]
  /\ \A l \in 0..16 : \A c \in Cell : c \in Widen[l][c]
ASSUME CellsAssumption == \A s \in Shape : s.cells \subseteq Cell

\* What `update' is proved to keep; and rows of the right type.
WellFormed(d) ==
  /\ WellIndexed(d)
  /\ d.locations \in [DOMAIN d.locations -> Loc] /\ DOMAIN d.locations \subseteq Node
  /\ d.ways \in [DOMAIN d.ways -> SUBSET Node] /\ DOMAIN d.ways \subseteq Way
  /\ d.relations \in [DOMAIN d.relations -> RelationRow]
  /\ DOMAIN d.relations \subseteq Relation

Extensions == {"bbox", "disc", "geojson", "poly"}

ExtOf(ending) == IF ending = "json" THEN "geojson" ELSE ending

\* What an option names: --region a file, whose ending says what its text is,
\* the others the text itself.
Named(given, source) ==
  IF source = "region"
  THEN [ext |-> ExtOf(given.region.ending), text |-> given.region.text]
  ELSE [ext |-> source, text |-> given[source]]

\* options.given maps the options that are there to their values; options.expand
\* is a level, negative when it is not given.
IsCommandLine(o) ==
  /\ \A source \in DOMAIN o.given : IsDocument(Named(o.given, source))
  /\ o.expand \in Int

ASSUME InputAssumption ==
  \A i \in Input : /\ \A d \in i[1] : WellFormed(d)
                   /\ \A o \in i[2] : IsCommandLine(o)

VARIABLES db,            \* the database of the read transaction
          options,       \* the command line
          phase,         \* the pass the command is in
          region,        \* the shapes of the region
          covering,      \* the level 16 cells of its covering
          boxes,         \* the boxes in the header of the output
          node_ids, way_ids, relation_ids,
          discovered,    \* discovered_relations
          todo,          \* the ids the current writing pass has not reached
          pending,       \* objects in the buffer that are not committed
          file           \* objects handed over to the writer

input == <<db, options>>
selection == <<node_ids, way_ids, relation_ids>>
place == <<region, covering>>
output == <<boxes, todo, pending, file>>
vars == <<input, phase, place, selection, discovered, output>>

Phases == {"options", "covering", "cells", "node_way", "node_relation",
           "way_relation", "parents", "rounds", "multipolygons", "way nodes",
           "header", "nodes", "ways", "relations", "done", "exited", "aborted"}

Ending == {"done", "exited", "aborted"}

----------------------------------------------------------------------------
(* The command line.                                                       *)

\* The options that name a region, in the order the code looks at them.
Sources == <<"bbox", "disc", "geojson", "poly", "region">>

Given == {i \in DOMAIN Sources : Sources[i] \in DOMAIN options.given}

\* The first option decides.
Document == Named(options.given, Sources[Min(Given)])

Buffer(cells) ==
  IF options.expand \in 0..16
  THEN UNION {Widen[options.expand][c] : c \in cells}
  ELSE cells

----------------------------------------------------------------------------
(* Reading the tables.                                                     *)

TraverseCells(d, cells) == {e[2] : e \in {x \in d.cell_node : x[1] \in cells}}

\* The loops that look up every id of a set in a reverse index.
TraverseAll(index, ids) == UNION {TraverseReverse(index, id) : id \in ids}

\* Mutants: the type of a member, the row of the way, or the tags of the
\* relation are not looked at.
AnyMembers(d, r) == d.relations[r].way \cup d.relations[r].relation

UncheckedWays(d, r) ==
  IF d.relations[r].tags \in Multipolygon THEN d.relations[r].way ELSE {}

WaysOfAnyRelation(d, r) == {w \in d.relations[r].way : Exists(d.ways, w)}

\* The existing ways of a multipolygon relation.
MultipolygonWays(d, r) ==
  IF d.relations[r].tags \in Multipolygon
  THEN {w \in d.relations[r].way : Exists(d.ways, w)}
  ELSE {}

----------------------------------------------------------------------------
Init ==
  /\ \E i \in Input : db \in i[1] /\ options \in i[2]
  /\ phase = "options"
  /\ region = <<>> /\ covering = {} /\ boxes = <<>>
  /\ node_ids = {} /\ way_ids = {} /\ relation_ids = {}
  /\ discovered = {}
  /\ todo = {}
  /\ pending = {}
  /\ file = {}

Unselected == UNCHANGED <<input, selection, discovered, todo, pending, file>>

Unwritten == UNCHANGED <<input, place, output>>

\* No option names a region: exit(0).  A file whose name has an unknown ending
\* leaves the pointer `region' null, and GetCovering goes through it.
MakeRegion ==
  /\ phase = "options"
  /\ \/ /\ Given = {}
        /\ phase' = "exited" /\ UNCHANGED region
     \/ /\ Given # {} /\ Document.ext \in Extensions /\ ~Crashes(Document)
        /\ phase' = "covering" /\ region' = MakeShapes(Document)
     \/ /\ Given # {} /\ (Document.ext \notin Extensions \/ Crashes(Document))
        /\ phase' = "aborted" /\ UNCHANGED region
  /\ UNCHANGED <<covering, boxes>> /\ Unselected

\* --expand adds the cells around the covering, at the levels 0 to 16.
Cover ==
  /\ phase = "covering"
  /\ covering' = Buffer(GetCovering(region))
  /\ phase' = "cells"
  /\ UNCHANGED <<region, boxes>> /\ Unselected

ReadCells ==
  /\ phase = "cells"
  /\ node_ids' = TraverseCells(db, covering)
  /\ phase' = "node_way"
  /\ UNCHANGED <<way_ids, relation_ids, discovered>> /\ Unwritten

FindWays ==
  /\ phase = "node_way"
  /\ way_ids' = TraverseAll(db.node_way, node_ids)
  /\ phase' = "node_relation"
  /\ UNCHANGED <<node_ids, relation_ids, discovered>> /\ Unwritten

FindNodeRelations ==
  /\ phase = "node_relation"
  /\ relation_ids' = TraverseAll(db.node_relation, node_ids)
  /\ phase' = "way_relation"
  /\ UNCHANGED <<node_ids, way_ids, discovered>> /\ Unwritten

FindWayRelations ==
  /\ phase = "way_relation"
  /\ relation_ids' = relation_ids \cup TraverseAll(db.way_relation, way_ids)
  /\ phase' = "parents"
  /\ UNCHANGED <<node_ids, way_ids, discovered>> /\ Unwritten

\* Mutant: the first parents are not added to relation_ids.
FindParentsNoUnion ==
  /\ phase = "parents"
  /\ discovered' = TraverseAll(db.relation_relation, relation_ids)
  /\ phase' = "rounds"
  /\ UNCHANGED selection /\ Unwritten

\* The parents of the relations found so far, before the loop.
FindParents ==
  /\ phase = "parents"
  /\ discovered' = TraverseAll(db.relation_relation, relation_ids)
  /\ relation_ids' = relation_ids \cup discovered'
  /\ phase' = "rounds"
  /\ UNCHANGED <<node_ids, way_ids>> /\ Unwritten

\* Mutant: the loop ends when a round finds nothing, new or known.
RoundsWhileFound ==
  /\ phase = "rounds"
  /\ LET discovered_2 == TraverseAll(db.relation_relation, discovered)
     IN  IF discovered_2 = {}
         THEN phase' = "multipolygons" /\ UNCHANGED <<relation_ids, discovered>>
         ELSE /\ relation_ids' = relation_ids \cup discovered_2
              /\ discovered' = discovered_2
              /\ UNCHANGED phase
  /\ UNCHANGED <<node_ids, way_ids>> /\ Unwritten

\* One round of the loop: the parents of the last round's relations.  The loop
\* ends when a round adds nothing to relation_ids.
ParentsRound ==
  /\ phase = "rounds"
  /\ LET discovered_2 == TraverseAll(db.relation_relation, discovered)
     IN  IF discovered_2 \subseteq relation_ids
         THEN phase' = "multipolygons" /\ UNCHANGED <<relation_ids, discovered>>
         ELSE /\ relation_ids' = relation_ids \cup discovered_2
              /\ discovered' = discovered_2
              /\ UNCHANGED phase
  /\ UNCHANGED <<node_ids, way_ids>> /\ Unwritten

\* getReader fails a CHECK, which aborts the process, on a missing row.
CompleteMultipolygons ==
  /\ phase = "multipolygons"
  /\ IF relation_ids \subseteq DOMAIN db.relations
     THEN /\ way_ids' = way_ids \cup
                          UNION {MultipolygonWays(db, r) : r \in relation_ids}
          /\ phase' = "way nodes"
     ELSE phase' = "aborted" /\ UNCHANGED way_ids
  /\ UNCHANGED <<node_ids, relation_ids, discovered>> /\ Unwritten

CompleteWays ==
  /\ phase = "way nodes"
  /\ IF way_ids \subseteq DOMAIN db.ways
     THEN /\ node_ids' = node_ids \cup UNION {db.ways[w] : w \in way_ids}
          /\ phase' = "header"
     ELSE phase' = "aborted" /\ UNCHANGED node_ids
  /\ UNCHANGED <<way_ids, relation_ids, discovered>> /\ Unwritten

----------------------------------------------------------------------------
(* Writing.  Ids are visited in ascending order.                           *)

\* The box is left out when it would cross the antimeridian.  GetBounds of a
\* region without shapes reads mRegions[0].
WriteHeader ==
  /\ phase = "header"
  /\ IF region = <<>>
     THEN phase' = "aborted" /\ UNCHANGED <<boxes, todo>>
     ELSE /\ phase' = "nodes"
          /\ todo' = node_ids
          /\ LET bounds == GetBounds(region)
             IN  boxes' = IF bounds.lng_lo < bounds.lng_hi THEN <<bounds>> ELSE <<>>
  /\ UNCHANGED <<input, place, selection, discovered, pending, file>>

\* Mutant: the nodes left uncommitted are discarded by the next commit.
CommitOne(object) ==
  /\ file' = file \cup {object}
  /\ pending' = {}

\* commit() commits everything that has been written into the buffer.
CommitBuffer(object) ==
  /\ file' = file \cup pending \cup {object}
  /\ pending' = {}

\* A node that is not in the nodes table is left by `continue' between the
\* builder, which has written it, and the commit.
WriteNode ==
  /\ phase = "nodes" /\ todo # {}
  /\ LET id == Min(todo) IN
       /\ todo' = todo \ {id}
       /\ \/ ~Exists(db.locations, id) /\ UNCHANGED <<pending, file>>
          \/ /\ Exists(db.locations, id) /\ id \notin db.nodes
             /\ pending' = pending \cup {<<"node", id>>}
             /\ UNCHANGED file
          \/ /\ Exists(db.locations, id) /\ id \in db.nodes
             /\ CommitBuffer(<<"node", id>>)
  /\ UNCHANGED <<input, phase, place, selection, discovered, boxes>>

WriteObject(type, rows) ==
  /\ todo # {}
  /\ IF Exists(rows, Min(todo))
     THEN CommitBuffer(<<type, Min(todo)>>) /\ UNCHANGED phase
     ELSE phase' = "aborted" /\ UNCHANGED <<pending, file>>
  /\ todo' = todo \ {Min(todo)}
  /\ UNCHANGED <<input, place, selection, discovered, boxes>>

WriteWay == phase = "ways" /\ WriteObject("way", db.ways)

WriteRelation == phase = "relations" /\ WriteObject("relation", db.relations)

NextPass(from, to, ids) ==
  /\ phase = from /\ todo = {}
  /\ phase' = to
  /\ todo' = ids
  /\ UNCHANGED <<input, place, selection, discovered, boxes, pending, file>>

\* cb.flush() hands over what is committed; what is pending is dropped.
Flush ==
  /\ phase = "relations" /\ todo = {}
  /\ phase' = "done"
  /\ pending' = {}
  /\ UNCHANGED <<input, place, selection, discovered, boxes, todo, file>>

Stopped == phase \in Ending /\ UNCHANGED vars

Step ==
  \/ MakeRegion
  \/ Cover
  \/ ReadCells
  \/ FindWays
  \/ FindNodeRelations
  \/ FindWayRelations
  \/ FindParents
  \/ ParentsRound
  \/ CompleteMultipolygons
  \/ CompleteWays
  \/ WriteHeader
  \/ WriteNode
  \/ NextPass("nodes", "ways", way_ids)
  \/ WriteWay
  \/ NextPass("ways", "relations", relation_ids)
  \/ WriteRelation
  \/ Flush

Next == Step \/ Stopped

Spec == Init /\ [][Next]_vars /\ WF_vars(Step)

----------------------------------------------------------------------------
(* The selection the command should make, from the element rows alone.     *)

\* The areas described are read, and there are some.
Honoured ==
  /\ Given # {} /\ Document.ext \in Extensions
  /\ Understood(Document) /\ Described(Document) # {}

Finished == phase = "done" /\ Honoured

\* The cells of the areas the first option describes, with those beside them.
WantedCells ==
  LET described == UNION {s.cells : s \in Described(Document)}
  IN  described \cup
        {c \in Cell : /\ 0 <= options.expand /\ options.expand <= 16
                      /\ \E d \in described : c \in Widen[options.expand][d]}

InRegion ==
  {n \in DOMAIN db.locations : CellOf[db.locations[n]] \in WantedCells}

WaysThrough == {w \in DOMAIN db.ways : db.ways[w] \cap InRegion # {}}

\* Sets of relations that hold every relation using the region's nodes and
\* ways, and every parent of their own.
Ancestries ==
  {S \in SUBSET DOMAIN db.relations :
     \A r \in DOMAIN db.relations :
       LET row == db.relations[r]
       IN  (row.node \cap InRegion) \cup (row.way \cap WaysThrough)
             \cup (row.relation \cap S) # {} => r \in S}

Written(type) == {o[2] : o \in {x \in file : x[1] = type}}

\* The located nodes of the region and of the written ways.
WantedNodes ==
  (InRegion \cup UNION {db.ways[w] : w \in Written("way")})
    \cap DOMAIN db.locations

(* Properties.                                                             *)

\* Types of the variables.
TypeOK ==
  /\ phase \in Phases
  /\ region \in Seq(Shape)
  /\ covering \subseteq Cell
  /\ boxes \in Seq([lat_lo : Int, lat_hi : Int, lng_lo : Lng, lng_hi : Lng])
  /\ node_ids \subseteq Node /\ way_ids \subseteq Way
  /\ relation_ids \subseteq Relation /\ discovered \subseteq Relation
  /\ todo \subseteq Node \cup Way \cup Relation
  /\ pending \subseteq {"node"} \X Node
  /\ file \subseteq ({"node"} \X Node) \cup ({"way"} \X Way)
                      \cup ({"relation"} \X Relation)

\* No getReader of the command meets a missing row, whatever dangling members
\* the ways and relations have: ids come from exact indexes or are checked.  The
\* command dies only of regions it does not understand or that have no area.
NeverAborts == phase = "aborted" => ~Honoured

\* The relations written are the relations that use the region, directly or
\* through other relations, and no others, whatever cycles relations form: the
\* least set closed under "is a parent of".
RelationsExact ==
  Finished =>
    /\ Written("relation") \in Ancestries
    /\ \A S \in Ancestries : Written("relation") \subseteq S

\* The ways written are those through the region and the existing members of
\* the multipolygon relations written ("make it Multipolygon-complete").
WaysExact ==
  Finished =>
    Written("way") =
      WaysThrough \cup
        {w \in DOMAIN db.ways :
           \E r \in Written("relation") :
             db.relations[r].tags \in Multipolygon /\ w \in db.relations[r].way}

\* Only wanted nodes are written.  One that is not written is untagged, no way
\* and no relation is written, and no node after it is tagged: in particular
\* every located node of every written way is there ("make it Way-complete").
NodesExact ==
  Finished =>
    /\ Written("node") \subseteq WantedNodes
    /\ \A n \in WantedNodes \ Written("node") :
         /\ Written("way") = {} /\ Written("relation") = {}
         /\ \A m \in WantedNodes : m >= n => m \notin db.nodes

\* The command ends, also when relations contain each other.
Terminates == <>(phase \in Ending)

\* The box of the header encloses every area of the region, and is there unless
\* it has no width, when no area crosses the antimeridian ("the output header
\* box is omitted as it can't represent the input"); an area that crosses it
\* leaves no box when it is the only one.
BoxIsRight ==
  Finished =>
    LET areas == Described(Document)
    IN  /\ (\A s \in areas : ~Crosses(s)) =>
              /\ \A box \in ToSet(boxes), s \in areas : Encloses(box, s)
              /\ boxes = <<>> => \A s, t \in areas : s.lng_lo = t.lng_hi
        /\ (\A s \in areas : Crosses(s)) /\ Cardinality(areas) = 1 => boxes = <<>>

\* The extract of a region has every node of the region.
RegionIsWritten == phase = "done" => WantedNodes \subseteq Written("node")
=============================================================================
