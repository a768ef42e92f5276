---------------------------- MODULE AugmentedDiff ----------------------------
(***************************************************************************)
(* The augmented diff example (src/python/examples/augmented_diff.py),     *)
(* which runs before `update' applies an .osc file: it reports the objects *)
(* of the file and those the file changes only indirectly, because they    *)
(* refer to them.  It reads one committed database.                        *)
(***************************************************************************)
EXTENDS Update, Sequences

CONSTANT Respelled   \* coordinates an .osc file writes other than Python does

ASSUME RespelledAssumption == Respelled \subseteq Loc

\* An .osc file is a sequence of entries: a change, the block it stands in,
\* "create", "modify" or "delete", the version of the object, and whether the
\* entry of a node states coordinates, which that of a deleted one may not do.
\* The entry of a deleted way lists no nodes, that of a deleted relation no members.
Key(entry) == <<entry.change.type, entry.change.id>>

\* Mutant: the first version of an object is kept.
Oldest(osc) ==
  {i \in DOMAIN osc :
     \A j \in DOMAIN osc : Key(osc[j]) = Key(osc[i]) => i <= j}

\* First pass: of the entries of an object the one of the highest version, of
\* equal ones the last.
Newest(osc) ==
  {i \in DOMAIN osc :
     \A j \in DOMAIN osc :
       Key(osc[j]) = Key(osc[i]) =>
         \/ osc[j].version < osc[i].version
         \/ osc[j].version = osc[i].version /\ j <= i}

Actions(osc) == {osc[i] : i \in Newest(osc)}

InFile(osc, type) == {a.change.id : a \in {x \in Actions(osc) : x.change.type = type}}

InDb(d, c) ==
  CASE c.type = "node" -> Exists(d.locations, c.id)
    [] c.type = "way" -> Exists(d.ways, c.id)
    [] c.type = "relation" -> Exists(d.relations, c.id)

\* Second pass: a modify of an object the database does not have becomes a
\* create.
Modified(d, osc, type) ==
  {a.change : a \in {x \in Actions(osc) : /\ x.block = "modify"
                                          /\ x.change.type = type
                                          /\ InDb(d, x.change)}}

----------------------------------------------------------------------------
(* Fourth pass: the objects the changes propagate to.                      *)

\* The texts of the coordinates are compared.
Moved(d, osc) ==
  {c.id : c \in {x \in Modified(d, osc, "node") :
                   x.loc # d.locations[x.id] \/ x.loc \in Respelled}}

Rewired(d, osc) ==
  {c.id : c \in {x \in Modified(d, osc, "way") : x.nodes # d.ways[x.id]}}

ReferringTo(index, ids) == UNION {TraverseReverse(index, id) : id \in ids}

AffectedWays(d, osc) ==
  ReferringTo(d.node_way, Moved(d, osc)) \ InFile(osc, "way")

\* From a moved node also through its ways, those that are not in the file.
AffectedRelations(d, osc) ==
  (ReferringTo(d.node_relation, Moved(d, osc)) \cup
   ReferringTo(d.way_relation, AffectedWays(d, osc) \cup Rewired(d, osc)))
     \ InFile(osc, "relation")

----------------------------------------------------------------------------
(* Third and fifth pass: the coordinates of old and new elements.          *)

\* Nodes of the file whose entry has no attributes lon and lat.
Bare(osc) ==
  {a.change.id : a \in {x \in Actions(osc) : x.change.type = "node" /\ ~x.coordinates}}

\* Mutant: the old element too is augmented with what the file says.
GetLatLonOfFile(d, osc, n, use_new) ==
  IF n \in InFile(osc, "node") THEN (IF n \in Bare(osc) THEN "none" ELSE "coordinates")
  ELSE IF Exists(d.locations, n) THEN "coordinates" ELSE "error"

\* "none" are two times None, which is not an exception yet.
GetLatLon(d, osc, n, use_new) ==
  IF use_new /\ n \in InFile(osc, "node")
  THEN (IF n \in Bare(osc) THEN "none" ELSE "coordinates")
  ELSE IF Exists(d.locations, n) THEN "coordinates" ELSE "error"

Located(d, osc, nodes, use_new) == \A n \in nodes : GetLatLon(d, osc, n, use_new) # "error"

\* Some node gets an attribute that is None.
Blank(d, osc, nodes) == \E n \in nodes : GetLatLon(d, osc, n, TRUE) = "none"

\* The nodes of the newest version of a way in the file.
NewNodes(d, osc, way) ==
  IF way \in InFile(osc, "way")
  THEN LET c == CHOOSE x \in {a.change : a \in Actions(osc)} :
                  x.type = "way" /\ x.id = way
       IN  IF c.visible THEN c.nodes ELSE {}
  ELSE d.ways[way]

OldAugmentable(d, osc, row) ==
  /\ Located(d, osc, row.node, FALSE)
  /\ \A w \in row.way : Exists(d.ways, w) /\ Located(d, osc, d.ways[w], FALSE)

Augmentable(d, osc, row) ==
  /\ OldAugmentable(d, osc, row)
  /\ \A w \in row.way : Located(d, osc, NewNodes(d, osc, w), TRUE)

BlankRelation(d, osc, row) ==
  \/ Blank(d, osc, row.node)
  \/ \E w \in row.way : /\ w \in InFile(osc, "way") \/ Exists(d.ways, w)
                       /\ Blank(d, osc, NewNodes(d, osc, w))

\* The script ends with an exception and writes nothing: on a way of the file or
\* an affected one whose old version has a node without a location (for the
\* former the exception is caught, but then the bounding box reads the longitude
\* that was not set), and on an attribute that is None, which ET.write refuses.  A
\* relation whose old version cannot be augmented has no such attribute; where
\* a new version also refers to a node that is nowhere, it depends on the order
\* of the references, and counts as a failure here.
Fails(d, osc) ==
  \/ \E w \in AffectedWays(d, osc) \cup {c.id : c \in Modified(d, osc, "way")} :
       \E n \in d.ways[w] : GetLatLon(d, osc, n, FALSE) # "coordinates"
  \/ \E w \in AffectedWays(d, osc) \cup InFile(osc, "way") :
       Blank(d, osc, NewNodes(d, osc, w))
  \/ \E a \in Actions(osc) :
       /\ a.change.type = "relation" /\ a.change.visible
       /\ a.change \in Modified(d, osc, "relation")
            => OldAugmentable(d, osc, d.relations[a.change.id])
       /\ BlankRelation(d, osc, a.change.row)
  \/ \E r \in AffectedRelations(d, osc) :
       /\ Augmentable(d, osc, d.relations[r])
       /\ BlankRelation(d, osc, d.relations[r])

\* The objects with an action, when the script does not fail; an affected relation
\* that cannot be augmented is left out.
Reported(d, osc) ==
  {Key(a) : a \in Actions(osc)}
    \cup {"way"} \X AffectedWays(d, osc)
    \cup {"relation"} \X {r \in AffectedRelations(d, osc) :
                            Augmentable(d, osc, d.relations[r])}

----------------------------------------------------------------------------
(* The files that lead from a database to its next state.                  *)

\* An id is never used for a second object; a deleted one that comes back is
\* modified.
Blocks(d, now, c) ==
  IF ~c.visible THEN {"delete"}
  ELSE IF InDb(d, c) \/ InDb(now, c) THEN {"modify"}
  ELSE {"create", "modify"}

\* The entries a change can have in a file.
EntriesFor(d, now, version, c) ==
  [block : Blocks(d, now, c), version : {version}, change : {c},
   coordinates : IF c.type = "node" /\ ~c.visible THEN BOOLEAN ELSE {TRUE}]

\* The files of two changes, each with a database it leads to.
Updates(d) ==
  UNION {UNION {
    {[osc |-> <<e1, e2>>, after |-> after] :
       e1 \in EntriesFor(d, d, 1, c1), e2 \in EntriesFor(d, now, 2, c2),
       after \in Outcomes(now, c2)} :
       now \in Outcomes(d, c1)} : c1, c2 \in Change}

WayComplete(d, w) == Exists(d.ways, w) /\ d.ways[w] \subseteq DOMAIN d.locations

\* No way and no relation lacks a node.
NodesPresent(d) ==
  /\ \A w \in DOMAIN d.ways : WayComplete(d, w)
  /\ \A r \in DOMAIN d.relations : d.relations[r].node \subseteq DOMAIN d.locations

WayGeometry(d, w) == [n \in d.ways[w] |-> d.locations[n]]

RelationComplete(d, r) ==
  /\ Exists(d.relations, r)
  /\ d.relations[r].node \subseteq DOMAIN d.locations
  /\ \A w \in d.relations[r].way : WayComplete(d, w)

RelationGeometry(d, r) ==
  <<[n \in d.relations[r].node |-> d.locations[n]],
    [w \in d.relations[r].way |-> WayGeometry(d, w)]>>

\* An object that is whole before and after the update, and whose geometry the
\* update changes, without being reported.
WayMissed(u, w) ==
  /\ WayComplete(db, w) /\ WayComplete(u.after, w)
  /\ WayGeometry(db, w) # WayGeometry(u.after, w)
  /\ <<"way", w>> \notin Reported(db, u.osc)

RelationMissed(u, r) ==
  /\ RelationComplete(db, r) /\ RelationComplete(u.after, r)
  /\ RelationGeometry(db, r) # RelationGeometry(u.after, r)
  /\ <<"relation", r>> \notin Reported(db, u.osc)

(* Properties.                                                             *)

\* No way is missed, whatever versions of its nodes the file holds, when the
\* script does not fail.
PropagatesToWays ==
  ~active => \A u \in Updates(db), w \in Way : ~WayMissed(u, w)

\* The script does not fail where the data are whole: when every way of the
\* database has its nodes, and every way and relation still has them after the
\* update, in particular none of them refers to a node the file deletes, with or
\* without coordinates.
EndsOnWholeData ==
  ~active => \A u \in Updates(db) :
    (\A w \in DOMAIN db.ways : WayComplete(db, w)) /\ NodesPresent(u.after)
      => ~Fails(db, u.osc)

\* No relation is missed: "when a node's location changes, that propagates to any
\* ways it belongs to, relations it belongs to and also any relations that the
\* way belongs to".
PropagatesToRelations ==
  ~active => \A u \in Updates(db), r \in Relation : ~RelationMissed(u, r)

\* The relations that are missed are those of a way that the file holds with the
\* same nodes while one of them moves; no other relation is, whatever the file
\* does to the relation, its ways and its nodes.  UpdateProofs proves it.
HiddenByWay(u, w) ==
  /\ w \in InFile(u.osc, "way") \ Rewired(db, u.osc)
  /\ WayGeometry(db, w) # WayGeometry(u.after, w)

PropagatesUnlessHidden ==
  ~active => \A u \in Updates(db), r \in Relation :
    RelationMissed(u, r) => \E w \in db.relations[r].way : HiddenByWay(u, w)
=============================================================================
