------------------------------ MODULE MCExpand ------------------------------
(***************************************************************************)
(* An instance of Expand for TLC: every OSM file over a few ids.           *)
(***************************************************************************)
EXTENDS Expand, TLC

MCCellOf == [loc \in Loc |-> "A"]

MCSource ==
  {Expanded(l, t, w, r, m) :
     l \in {EmptyTable} \cup [{1, 2} -> Loc], t \in SUBSET {1},
     w \in Table(Way, SUBSET Node), r \in Table(Relation, RelationRow),
     m \in Stamp \cup {NoStamp}}

MCSources == {s \in MCSource : TaggedAreLocated(s)}

Symmetry == Permutations(Expander)
=============================================================================
