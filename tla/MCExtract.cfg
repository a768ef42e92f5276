\* Every kind of region document, and every database of a few objects.
CONSTANTS
  Node = {1, 2}
  Way = {1, 2}
  Relation = {1, 2, 3}
  Loc = {"in", "near", "far"}
  Cell = {"in", "near", "far"}
  CellOf <- MCCellOf
  RelationTags = {"multipolygon", "other"}
  Stamp = {}
  Multipolygon = {"multipolygon"}
  Shape <- MCShapes
  East = 2
  Widen <- MCWiden
  Input <- MCInput
SPECIFICATION Spec
INVARIANTS
  TypeOK
  NeverAborts
  RelationsExact
  WaysExact
  NodesExact
  BoxIsRight
PROPERTY
  Terminates
