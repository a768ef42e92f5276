\* Are all nodes of the region written?
CONSTANTS
  Node = {1, 2}
  Way = {1, 2}
  Relation = {1, 2, 3}
  Loc = {"in", "near", "far"}
  Cell = {"in", "near", "far"}
  CellOf <- MCCellOf
  RelationTags = {"multipolygon", "other"}
  Stamp = {}
  Multipolygon = {"multipolygon"}
  Shape <- MCShapes
  East = 2
  Widen <- MCWiden
  Input <- Untied
SPECIFICATION Spec
INVARIANT
  RegionIsWritten
