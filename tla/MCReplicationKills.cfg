\* Clients that are killed, their orphans, and files with or without a number.
CONSTANTS
  x = x
  y = y
  Object = {x, y}
  MaxSeq = 4
  Touches <- MCTouches
  Base = 1
  Client = {c1}
  MaxKills = 2
  FirstSeq <- NumberedOrNot
SPECIFICATION Spec
INVARIANTS
  TypeOK
  NoDiffSkipped
PROPERTY
  CatchesUp
