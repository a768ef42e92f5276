\* Are the data those of the number readers see, when a client is killed?
CONSTANTS
  x = x
  y = y
  Object = {x, y}
  MaxSeq = 4
  Touches <- MCTouches
  Base = 0
  Client = {c1}
  MaxKills = 1
  FirstSeq <- Numbered
SPECIFICATION Spec
INVARIANT
  MetadataMatchesData
