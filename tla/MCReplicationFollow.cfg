\* Two clients that are not killed.
CONSTANTS
  x = x
  y = y
  Object = {x, y}
  MaxSeq = 6
  Touches <- MCTouches
  Base = 1
  Client = {c1, c2}
  MaxKills = 0
  FirstSeq <- Numbered
SPECIFICATION Spec
PROPERTY
  FollowsServer
