SPECIFICATION FairSpec
CONSTANTS
  a = a  b = b
  NoOne = NoOne
  Names = {a, b}
  Days = {1}
  Loots = {0, 1}
  MaxTrails = 2
  MaxMoves = 2
  MaxFails = 1
INVARIANTS
  PageHolds
CHECK_DEADLOCK FALSE
PROPERTIES
  TrailsCatchUp
  MarksStay
