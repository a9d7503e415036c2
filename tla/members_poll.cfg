SPECIFICATION FairSpec
CONSTANTS
  n1 = n1  n2 = n2  free = free  pos = pos  items = items
  NoRow = NoRow  NoMember = NoMember  NoWrite = NoWrite
  Names = {n1, n2, free}
  Sections = {pos, items}
  Taken = {n1, n2}
  Unfilled = {n2}
  Overlap = 1
  MaxStatement = 1
  SlowFirst = FALSE
  MaxClock = 4
  MaxWrites = 1
  MaxMoves = 2
  MaxFails = 1
INVARIANTS
  NothingStale
PROPERTIES
  PageFollowsMap
  ReloadsEnd
