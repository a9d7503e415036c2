SPECIFICATION FairSpec
CONSTANTS
  n1 = n1  n2 = n2  free = free  pos = pos  items = items
  NoRow = NoRow  NoMember = NoMember  NoWrite = NoWrite
  Names = {n1}
  Sections = {pos, items}
  Taken = {n1}
  Unfilled = {}
  Overlap = 1
  MaxStatement = 1
  SlowFirst = TRUE
  MaxClock = 5
  MaxWrites = 1
  MaxMoves = 0
  MaxFails = 0
INVARIANT
  NothingStale
