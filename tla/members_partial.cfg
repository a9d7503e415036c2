SPECIFICATION FairSpec
CONSTANTS
  n1 = n1  n2 = n2  free = free  pos = pos  items = items
  NoRow = NoRow  NoMember = NoMember  NoWrite = NoWrite
  Names = {n1, free}
  Sections = {pos, items}
  Taken = {n1}
  Unfilled = {}
  Overlap = 1
  MaxStatement = 1
  SlowFirst = FALSE
  MaxClock = 4
  MaxWrites = 1
  MaxMoves = 1
  MaxFails = 0
INVARIANT
  NothingMissing
