SPECIFICATION FairSpec
CONSTANTS
  alice = alice  bob = bob  h = h  x = x  y = y  z = z  old = old  bad = bad
  None = None  NoRow = NoRow  NoAccount = NoAccount
  Accounts = {alice}
  Names = {x, z}
  ValidNames = {x, z}
  Hash <- MCHash
  InitName <- MCInitName
  MayTake <- MCNoRenames
  InitRows <- MCNoRows
  MaxHubOps = 1
  MaxAdminOps = 3
  MaxFaults = 1
INVARIANT
  MemoryMatchesTable
PROPERTY
  MapFollowsHub
