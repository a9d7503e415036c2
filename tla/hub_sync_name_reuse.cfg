SPECIFICATION FairSpec
CONSTANTS
  alice = alice  bob = bob  h = h  x = x  y = y  z = z  old = old  bad = bad
  None = None  NoRow = NoRow  NoAccount = NoAccount
  Accounts = {alice, bob}
  Names = {x, y, z, old, bad}
  ValidNames = {x, y, z, old}
  Hash <- MCHash
  InitName <- MCInitName
  MayTake <- MCReusedNames
  InitRows <- MCNoRows
  MaxHubOps = 2
  MaxAdminOps = 0
  MaxFaults = 0
PROPERTY
  RenamesFollowed
