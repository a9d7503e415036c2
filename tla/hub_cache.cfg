SPECIFICATION FairSpec
CONSTANTS
  r1 = r1  r2 = r2  k1 = k1  l1 = l1  l2 = l2  l3 = l3
  Never = Never  NoKey = NoKey  NoLock = NoLock  Nobody = Nobody
  Requests = {r1, r2}
  Keys = {k1}
  Locks = {l1, l2, l3}
  Window = 1
  Ttl = 1
  MaxStale = 2
  MaxEntries = 1
  Budget = 3
  Discovered = {2}
  Pauses = {1, 2}
  MaxClock = 2
  MaxCancels = 1
  MaxTasks = 1
INVARIANTS
  TypeOK
  SyncHasItsReserve
PROPERTIES
  SharesCalls
  PausesAreKept
  RequestsEnd
