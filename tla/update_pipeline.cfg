SPECIFICATION FairSpec
CONSTANTS
  m1 = m1  m2 = m2  pos = pos  items = items
  None = None
  Members = {m1, m2}
  Sections = {pos, items}
  ChannelCap = 1
  BatchSize = 2
  ChunkSize = 1
  MaxChanges = 2
  MaxFaults = 1
INVARIANTS
  TypeOK
  SentIsStored
PROPERTIES
  NeverBackwards
  TableFollowsHub
CHECK_DEADLOCK FALSE
