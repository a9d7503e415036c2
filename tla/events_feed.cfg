SPECIFICATION ShownSpec
CONSTANTS
  MaxEvents = 3
  Earlier = 1
  Page = 2
  Capacity = 3
  Limit = 2
  Keep = 2
  Hidden = {2}
  Slots = 2
  Overlapping = TRUE
  MaxRestarts = 1
  MaxStarts = 1
INVARIANTS
  FeedHolds
PROPERTIES
  NewsIsNew
  PageCatchesUp
