SPECIFICATION Spec
CONSTANTS
  Sets <- MCSets
  TripGap = 2
  MinShared = 2
  MaxChanges = 4
  MaxTime = 6
INVARIANTS
  TripsHaveNoGap
CHECK_DEADLOCK FALSE
