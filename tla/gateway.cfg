SPECIFICATION FairSpec
CONSTANTS
  Strats = {"a", "b"}
  HistCap = 1
  ParkCap = 2
  Overlap = 0
  Fallback = 0
  Lagging = FALSE
  MaxRing = 1
  MaxOpen = 1
  Bounds <- MCBounds
INVARIANTS
  BookedOnce
  SnapshotsTellTheTruth
PROPERTIES
  RestingOrdersAreWorked
  NothingRestsAfterTrip
  EventuallyBooked
CHECK_DEADLOCK FALSE
