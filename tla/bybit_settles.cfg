SPECIFICATION BybitFairSpec
CONSTANTS
  PoolCap = 1
  Sides = {"Buy"}
  Prices = {1}
  MaxQty = 2
  MaxSeq = 1
  RingCap = 2
  AttemptMod = 1
  Execs = {1, 2, 3, 4}
  NoExec = 0
  ExecCap = 4
  Amends = FALSE
  MaxRing = 1
  MaxDrops = 1
  MaxFails = 1
  Sweeps = TRUE
  MaxTimeouts = 1
  MaxEnded = 1
  MaxFaults = 2
INVARIANTS
  NoDoubleBooking
PROPERTIES
  EventuallyBooked
CHECK_DEADLOCK FALSE
