SPECIFICATION BybitSpec
CONSTANTS
  PoolCap = 1
  Sides = {"Buy"}
  Prices = {1}
  MaxQty = 2
  MaxSeq = 2
  RingCap = 2
  AttemptMod = 1
  Execs = {1, 2, 3, 4}
  NoExec = 0
  ExecCap = 4
  Amends = TRUE
  MaxRing = 1
  MaxDrops = 0
  MaxFails = 0
  Sweeps = FALSE
  MaxTimeouts = 0
  MaxEnded = 0
  MaxFaults = 0
INVARIANTS
  NoDoubleBooking
CHECK_DEADLOCK FALSE
