SPECIFICATION BybitSpec
CONSTANTS
  PoolCap = 1
  Sides = {"Buy"}
  Prices = {1}
  MaxQty = 1
  MaxSeq = 2
  RingCap = 2
  AttemptMod = 1
  Execs = {1, 2, 3, 4}
  NoExec = 0
  ExecCap = 4
  Amends = TRUE
  MaxRing = 1
  MaxDrops = 1
  MaxFails = 1
  Sweeps = FALSE
  MaxTimeouts = 0
  MaxEnded = 1
  MaxFaults = 1
INVARIANTS
  RestingOrdersAreTracked
CHECK_DEADLOCK FALSE
