SPECIFICATION Spec
CONSTANTS
  PoolCap = 2
  Sides = {"Buy"}
  Prices = {1, 2}
  MaxQty = 2
  MaxSeq = 2
  RingCap = 1
  AttemptMod = 1
  Execs = {}
  NoExec = NoExec
  ExecCap = 1
INVARIANTS
  TypeOK
  IdsSound
  OpenQtyIsLeaves
  PendingCountsEstimates
  EndingOrdersAreUnseen
  BestOwnIsBest
CHECK_DEADLOCK FALSE
