SPECIFICATION FairSpec
CONSTANTS
  MaxMsg = 3
  MaxPkt = 2
  HistCap = 2
  MaxNet = 2
  MaxHeld = 1
  FitLen = 1
  MaxReq = 2
  MaxAttempts = 1
  GapTicks = 1
  ReqTicks = 1
  Rerequests = {TRUE, FALSE}
  Glimpses = {TRUE, FALSE}
  Unwanted = {2}
  RecCap = 1
  MaxDown = 1
  MaxErrors = 1
  MaxFaults = 1
INVARIANTS
  NothingMissedOrRepeated
  OnlyTheMissingIsGivenUp
  EndComesLast
  LiveBooksAreExact
PROPERTIES
  FeedSettles
CHECK_DEADLOCK FALSE
