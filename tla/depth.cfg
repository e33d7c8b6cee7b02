SPECIFICATION FairSpec
CONSTANTS
    Traits = {"spot", "futures"}
    MaxBuffered = 2
    MaxUpd = 4
    MaxBatch = 2
    MaxLost = 1
    MaxDown = 1
    MaxResync = 1
    MaxFail = 1
    MaxFull = 1
    MaxFaults = 2
INVARIANT TypeOK
INVARIANT SyncedBookIsExact
INVARIANT RepairUnderWay
PROPERTY BookComesBack
CHECK_DEADLOCK FALSE
