SPECIFICATION FairSpec
CHECK_DEADLOCK FALSE
CONSTANTS
    Slack = 1
    Settle = 1
    Limits <- MCLimits
    WindowPages = 2
    MaxPages = 4
    MaxNow = 4
    MaxRows = 3
    MaxBurst = 1
    MaxEvents = 2
INVARIANTS
    NothingBelowWatermark
    HandedOutOnce
    ExactIsExact
    WaitsForAReplay
PROPERTIES
    SnapshotFollows
