SPECIFICATION FairSpec
CONSTANTS
  Configs <- ConnectorConfigs
  MaxFaults = 4
  MaxCloses = 2
INVARIANTS
  NeverWaitsForNothing
  LiveIsSubscribed
  CloseIsFinal
PROPERTIES
  OneSessionAtATime
  ComesBack
CHECK_DEADLOCK FALSE
