SPECIFICATION FairSpec
CONSTANTS
  Levels = 2
  Ladders <- MCLadders
  Pool = 3
  MaxTokens = 1
  MaxQuotes = 2
  MaxEvents = 2
INVARIANTS
  OneOrderPerLevel
  UnwantedQuotesGo
  HeldBackIsQueued
PROPERTIES
  PulledQuotesGo
CHECK_DEADLOCK FALSE
