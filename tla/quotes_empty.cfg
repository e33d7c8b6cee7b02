SPECIFICATION Spec
CONSTANTS
  Levels = 1
  Ladders <- MCLaddersAndNone
  Pool = 2
  MaxTokens = 1
  MaxQuotes = 2
  MaxEvents = 1
INVARIANTS
  UnwantedQuotesGo
CHECK_DEADLOCK FALSE
