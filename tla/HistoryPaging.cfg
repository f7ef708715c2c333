CONSTANTS
  Span = 6
  MaxPerInstant = 2
  MaxRows = 5
  PageSizes = {2, 5}
  ServerCaps = {3, 6}
  Ceiling = 4
  BackfillWindow = 4
  MinimumBackfillWindow = 1
SPECIFICATION FairSpec
INVARIANTS DoneIsComplete LedgerTilesTheRun 
PROPERTIES RunEnds
CHECK_DEADLOCK FALSE
