CONSTANTS
  Streams = {data, event}
  EventStreams = {event}
  HistoryDepth = 1
  Window = 1
  Start = 3
  Ends = {0, 1}
  MaxTime = 4
  MaxDisturbances = 2
SPECIFICATION FairSpec
INVARIANTS  SubscribedOnlyPastCatchUp
PROPERTIES ReconnectIsAnswered
CHECK_DEADLOCK FALSE
