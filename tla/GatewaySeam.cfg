CONSTANTS
  Streams = {data, event}
  EventStreams = {event}
  HistoryDepth = 1
  Window = 1
  Start = 1
  Ends = {0}
  MaxTime = 3
  MaxDisturbances = 0
SPECIFICATION Spec
INVARIANTS BackfillClosesTheGap
CHECK_DEADLOCK FALSE
