CONSTANTS
  Streams = {data, event}
  EventStreams = {event}
  HistoryDepth = 1
  Window = 1
  Start = 1
  Ends = {0}
  MaxTime = 2
  MaxDisturbances = 2
SPECIFICATION FairSpec
PROPERTIES FaultStopsTheGateway
CHECK_DEADLOCK FALSE
