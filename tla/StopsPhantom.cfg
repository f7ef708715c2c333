CONSTANTS
  Spring = 145
  Autumn = 313
  Winter = 1
  MicroStopThreshold = 2
  InterruptionFloor = 1
  LeadIn = 2
  History = 4
  StopLimit = 2
  PointLimit = 1
  LiveWithin = 3
  Classes = {"scratch", "dent"}
  InspectingStation = "S3"
  SerialLimit = 1
  SampleLimit = 1
  BucketHours = 2
  MinimumSample = 2
  Alpha <- MCAlpha
  Correction = "benjamini_hochberg"
  Scenarios <- MCScenarios
SPECIFICATION Spec
INVARIANTS EveryListedIdOpens
CHECK_DEADLOCK FALSE
