CONSTANTS
  Settings <- MCSettings
  Draw <- MCDraw
  Propensity <- MCPropensity
  Depth = 4
  CatchupSpeed = 3
  BatchSize = 5
  QueueCap = 2
  Capacity = 1
  Quiet = 2
  Ceiling = 4
  Scenarios = {7}
  Requests <- MCRequests
  FalseRejects = {"crack"}
  MaxWall = 2
  MaxInstant = 5
  MaxInjections = 1
  MaxBoots = 2
SPECIFICATION FairSpec
INVARIANTS TruthFollowsTheLog VerdictIsOnItsOwnTruth ReconcileIsRight ReadsAgreeWithTheSchedule
PROPERTIES CatchupEnds
CHECK_DEADLOCK FALSE
