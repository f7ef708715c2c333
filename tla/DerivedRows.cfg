CONSTANTS
  States = {"Execute", "Suspended", "Aborting"}
  First = "Execute"
  Suspended = "Suspended"
  Transitions = 3
  DrainBatchSize = 2
  MaxDeliveries = 4
  MaxIds = 2
SPECIFICATION Spec
INVARIANTS FromStateIsRight AckedIsDerived NothingIsInvented CachedIdIsCommitted
CHECK_DEADLOCK FALSE
