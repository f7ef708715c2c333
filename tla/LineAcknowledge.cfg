CONSTANTS
  N = 3
  Capacity = 1
  Count = 2
  Takts = {4, 6}
  Monitored = {2}
  Needed = 2
  Delays = {6}
  Trails = {2}
  Leads = {7}
  MaxPresses = 1
  Holdable = {}
  Horizon = 14
SPECIFICATION Spec
INVARIANTS AcknowledgedAfterItIsRaised
