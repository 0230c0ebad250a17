SPECIFICATION Spec
CONSTANTS
  Networks = {n1, n2}
  Addresses = {a1, a2}
  BlockRetryLimit = 1
  MaxBlocks = 3
  MaxMonitors = 3
  From = 2
  MaxHeight = 6
  MaxFailures = 2
  Codes = {1004, 1005}
  MaxLayers = 6
INVARIANTS StartedAsAsked OneConnection ErrorsKept
PROPERTIES ErrorEnds NoBlockSkipped MonitorsProceed
CHECK_DEADLOCK FALSE
