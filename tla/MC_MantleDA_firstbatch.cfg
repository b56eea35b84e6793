CONSTANTS
  Ids <- MCIds
  StartId = 0
  EpochRange = 3
  InOrder = TRUE
  MaxTimeouts = 0
  MaxFaults = 1
  MaxRestarts = 0
SPECIFICATION Spec
INVARIANTS
  NoIdSkipped
