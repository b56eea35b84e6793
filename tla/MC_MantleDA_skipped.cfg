CONSTANTS
  Ids <- MCIds
  StartId = 0
  EpochRange = 3
  InOrder = FALSE
  MaxTimeouts = 1
  MaxFaults = 0
  MaxRestarts = 0
SPECIFICATION Spec
INVARIANTS
  NoIdSkipped
