CONSTANTS
  Ids <- MCIds
  StartId = 0
  EpochRange = 3
  InOrder = TRUE
  MaxTimeouts = 0
  MaxFaults = 0
  MaxRestarts = 1
SPECIFICATION Spec
INVARIANTS
  NoIdSkipped
PROPERTIES
  EventuallyStored
