CONSTANTS
  Ids <- MCLateIds
  StartId = 3
  EpochRange = 3
  InOrder = TRUE
  MaxTimeouts = 0
  MaxFaults = 0
  MaxRestarts = 0
SPECIFICATION Spec
PROPERTIES
  EventuallyStored
