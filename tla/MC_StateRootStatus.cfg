CONSTANTS
  MaxL1 = 4
  MaxOutputs = 3
  Steps <- MCSteps
  MaxFaults = 1
SPECIFICATION Spec
INVARIANTS
  TypeOK
  StatusBacked
PROPERTIES
  IndexRefinement
  EventuallyFinalizedStatus
