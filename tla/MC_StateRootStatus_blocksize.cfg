CONSTANTS
  MaxL1 = 4
  MaxOutputs = 3
  Steps <- MCSteps
  MaxFaults = 0
SPECIFICATION Spec
INVARIANTS
  BlockSizeIsGap
