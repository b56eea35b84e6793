CONSTANTS
  Chains <- MCChains
  MaxHeight = 3
  Depth = 1
  BufferSize = 2
  EventBlocks <- MCEventBlocks
  MaxAttempts = 2
  MaxDbFaults = 0
  MaxRpcFaults = 1
  MaxCrashes = 0
SPECIFICATION Spec
PROPERTIES
  FatalOnlyAfterRetries
