CONSTANTS
  SubProcs <- MCInitiatedL2
  StartingHeight = 0
  BedrockHeight = 3
  BlocksLimit = 2
  MaxHeight = 5
  EventBlocks <- MCAllEvents
  LogBlocks <- MCLogBlocks
  MaxRestarts = 1
SPECIFICATION Spec
INVARIANTS
  NoDuplicateRows
