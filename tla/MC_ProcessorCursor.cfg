CONSTANTS
  SubProcs <- MCExact
  StartingHeight = 0
  BedrockHeight = 3
  BlocksLimit = 2
  MaxHeight = 5
  EventBlocks <- MCExactEvents
  LogBlocks <- MCLogBlocks
  MaxRestarts = 2
SPECIFICATION Spec
INVARIANTS
  TypeOK
  NoEventSkipped
  NoDuplicateRows
  ModeMatchesFork
PROPERTIES
  EventuallyIndexed
