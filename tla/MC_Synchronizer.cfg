CONSTANTS
  Chains <- MCChains
  MaxHeight = 4
  Depth = 1
  BufferSize = 2
  EventBlocks <- MCEventBlocks
  MaxAttempts = 2
  MaxDbFaults = 2
  MaxRpcFaults = 1
  MaxCrashes = 1
SPECIFICATION Spec
INVARIANTS
  TypeOK
  NoEventMissed
  EventsStoredOnce
PROPERTIES
  EventuallySynced
  PersistedSpec
