CONSTANTS
  StartingHeight = 0
  BlocksLimit = 2
  MaxHeight = 3
  LogBlocks = {1, 2, 3}
  DepositBlocks = {2}
  RelayL1Blocks = {3}
  Withdrawals = {"w1", "w2"}
  SentBlock <- MCSentBlock
  BridgeWithdrawals = {"w2"}
  RelayL2Blocks = {3}
  MaxRestarts = 1
SPECIFICATION Spec
PROPERTIES
  EventuallyProcessed
