CONSTANTS
  x1 = x1
  x2 = x2
  x3 = x3
  t1 = t1
  t2 = t2
  t3 = t3
  Withdrawals <- MCWithdrawals
  TxOf <- MCSameTx
  Sent <- MCSent
  Bridged <- MCBridged
SPECIFICATION Spec
CHECK_DEADLOCK FALSE
INVARIANTS
  InfoOnOwnRow
