CONSTANTS
  d1 = d1
  d2 = d2
  d3 = d3
  t1 = t1
  t2 = t2
  t3 = t3
  Deposits <- MCBridgeDeposits
  TxOf <- MCSameTx
  Kind <- MCBridgeKind
  MaxFaults = 0
  MaxRescans = 0
SPECIFICATION Spec
INVARIANTS
  MessageHashIndexed
