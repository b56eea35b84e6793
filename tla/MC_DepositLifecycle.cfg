CONSTANTS
  d1 = d1
  d2 = d2
  d3 = d3
  t1 = t1
  t2 = t2
  t3 = t3
  Deposits <- MCDeposits
  TxOf <- MCTxOf
  Kind <- MCKind
  MaxFaults = 1
  MaxRescans = 1
SPECIFICATION Spec
INVARIANTS
  TypeOK
  RelatedBacked
PROPERTIES
  RelayEventuallyRelated
