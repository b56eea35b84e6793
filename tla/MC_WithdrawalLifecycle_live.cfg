CONSTANTS
  w1 = w1
  w2 = w2
  Withdrawals <- MCOneWithdrawal
  Window = 2
  MaxProofs = 2
  MaxFaults = 1
SPECIFICATION Spec
INVARIANTS
  TypeOK
PROPERTIES
  EventuallyProven
