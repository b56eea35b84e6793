CONSTANTS
  w1 = w1
  w2 = w2
  Withdrawals <- MCOneWithdrawal
  Window = 1
  MaxProofs = 1
  MaxFaults = 0
SPECIFICATION Spec
PROPERTIES
  EventuallyClaimed
