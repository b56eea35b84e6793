CONSTANTS
  d1 = d1
  d2 = d2
  w1 = w1
  Deposits = {d1, d2}
  Withdrawals = {w1}
  Tokens <- MCTokens
  MaxL1 = 2
  MaxL2 = 2
  MaxRuns = 2
  MaxFaults = 0
  Null = Null
  None = None
SPECIFICATION Spec
INVARIANTS
  NoFalseAlarm
