CONSTANTS
  Withdrawals <- MCWithdrawals
  V1Sent <- MCWithdrawals
  MaxRestarts = 1
SPECIFICATION Spec
PROPERTIES
  ProofEventuallyApplied
