CONSTANTS
  w1 = w1
  w2 = w2
  Withdrawals <- MCWithdrawals
  Window = 1
  MaxProofs = 1
  MaxFaults = 0
SPECIFICATION Spec
SYMMETRY MCSymmetry
INVARIANTS
  ChainBacked
  RelatedProofApplied
