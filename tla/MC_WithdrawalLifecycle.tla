----------------------- MODULE MC_WithdrawalLifecycle -----------------------
(* Two withdrawals, a two-tick challenge window, one proof per withdrawal  *)
(* and one failed statement.                                               *)
EXTENDS WithdrawalLifecycle, TLC

CONSTANTS w1, w2

MCWithdrawals == {w1, w2}
MCSymmetry == Permutations(MCWithdrawals)
MCOneWithdrawal == {w1}

=============================================================================
