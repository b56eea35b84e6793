------------------------- MODULE MC_L2WithdrawalInfo -------------------------
(* Bridge withdrawals x1, x2 and a messenger withdrawal x3, in L2          *)
(* transactions t1, t2, t3.                                                *)
EXTENDS L2WithdrawalInfo, TLC

CONSTANTS x1, x2, x3, t1, t2, t3

MCWithdrawals == {x1, x2, x3}
MCSent == {x1, x2, x3}
MCBridged == {x1, x2}
\* Each withdrawal in a transaction of its own.
MCTxSeparate == (x1 :> t1) @@ (x2 :> t2) @@ (x3 :> t3)
\* The two bridge withdrawals made in one L2 transaction.
MCSameTx == (x1 :> t1) @@ (x2 :> t1) @@ (x3 :> t2)

====
