------------------------ MODULE MC_DepositLifecycle ------------------------
(* Deposits d1, d2, d3 in L1 transactions t1, t2, t3.                      *)
EXTENDS DepositLifecycle, TLC

CONSTANTS d1, d2, d3, t1, t2, t3

\* Two bridge deposits and one messenger deposit, each in a transaction of
\* its own.
MCDeposits == {d1, d2, d3}
MCTxOf == (d1 :> t1) @@ (d2 :> t2) @@ (d3 :> t3)
MCKind == (d1 :> "bridge") @@ (d2 :> "bridge") @@ (d3 :> "message")
\* Two bridge deposits.
MCBridgeDeposits == {d1, d2}
MCTxSeparate == (d1 :> t1) @@ (d2 :> t2)
MCBridgeKind == (d1 :> "bridge") @@ (d2 :> "bridge")
\* The same two bridge deposits made in one L1 transaction.
MCSameTx == (d1 :> t1) @@ (d2 :> t1)
\* A single messenger deposit.
MCMessageDeposit == {d3}
MCMessageTx == d3 :> t3
MCMessageKind == d3 :> "message"

====
