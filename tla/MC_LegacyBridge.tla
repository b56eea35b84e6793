------------------------- MODULE MC_LegacyBridge -------------------------
(* Legacy chains of three blocks and a window of two headers: a deposit   *)
(* in L1 block 2, two withdrawals in L2 blocks 1 and 2, one of them a      *)
(* standard-bridge withdrawal, and a deposit relay in L2 block 3.          *)
EXTENDS LegacyBridge

MCSentBlock == [w \in {"w1", "w2"} |-> IF w = "w1" THEN 1 ELSE 2]
=============================================================================
