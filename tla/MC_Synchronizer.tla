------------------------- MODULE MC_Synchronizer -------------------------
(* Both chains, four blocks each, a confirmation depth of one block and   *)
(* batches of two headers.                                                *)
EXTENDS Synchronizer

MCChains == {"L1", "L2"}
\* L1 logs in blocks 1 and 3; L2 logs in block 2.
MCEventBlocks == [c \in MCChains |-> IF c = "L1" THEN {1, 3} ELSE {2}]

====
