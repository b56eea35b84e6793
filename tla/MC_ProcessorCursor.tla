------------------------ MODULE MC_ProcessorCursor ------------------------
(* Chains of five blocks, a window of two headers, the fork at block 3.   *)
EXTENDS ProcessorCursor

MCLogBlocks == {1, 2, 3, 5}
MCExact == {"InitiatedL1", "InitiatedL2", "ProvenL1"}
\* Events at blocks 2, 3 and 5; the two split sub-procedures of MCExact
\* have theirs after the fork only: a legacy deposit panics the processor
\* (the legacy_deposit_crash run), and a legacy withdrawal row is invisible
\* to the restart aggregate (MC_ProcessorCursor_legacyrestart.cfg).
MCExactEvents == [s \in MCExact |-> IF s = "ProvenL1" THEN {2, 3, 5} ELSE {3, 5}]
MCLagging == {"FinalizedL2", "RollupMantleDA"}
MCFinalizedL2 == {"FinalizedL2"}
MCMantleDA == {"RollupMantleDA"}
MCInitiatedL2 == {"InitiatedL2"}
MCAllEvents == [s \in AllSubProcs |-> {2, 3, 5}]

=============================================================================
