------------------------ MODULE MC_StateRootStatus ------------------------
EXTENDS StateRootStatus

MCSteps == {1, 2}

====
