------------------------ MODULE MC_LegacyWithdrawal ------------------------
EXTENDS LegacyWithdrawal

MCWithdrawals == {"w1", "w2"}

====
