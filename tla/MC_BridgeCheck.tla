--------------------------- MODULE MC_BridgeCheck ---------------------------
(* One bridged token, two deposits and one withdrawal.                     *)
EXTENDS BridgeCheck

MCTokens == <<"ETH">>

====
