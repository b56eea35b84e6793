--------------------------- MODULE MC_MantleDA ---------------------------
(* Three data stores, a window of two ids per tick.                        *)
EXTENDS MantleDA

MCIds == 1..3
\* Two data stores with ids above a configured start of 3.
MCLateIds == 4..5

====
