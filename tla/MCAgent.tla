------------------------------ MODULE MCAgent ------------------------------
(* Two resources whose ids sanitizeName gives the same directory.          *)
EXTENDS Agent

CONSTANTS r1, r2, d1

OneDir == [r \in Resources |-> d1]
MostlyOne == [r \in Resources |-> IF r = r1 THEN 3 ELSE 1]
=============================================================================
