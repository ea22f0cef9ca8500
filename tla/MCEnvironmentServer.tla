------------------------ MODULE MCEnvironmentServer ------------------------
(* Model values for checking EnvironmentServer with TLC.                   *)
EXTENDS EnvironmentServer, TLC

CONSTANTS a1, a2

OneAgent  == {a1}
TwoAgents == {a1, a2}

Symmetry == Permutations(Agents)
=============================================================================
