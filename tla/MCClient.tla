------------------------------ MODULE MCClient ------------------------------
(* An application of one resource, requests enough for two commands.       *)
EXTENDS Client, TLC

CONSTANTS o1, o2, r1, e1, c1, c2

TwoOperations == {o1, o2}
OneResource   == {r1}
OneEnv        == {e1}
TwoCalls      == {c1, c2}

(* Operations, and the agents' goroutines, are interchangeable.            *)
Symmetry == Permutations(Operations) \cup Permutations(Calls)
=============================================================================
