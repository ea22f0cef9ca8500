--------------------------- MODULE MCControlPlane ---------------------------
(* Model values and scenarios for checking ControlPlane with TLC.          *)
EXTENDS ControlPlane, TLC

CONSTANTS o1, o2, o3, r1, r2, e1, e2, c1, c2, c3

TwoOperations   == {o1, o2}
ThreeOperations == {o1, o2, o3}
OneResource     == {r1}
TwoResources    == {r1, r2}
OneEnv          == {e1}
TwoEnvs         == {e1, e2}
TwoCalls        == {c1, c2}
ThreeCalls      == {c1, c2, c3}

(* Operations, and the agents' goroutines, are interchangeable.            *)
Symmetry == Permutations(Operations) \cup Permutations(Calls)
=============================================================================
