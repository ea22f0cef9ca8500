------------------------- MODULE MCAsyncOperations -------------------------
(* Model values for checking AsyncOperations with TLC.                 *)
EXTENDS AsyncOperations

CONSTANTS o1, o2, o3, c1, c2

MCOperations == {o1, o2, o3}
MCRegistered == {o1, o2}
MCCalls      == {c1, c2}
=============================================================================
