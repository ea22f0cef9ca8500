---------------------------- MODULE MCPlacement ----------------------------
(* Environments and rules for checking Placement with TLC: environments    *)
(* that tie, are full, free, cheap or dear, at home or abroad; a type in   *)
(* two spellings; rules that conflict.                                     *)
EXTENDS Placement, TLC

CONSTANTS n1, n2, n3, home, abroad, gpu, any

MCNames   == {n1, n2, n3}
MCTypes   == {"Containers", "containers"}
MCFold    == [t \in MCTypes |-> "containers"]
MCRegions == {home, abroad}

Env(recipes, region, capabilities, cost, maxReplicas) ==
    [recipes |-> recipes, region |-> region, capabilities |-> capabilities,
     cost |-> cost, maxReplicas |-> maxReplicas]

MCStatics == { Env({"Containers"}, home, {gpu}, 0, 2),
               Env({"Containers", "containers"}, abroad, {}, 2, 0),
               Env({"containers"}, home, {}, 5, 2),
               Env({"Containers", "containers"}, abroad, {gpu}, 1, 0) }

MCDynamics == { [cpu |-> 0, memory |-> 0, running |-> 0],
                [cpu |-> 3, memory |-> 1, running |-> 2] }

Body(type, region, capabilities, cheap, roomy, priority) ==
    [type |-> type, region |-> region, capabilities |-> capabilities,
     cheap |-> cheap, roomy |-> roomy, priority |-> priority]

MCRuleBodies == { Body("Containers", home, {}, FALSE, TRUE, 10),
                  Body("containers", any, {}, TRUE, FALSE, 1),
                  Body("Containers", any, {gpu}, TRUE, TRUE, 1) }

Symmetry == Permutations(Names)
=============================================================================
