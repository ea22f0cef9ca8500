---------------------------- MODULE MCDeployment ----------------------------
(* Two environments, one of which has a name that is spelled in two ways.  *)
EXTENDS Deployment

CONSTANTS prod, dev, a1, r1

MCNames     == {"prod", "Prod", "dev"}
MCIdOf      == [n \in MCNames |-> IF n = "dev" THEN dev ELSE prod]
MCAgentName == [i \in {prod, dev} |-> IF i = dev THEN "dev" ELSE "prod"]
MCAppOf     == [r \in Resources |-> a1]
=============================================================================
