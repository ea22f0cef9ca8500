-------------------------- MODULE OperationStatus --------------------------
(***************************************************************************)
(* What the async machinery promises a client that polls an operation      *)
(* status: an operation is accepted, goes through provisioning, reaches a  *)
(* terminal state, and never leaves the terminal states again.  Which      *)
(* terminal state is shown may still change once: the worker and the       *)
(* environment agent both write a verdict (see AsyncOperations).           *)
(***************************************************************************)
CONSTANT Operations   (* ids of async operations *)

VARIABLE state        (* the ProvisioningState of every operation *)

(* pkg/api/v1/types.go; "None" stands for an id with no status record. *)
TerminalStates     == {"Succeeded", "Failed"}
ProvisioningStates == {"None", "Accepted", "Provisioning"} \cup TerminalStates

Init == state = [o \in Operations |-> "None"]

Accept(o) ==
    /\ state[o] = "None"
    /\ state' = [state EXCEPT ![o] = "Accepted"]

Provision(o) ==
    /\ state[o] = "Accepted"
    /\ state' = [state EXCEPT ![o] = "Provisioning"]

Conclude(o) ==
    /\ state[o] \in {"Provisioning"} \cup TerminalStates
    /\ \E verdict \in TerminalStates : state' = [state EXCEPT ![o] = verdict]

Next == \E o \in Operations : Accept(o) \/ Provision(o) \/ Conclude(o)

Spec == Init /\ [][Next]_state
=============================================================================
