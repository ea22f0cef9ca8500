------------------------------- MODULE Client -------------------------------
(***************************************************************************)
(* The commands of the CLI (cmd/ryobi) against the control plane: one user *)
(* who runs deploy, catalog deploy, app delete and resource delete, with   *)
(* or without --wait.  A command makes its requests one after another and  *)
(* then polls: not the operations it was given, but the resource records,  *)
(* whose state may be that of another request.                             *)
(*                                                                         *)
(* The steps of ryobid and of the agents are those of ControlPlane; every  *)
(* request a command makes is a request there.  Commands that only print   *)
(* what a GET returns change nothing and are left out, as are those whose  *)
(* records ControlPlane does not have (env, placement).                    *)
(***************************************************************************)
EXTENDS ControlPlane

CONSTANTS
    Unreliable     (* may an answer of ryobid fail to reach the CLI?        *)

ASSUME ClientAssumption == Unreliable \in BOOLEAN

VARIABLE cli       (* the command that is being run, and its variables      *)

allVars == <<vars, cli>>

DeployCommands == {"deploy", "catalogDeploy"}
DeleteCommands == {"appDelete", "resourceDelete"}
Commands       == DeployCommands \cup DeleteCommands

Cli == [cmd     : Commands \cup {"none"},
        pc      : {"idle", "app", "list", "requests", "answer"},
        wait    : BOOLEAN,                  (* --wait                       *)
        todo    : SUBSET Resources,         (* requests still to be made    *)
        op      : SomeOp,                   (* the one being made           *)
        polled  : SUBSET Resources,         (* paths to wait for            *)
        failed  : BOOLEAN,                  (* did a wait report an error?  *)
        mine    : [Resources -> SomeOp]]    (* history: accepted requests   *)

NoCommand == [cmd |-> "none", pc |-> "idle", wait |-> FALSE, todo |-> {},
              op |-> NoOp, polled |-> {}, failed |-> FALSE,
              mine |-> [r \in Resources |-> NoOp]]

CliTypeOK ==
    /\ TypeOK
    /\ cli \in Cli
    /\ cli.cmd = "none" => cli = NoCommand
    /\ cli.pc = "answer" <=> cli.op # NoOp

CliInit == Init /\ cli = NoCommand

-----------------------------------------------------------------------------
(* The user starts a command, a polite one when nothing is under way.  The *)
(* deployments put the application first, app delete lists its resources,  *)
(* resource delete has one to delete.                                      *)
Invoke(cmd, wait) ==
    /\ cli.cmd = "none"
    /\ "impolite" \in Faults \/ \A r \in Resources : Settled(r)
    /\ \/ /\ cmd # "resourceDelete"
          /\ cli' = [NoCommand EXCEPT !.cmd = cmd, !.wait = wait,
                       !.pc = IF cmd = "appDelete" THEN "list" ELSE "app"]
       \/ /\ cmd = "resourceDelete" /\ ~wait
          /\ \E r \in Resources :
               cli' = [NoCommand EXCEPT !.cmd = cmd, !.pc = "requests", !.todo = {r}]
    /\ UNCHANGED vars

(* An error of the client ends the command.                                *)
GivesUp == Unreliable /\ cli' = NoCommand

PutsApplication ==
    /\ cli.pc = "app"
    /\ \/ /\ PutApplication
          /\ GivesUp \/ cli' = [cli EXCEPT !.pc = "requests", !.todo = Resources]
       \/ GivesUp /\ UNCHANGED vars

(* The answers to GET: the resources there are, and whether one is there.  *)
Listed   == {r \in Resources : record[r].exists}
Found(r) == record[r].exists

(* Whatever the answers to its DELETEs, app delete waits for all it lists. *)
ListsResources ==
    /\ cli.pc = "list"
    /\ \/ cli' = [cli EXCEPT !.pc = "requests", !.todo = Listed, !.polled = Listed]
       \/ GivesUp
    /\ UNCHANGED vars

Method == IF cli.cmd \in DeployCommands THEN "PUT" ELSE "DELETE"

SendsRequest(o) ==
    LET r == request[o].resource IN
    /\ cli.pc = "requests"
    /\ r \in cli.todo /\ request[o].method = Method
    /\ BeginRequest(o)
    /\ cli' = [cli EXCEPT !.pc = "answer", !.op = o, !.todo = @ \ {r}]

PutsResource(o)    == Method = "PUT" /\ SendsRequest(o)
DeletesResource(o) == Method = "DELETE" /\ SendsRequest(o)

(* 202: a deployment will wait for the resource.                           *)
IsAccepted ==
    LET r == request[cli.op].resource IN
    /\ cli.pc = "answer" /\ request[cli.op].pc = "accepted"
    /\ cli' = [cli EXCEPT !.pc = "requests", !.op = NoOp,
                 !.mine[r] = IF Method = "PUT" THEN cli.op ELSE @,
                 !.polled = IF Method = "PUT" THEN @ \cup {r} ELSE @]
    /\ UNCHANGED vars

(* 204, a conflict, or no answer, after which the request may go on.       *)
(* deploy stops at an error, the other commands print it and go on.        *)
IsRefused ==
    LET error == request[cli.op].pc # "ended" \/ Method = "PUT" IN
    /\ cli.pc = "answer"
    /\ request[cli.op].pc = "ended" \/ Unreliable
    /\ cli' = IF error /\ cli.cmd \in {"deploy", "resourceDelete"}
              THEN NoCommand
              ELSE [cli EXCEPT !.pc = "requests", !.op = NoOp]
    /\ UNCHANGED vars

-----------------------------------------------------------------------------
(* The waits look at the record of the resource, every two seconds.  One   *)
(* that is not there is polled on by the first, and is what the second     *)
(* waits for.                                                              *)
Waits(r) == /\ cli.pc = "requests" /\ cli.todo = {}
            /\ cli.wait /\ r \in cli.polled

SaysFailed(r) == Found(r) /\ record[r].state = "Failed"

WaitForResource(r) ==
    Found(r) /\ record[r].state \in {"Succeeded", "Failed"}

WaitForResourceDeletion(r) == ~Found(r) \/ SaysFailed(r)

Polls(r) ==
    /\ Waits(r)
    /\ IF Method = "PUT" THEN WaitForResource(r) ELSE WaitForResourceDeletion(r)
    /\ cli' = [cli EXCEPT !.polled = @ \ {r}, !.failed = @ \/ SaysFailed(r)]
    /\ UNCHANGED vars

(* After ten minutes.                                                      *)
TimesOut(r) ==
    /\ Waits(r)
    /\ cli' = [cli EXCEPT !.polled = @ \ {r}, !.failed = TRUE]
    /\ UNCHANGED vars

(* The end of a command.  app delete deletes the application now, whether  *)
(* or not its resources could be deleted.                                  *)
Ends ==
    /\ cli.pc = "requests" /\ cli.todo = {}
    /\ cli.wait => cli.polled = {}
    /\ cli' = NoCommand
    /\ IF cli.cmd = "appDelete" /\ app
       THEN DeleteApplication \/ (Unreliable /\ UNCHANGED vars)
       ELSE UNCHANGED vars

-----------------------------------------------------------------------------
CliStep ==
    \/ \E cmd \in Commands, wait \in BOOLEAN : Invoke(cmd, wait)
    \/ PutsApplication \/ ListsResources
    \/ \E o \in Operations : PutsResource(o) \/ DeletesResource(o)
    \/ IsAccepted \/ IsRefused
    \/ \E r \in Resources : Polls(r) \/ TimesOut(r)
    \/ Ends

(* What ControlPlane does without a client.                                *)
ServerStep ==
    \/ \E o \in Operations : PutSave(o) \/ QueueOperation(o) \/ EnqueueOperation(o)
    \/ WorkerOutside \/ VisibilityExpires \/ DispatcherStep
    \/ \E e \in Envs : Disconnect(e) \/ Reconnect(e) \/ Crash(e)
    \/ \E e \in Envs, c \in Calls : Receive(e, c)
    \/ \E c \in Calls : Execute(c) \/ LoseReport(c) \/ ReportStep(c)
    \/ \E r \in Resources : CheckHealth(r) \/ ReportStatusGet(r) \/ ReportStatusSave(r)

CliNext == CliStep \/ (ServerStep /\ UNCHANGED cli)

CliSpec == CliInit /\ [][CliNext]_allVars

-----------------------------------------------------------------------------
(* A deploy that waits and ends without an error is true to its word: every*)
(* resource was accepted, and what this very command asked for is live.    *)
(* The state of an earlier deployment must not be taken for its own.       *)
SaidDeployedIsLive ==
    [][ Ends /\ cli.cmd = "deploy" /\ cli.wait /\ ~cli.failed =>
          \A r \in Resources :
            /\ cli.mine[r] # NoOp
            /\ \E e \in Envs : infra[e][r] = cli.mine[r] ]_allVars

(* A wait for a deletion that ends because the resource is not found is    *)
(* not fooled: nothing of it is left in any environment.                   *)
NotFoundIsGone ==
    [][ \A r \in Resources :
          ( /\ cli.cmd = "appDelete" /\ cli'.cmd = "appDelete"
            /\ r \in cli.polled \ cli'.polled /\ ~cli'.failed
            /\ ~record[r].exists )
            => \A e \in Envs : infra[e][r] = NoOp ]_allVars
=============================================================================
