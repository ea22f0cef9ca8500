----------------------------- MODULE Deployment -----------------------------
(***************************************************************************)
(* The controllers that deploy and delete resources in the server's own    *)
(* process (DeployResource, DeleteResource and the recipe engine below     *)
(* them), beside the requests of Records.  The worker runs one operation   *)
(* at a time.  A controller reads the resource, its application and that   *)
(* one's environment, each by a call of its own, runs terraform and writes *)
(* the outcome, while clients PUT and DELETE all of them.                  *)
(*                                                                         *)
(* ryobid registers the dispatcher instead of them; these are what a       *)
(* program without agents would register.  The two handlers of resources   *)
(* and the queue, whose steps ControlPlane and AsyncOperations have, are   *)
(* one step here.  A run of terraform is one step: the worker never makes  *)
(* two at a time.                                                          *)
(***************************************************************************)
EXTENDS Records

CONSTANTS
    Resources, AppOf,  (* resources and their applications                  *)
    MaxPuts            (* bound: operations accepted                        *)

ASSUME DeploymentAssumption ==
    /\ AppOf \in [Resources -> Apps]
    /\ MaxPuts \in Nat

VARIABLES
    resource,      (* resource -> record                                    *)
    puts,          (* operations accepted; a PUT's number is its body       *)
    queue,         (* operations the worker has not taken                   *)
    worker,        (* the controller that runs                              *)
    infra          (* resource -> what terraform has made of it             *)

deployVars == <<resource, puts, queue, worker, infra>>
vars == <<recordVars, deployVars>>

Specs    == 0..MaxPuts                                        (* 0 is none  *)
Resource == [exists : BOOLEAN, spec : Specs, etag : Nat,
             state : {"None", "Succeeded", "Failed"}]
NoResource == [exists |-> FALSE, spec |-> 0, etag |-> 0, state |-> "None"]
Operation  == [method : {"PUT", "DELETE"}, resource : Resources]

(* whole: did the last run of terraform succeed?                           *)
Infra    == [spec : Specs, whole : BOOLEAN]
Nothing  == [spec |-> 0, whole |-> TRUE]
IdleWorker == [pc |-> "idle"]

TypeOK ==
    /\ RecordsTypeOK
    /\ resource \in [Resources -> Resource]
    /\ puts \in 0..MaxPuts
    /\ queue \in Seq(Operation)
    /\ worker.pc \in {"idle", "app", "env", "engine", "fail", "succeed", "remove"}
    /\ worker # IdleWorker => worker.op \in Operation /\ worker.read \in Resource
    /\ worker.pc \in {"env", "engine", "succeed"} => worker.read.exists
    /\ infra \in [Resources -> Infra]

Init ==
    /\ RecordsInit
    /\ resource = [r \in Resources |-> NoResource]
    /\ puts = 0
    /\ queue = <<>>
    /\ worker = IdleWorker
    /\ infra = [r \in Resources |-> Nothing]

-----------------------------------------------------------------------------
ResourceFromJSON(spec) == [NoResource EXCEPT !.spec = spec]

(* DefaultAsyncPut and DefaultAsyncDelete: the record as the body has it,  *)
(* without a status, and an operation in the queue.                        *)
Accepts(m, r) ==
    /\ puts < MaxPuts
    /\ puts' = puts + 1
    /\ m = "DELETE" => resource[r].exists
    /\ resource' = IF m = "DELETE" THEN resource
                   ELSE Saves(resource, r, ResourceFromJSON(puts + 1))
    /\ queue' = Append(queue, [method |-> m, resource |-> r])
    /\ UNCHANGED <<recordVars, worker, infra>>

Deploys == worker.op.method = "PUT"
Goes(pc) == worker' = [worker EXCEPT !.pc = pc]

MutantGetsResource ==
    LET op == Head(queue) IN
    /\ worker = IdleWorker /\ queue # <<>>
    /\ queue' = Tail(queue)
    /\ worker' = [pc |-> "app", op |-> op, read |-> resource[op.resource],
                  seen |-> [app |-> app, env |-> env]]
    /\ UNCHANGED <<recordVars, resource, puts, infra>>

(* Run of either controller.  A resource that is gone ends it.             *)
GetsResource ==
    LET op == Head(queue)
        r  == resource[op.resource]
    IN
    /\ worker = IdleWorker /\ queue # <<>>
    /\ queue' = Tail(queue)
    /\ worker' = IF r.exists THEN [pc |-> "app", op |-> op, read |-> r,
                                   seen |-> [app |-> app, env |-> env]]
                             ELSE IdleWorker
    /\ UNCHANGED <<recordVars, resource, puts, infra>>

(* resolveRecipe.  Without a recipe a deployment has failed, a deletion    *)
(* goes on to the record.                                                  *)
Unresolved == Goes(IF Deploys THEN "fail" ELSE "remove")

GetsApplication ==
    LET a == app[AppOf[worker.op.resource]] IN
    /\ worker.pc = "app"
    /\ IF a.exists /\ a.names # NoName
       THEN worker' = [pc |-> "env", op |-> worker.op, read |-> worker.read,
                       seen |-> worker.seen, env |-> IdOf[a.names]]
       ELSE Unresolved
    /\ UNCHANGED <<recordVars, resource, puts, queue, infra>>

GetsEnvironment ==
    LET e == env[worker.env] IN
    /\ worker.pc = "env"
    /\ IF e.exists /\ e.recipe THEN Goes("engine") ELSE Unresolved
    /\ UNCHANGED <<recordVars, resource, puts, queue, infra>>

Becomes(new) == infra' = [infra EXCEPT ![worker.op.resource] = new]
Damaged(spec) == [spec |-> spec, whole |-> FALSE]

(* No working directory, no configuration, or terraform init fails.        *)
NotRun == UNCHANGED infra

MutantExecutes ==
    /\ worker.pc = "engine" /\ Deploys
    /\ \/ Becomes([spec |-> worker.read.spec, whole |-> TRUE])
       \/ NotRun
    /\ Goes("succeed")
    /\ UNCHANGED <<recordVars, resource, puts, queue>>

(* engine.Execute: terraform init and apply.                               *)
Executes ==
    /\ worker.pc = "engine" /\ Deploys
    /\ \/ Becomes([spec |-> worker.read.spec, whole |-> TRUE]) /\ Goes("succeed")
       \/ /\ Becomes(Damaged(worker.read.spec)) \/ NotRun
          /\ Goes("fail")
    /\ UNCHANGED <<recordVars, resource, puts, queue>>

MutantDestroys ==
    /\ worker.pc = "engine" /\ ~Deploys
    /\ \/ Becomes(Nothing)
       \/ Becomes(Damaged(infra[worker.op.resource].spec))
    /\ Goes("remove")
    /\ UNCHANGED <<recordVars, resource, puts, queue>>

(* engine.Delete: terraform init and destroy.  If it fails the controller  *)
(* ends and leaves the record as it is.                                    *)
Destroys ==
    /\ worker.pc = "engine" /\ ~Deploys
    /\ \/ Becomes(Nothing) /\ Goes("remove")
       \/ /\ Becomes(Damaged(infra[worker.op.resource].spec)) \/ NotRun
          /\ worker' = IdleWorker
    /\ UNCHANGED <<recordVars, resource, puts, queue>>

(* The outcome of a deployment; a save that meets a newer record is lost.  *)
SavesOutcome ==
    LET r == worker.op.resource IN
    /\ worker.pc \in {"succeed", "fail"}
    /\ resource' = IF MaySave(resource, r, worker.read)
                   THEN Saves(resource, r, [worker.read EXCEPT !.state =
                            IF worker.pc = "succeed" THEN "Succeeded" ELSE "Failed"])
                   ELSE resource
    /\ worker' = IdleWorker
    /\ UNCHANGED <<recordVars, puts, queue, infra>>

(* The end of a deletion, without an ETag.                                 *)
RemovesRecord ==
    /\ worker.pc = "remove"
    /\ resource' = Removes(resource, worker.op.resource)
    /\ worker' = IdleWorker
    /\ UNCHANGED <<recordVars, puts, queue, infra>>

WorkerStep ==
    \/ GetsResource \/ GetsApplication \/ GetsEnvironment
    \/ Executes \/ Destroys \/ SavesOutcome \/ RemovesRecord

Next ==
    \/ RecordsNext /\ UNCHANGED deployVars
    \/ \E m \in {"PUT", "DELETE"}, r \in Resources : Accepts(m, r)
    \/ WorkerStep

Spec == Init /\ [][Next]_vars

-----------------------------------------------------------------------------
(* DeleteResource takes the record away although nothing was destroyed     *)
(* when it finds no recipe.  It may do so only if it was right: if the     *)
(* resource's application and the environment it names, with its recipe,   *)
(* stood all the while, what it removes the record of is destroyed.  Where *)
(* they were put, registered or deleted under it, nothing is promised.     *)
RemovedIsDestroyed ==
    [][ RemovesRecord =>
          LET r == worker.op.resource
              a == app[AppOf[r]]
              e == env[IdOf[a.names]]
          IN  \/ infra[r] = Nothing
              \/ a # worker.seen.app[AppOf[r]]
              \/ ~a.exists \/ a.names = NoName
              \/ e # worker.seen.env[IdOf[a.names]]
              \/ ~e.exists \/ ~e.recipe ]_vars

(* A record that says Succeeded says it of its own spec: that is what      *)
(* terraform applied, not the spec a PUT has replaced while it ran, and    *)
(* what there is now is of it or was left of it by a failed run.           *)
SucceededIsApplied ==
    \A r \in Resources :
        resource[r].exists /\ resource[r].state = "Succeeded" =>
            \/ infra[r].spec = resource[r].spec
            \/ worker.pc = "remove" /\ worker.op.resource = r
=============================================================================
