------------------------------- MODULE Agent -------------------------------
(***************************************************************************)
(* Inside one environment agent (cmd/ryobi-env).  Every resource event is  *)
(* processed by a goroutine of its own: it writes main.tf.json into the    *)
(* directory of the resource, runs terraform init there and terraform      *)
(* apply or destroy, which read whatever the directory holds by then,      *)
(* reports the result and registers or unregisters the resource with the   *)
(* status watcher.  The watcher copies its entries and checks them one     *)
(* after another, reporting a health only if it is not what the entry      *)
(* remembers as its last.                                                  *)
(*                                                                         *)
(* Of ryobid there is what the agent's calls change: the resource record.  *)
(* How its handlers interleave is the subject of ControlPlane; here each   *)
(* is one step.  Terraform and Kubernetes are modelled as the agent uses   *)
(* them: terraform locks the state it works on and fails if that is locked *)
(* or if the directory was initialised for another state.                  *)
(***************************************************************************)
EXTENDS Integers, FiniteSets

CONSTANTS
    Resources,     (* resource ids                                          *)
    Containers,    (* those of type Ryobi.Compute/containers                *)
    NoResource,    (* none                                                  *)
    Dirs, DirOf,   (* working directory of a resource, by sanitizeName      *)
    Healths,       (* what a deployment's replica counts amount to          *)
    NoHealth,      (* none                                                  *)
    Before,        (* resources of which a first deployment has failed      *)
    MaxEvents,     (* bound: events sent to the agent                       *)
    MaxOf,         (* bound: of them, events of a resource                  *)
    MaxTogether,   (* bound: goroutines at a time, those left by a restart too*)
    MaxCrashes,    (* bound: restarts of the agent                          *)
    MaxChanges     (* bound: changes of health in Kubernetes                *)

ASSUME AgentAssumption ==
    /\ Containers \subseteq Resources /\ Before \subseteq Resources
    /\ NoResource \notin Resources
    /\ DirOf \in [Resources -> Dirs]
    /\ "Down" \in Healths /\ NoHealth \notin Healths
    /\ MaxOf \in [Resources -> Nat]
    /\ {MaxEvents, MaxTogether, MaxCrashes, MaxChanges} \subseteq Nat

VARIABLES
    sent,          (* events sent so far                                    *)
    task,          (* event -> the goroutine that processes it              *)
    file,          (* directory -> event its main.tf.json was written for   *)
    backend,       (* directory -> resource whose state it is initialised to*)
    lock,          (* resource -> terraform run that locks its state        *)
    infra,         (* resource -> event whose parameters are live           *)
    kube,          (* resource -> health of its deployment, if there is one *)
    watched,       (* statusWatcher.resources: resource -> entry            *)
    last,          (* entry -> lastState                                    *)
    checking,      (* entries checkAll copied and has still to check        *)
    sending,       (* the ReportStatus call of checkAll                     *)
    missed,        (* history: entries whose last ReportStatus got lost     *)
    record,        (* the resource records of ryobid                        *)
    crashes, changes

taskVars  == <<task, file, backend, lock, infra>>
watchVars == <<watched, last, checking, sending, missed>>
vars == <<sent, taskVars, kube, watchVars, record, crashes, changes>>

(* An event is its number.  A deployment's number stands for its           *)
(* parameters too, and for the entry it registers.                         *)
Events   == 1..MaxEvents
NoEvent  == 0
SomeEvent == Events \cup {NoEvent}

Task == [pc  : {"none", "start", "init", "run", "running", "report", "watch",
                "ended", "orphan"},
         op  : {"DEPLOY", "DELETE"}, resource : Resources, success : BOOLEAN,
         cfg : SomeEvent,               (* main.tf.json terraform has read  *)
         others : SUBSET Events]        (* history: shared the directory    *)
NoTask(r) == [pc |-> "none", op |-> "DEPLOY", resource |-> r, success |-> FALSE,
              cfg |-> NoEvent, others |-> {}]
Ended(r)  == [NoTask(r) EXCEPT !.pc = "ended"]

Record == [exists : BOOLEAN, deleting : BOOLEAN, spec : SomeEvent,
           health : Healths \cup {NoHealth}]
Blank  == [exists |-> FALSE, deleting |-> FALSE, spec |-> NoEvent, health |-> NoHealth]

Idle == [entry |-> NoEvent, health |-> NoHealth]

(* The backend names the state by the resource id, which tells apart those *)
(* that share a directory.                                                 *)
StateOf(e) == task[e].resource

(* A locked state is locked by a run that has not ended.                   *)
TypeOK ==
    /\ sent     \in 0..MaxEvents
    /\ task     \in [Events -> Task]
    /\ file     \in [Dirs -> SomeEvent]
    /\ backend  \in [Dirs -> Resources \cup {NoResource}]
    /\ lock     \in [Resources -> SomeEvent]
    /\ \A r \in Resources : lock[r] # NoEvent =>
         /\ task[lock[r]].pc \in {"running", "orphan"}
         /\ StateOf(task[lock[r]].cfg) = r
    /\ infra    \in [Resources -> SomeEvent]
    /\ kube     \in [Containers -> Healths]
    /\ watched  \in [Resources -> SomeEvent]
    /\ last     \in [Events -> Healths \cup {NoHealth}]
    /\ checking \subseteq Events
    /\ sending  \in [entry : SomeEvent, health : Healths \cup {NoHealth}]
    /\ missed   \subseteq Events
    /\ record   \in [Resources -> Record]
    /\ crashes  \in 0..MaxCrashes
    /\ changes  \in 0..MaxChanges

Init ==
    /\ sent = 0 /\ crashes = 0 /\ changes = 0
    /\ \E r \in Resources : task = [e \in Events |-> NoTask(r)]
    /\ file = [d \in Dirs |-> NoEvent]
    /\ backend = [d \in Dirs |-> NoResource]
    /\ lock = [r \in Resources |-> NoEvent]
    /\ infra = [r \in Resources |-> NoEvent]
    /\ kube = [r \in Containers |-> "Down"]
    /\ watched = [r \in Resources |-> NoEvent]
    /\ last = [e \in Events |-> NoHealth]
    /\ checking = {} /\ sending = Idle /\ missed = {}
    /\ record = [r \in Resources |-> [Blank EXCEPT !.exists = r \in Before]]

Dir(e)  == DirOf[task[e].resource]
Unfinished(e) == task[e].pc \notin {"none", "ended"}
InDir(d) == {e \in Events : Unfinished(e) /\ Dir(e) = d}

-----------------------------------------------------------------------------
(* ryobid accepts a PUT or a DELETE and dispatches its event, which the    *)
(* agent receives unless its stream loses it.  Nothing makes ryobid wait   *)
(* for the result of the previous one.                                     *)
Sends(op, r) ==
    LET e == sent + 1
        together == InDir(DirOf[r])
        received == [task EXCEPT ![e] = [NoTask(r) EXCEPT !.pc = "start", !.op = op,
                                                          !.others = together]]
    IN
    /\ sent < MaxEvents
    /\ Cardinality({f \in 1..sent : task[f].resource = r}) < MaxOf[r]
    /\ Cardinality({f \in Events : Unfinished(f)}) < MaxTogether
    /\ op = "DELETE" => record[r].exists
    /\ sent' = e
    /\ record' = [record EXCEPT ![r] =
                    IF op = "DEPLOY" THEN [Blank EXCEPT !.exists = TRUE, !.spec = e]
                                     ELSE [@ EXCEPT !.deleting = TRUE]]
    /\ task' \in {[f \in Events |-> IF f \in together
                                    THEN [task[f] EXCEPT !.others = @ \cup {e}]
                                    ELSE received[f]],
                  [task EXCEPT ![e] = Ended(r)]}
    /\ UNCHANGED <<file, backend, lock, infra, kube, watchVars, crashes, changes>>

Fails(e) == task' = [task EXCEPT ![e].pc = "report", ![e].success = FALSE]

(* processEvent before it runs terraform: no such recipe, no directory.    *)
Rejects(e) ==
    /\ task[e].pc = "start"
    /\ Fails(e)
    /\ UNCHANGED <<sent, file, backend, lock, infra, kube, watchVars, record, crashes, changes>>

MutantWritesConfig(e) ==
    /\ task[e].pc = "start"
    /\ file' = [file EXCEPT ![Dir(e)] = IF @ = NoEvent THEN e ELSE @]
    /\ task' = [task EXCEPT ![e].pc = "init"]
    /\ UNCHANGED <<sent, backend, lock, infra, kube, watchVars, record, crashes, changes>>

(* The configuration of this event replaces the directory's.               *)
SavesConfig(d, e) == file' = [file EXCEPT ![d] = e]

WritesConfig(e) ==
    /\ task[e].pc = "start"
    /\ SavesConfig(Dir(e), e)
    /\ task' = [task EXCEPT ![e].pc = "init"]
    /\ UNCHANGED <<sent, backend, lock, infra, kube, watchVars, record, crashes, changes>>

(* terraform init, for the state the directory's configuration names.      *)
RunsInit(e) ==
    /\ task[e].pc = "init"
    /\ \/ /\ backend' = [backend EXCEPT ![Dir(e)] = StateOf(file[Dir(e)])]
          /\ task' = [task EXCEPT ![e].pc = "run"]
       \/ Fails(e) /\ UNCHANGED backend
    /\ UNCHANGED <<sent, file, lock, infra, kube, watchVars, record, crashes, changes>>

(* terraform apply or destroy, up to its lock ...                          *)
RunsTerraform(e) ==
    LET cfg == file[Dir(e)]
        key == StateOf(cfg)
    IN
    /\ task[e].pc = "run"
    /\ IF backend[Dir(e)] = key /\ lock[key] = NoEvent
       THEN /\ task' = [task EXCEPT ![e].pc = "running", ![e].cfg = cfg]
            /\ lock' = [lock EXCEPT ![key] = e]
       ELSE Fails(e) /\ UNCHANGED lock
    /\ UNCHANGED <<sent, file, backend, infra, kube, watchVars, record, crashes, changes>>

(* ... and to its end.  What a failed run did is not undone.               *)
Effect(e) == IF task[e].op = "DEPLOY" THEN task[e].cfg ELSE NoEvent
Changes(e) == infra' = [infra EXCEPT ![StateOf(task[e].cfg)] = Effect(e)]

MutantTerraformEnds(e) ==
    /\ task[e].pc = "running"
    /\ \/ Changes(e) /\ task' = [task EXCEPT ![e].pc = "report", ![e].success = TRUE]
       \/ (Changes(e) \/ UNCHANGED infra) /\ Fails(e)
    /\ lock' = IF task'[e].success
               THEN [lock EXCEPT ![StateOf(task[e].cfg)] = NoEvent] ELSE lock
    /\ UNCHANGED <<sent, file, backend, kube, watchVars, record, crashes, changes>>

TerraformEnds(e) ==
    /\ task[e].pc = "running"
    /\ \/ Changes(e) /\ task' = [task EXCEPT ![e].pc = "report", ![e].success = TRUE]
       \/ (Changes(e) \/ UNCHANGED infra) /\ Fails(e)
    /\ lock' = [lock EXCEPT ![StateOf(task[e].cfg)] = NoEvent]
    /\ UNCHANGED <<sent, file, backend, kube, watchVars, record, crashes, changes>>

(* ReportResult; an error of the call is only logged.                      *)
Reports(e) ==
    LET r == task[e].resource IN
    /\ task[e].pc = "report"
    /\ task' = [task EXCEPT ![e].pc = "watch"]
    /\ \/ /\ record[r].exists
          /\ record' = [record EXCEPT ![r] =
                          IF task[e].success /\ @.deleting THEN Blank
                          ELSE [@ EXCEPT !.deleting = FALSE]]
       \/ UNCHANGED record
    /\ UNCHANGED <<sent, file, backend, lock, infra, kube, watchVars, crashes, changes>>

Deployed(e) == task[e].op = "DEPLOY" /\ task[e].success
Finishes(e) ==
    /\ task[e].pc = "watch"
    /\ task' = [task EXCEPT ![e] = [Ended(@.resource) EXCEPT
                    !.others = IF task[e].op = "DEPLOY" THEN task[e].others ELSE {}]]
Registers(e) == watched' = [watched EXCEPT ![task[e].resource] = e]

MutantUpdatesWatcher(e) ==
    LET r == task[e].resource IN
    /\ Finishes(e)
    /\ IF Deployed(e) THEN Registers(e) ELSE UNCHANGED watched
    /\ UNCHANGED <<sent, file, backend, lock, infra, kube, last, checking, sending, missed,
                   record, crashes, changes>>

MutantKeepsLastState(e) ==
    LET r == task[e].resource IN
    /\ Finishes(e)
    /\ IF Deployed(e)
       THEN /\ Registers(e)
            /\ last' = IF watched[r] = NoEvent THEN last
                       ELSE [last EXCEPT ![e] = last[watched[r]]]
       ELSE /\ watched' = IF task[e].op = "DELETE"
                          THEN [watched EXCEPT ![r] = NoEvent] ELSE watched
            /\ UNCHANGED last
    /\ UNCHANGED <<sent, file, backend, lock, infra, kube, checking, sending, missed,
                   record, crashes, changes>>

(* The goroutine's last act: Register with a new entry, or Unregister,     *)
(* which any DELETE does, a failed one too.                                *)
UpdatesWatcher(e) ==
    LET r == task[e].resource IN
    /\ Finishes(e)
    /\ \/ Deployed(e) /\ Registers(e)
       \/ task[e].op = "DELETE" /\ watched' = [watched EXCEPT ![r] = NoEvent]
       \/ task[e].op = "DEPLOY" /\ ~task[e].success /\ UNCHANGED watched
    /\ UNCHANGED <<sent, file, backend, lock, infra, kube, last, checking, sending, missed,
                   record, crashes, changes>>

-----------------------------------------------------------------------------
(* The status watcher, every fifteen seconds.                              *)
Copies == {watched[r] : r \in Resources} \ {NoEvent}

BeginsRound ==
    /\ checking = {} /\ sending = Idle
    /\ checking' = Copies /\ checking' # {}
    /\ UNCHANGED <<sent, taskVars, kube, watched, last, sending, missed, record, crashes, changes>>

(* checkDeployment: a deployment that is not found is Down.                *)
Observed(r) == IF infra[r] = NoEvent THEN "Down" ELSE kube[r]

Checks(x) ==
    LET r == task[x].resource IN
    /\ sending = Idle /\ x \in checking
    /\ checking' = checking \ {x}
    /\ IF r \in Containers /\ Observed(r) # last[x]
       THEN /\ last' = [last EXCEPT ![x] = Observed(r)]
            /\ sending' = [entry |-> x, health |-> Observed(r)]
       ELSE UNCHANGED <<last, sending>>
    /\ UNCHANGED <<sent, taskVars, kube, watched, missed, record, crashes, changes>>

(* ReportStatus is served, if the record is still there ...                *)
StatusArrives ==
    LET r == task[sending.entry].resource IN
    /\ sending # Idle
    /\ sending' = Idle
    /\ record' = [record EXCEPT ![r].health = IF record[r].exists THEN sending.health ELSE @]
    /\ missed' = missed \ {sending.entry}
    /\ UNCHANGED <<sent, taskVars, kube, watched, last, checking, crashes, changes>>

(* ... or the call fails, or another writer saves the record before it.    *)
(* The agent logs the former and does not hear of the latter.              *)
StatusLost ==
    /\ sending # Idle
    /\ sending' = Idle
    /\ missed' = missed \cup {sending.entry}
    /\ UNCHANGED <<sent, taskVars, kube, watched, last, checking, record, crashes, changes>>

-----------------------------------------------------------------------------
(* Kubernetes: pods come and go.                                           *)
HealthChanges(r) ==
    /\ changes < MaxChanges /\ infra[r] # NoEvent
    /\ changes' = changes + 1
    /\ \E h \in Healths \ {kube[r]} : kube' = [kube EXCEPT ![r] = h]
    /\ UNCHANGED <<sent, taskVars, watchVars, record, crashes>>

(* The agent dies and is restarted, with an empty watch list.  A terraform *)
(* it has started may go on.                                               *)
Restarts ==
    /\ crashes < MaxCrashes
    /\ crashes' = crashes + 1
    /\ task' = [e \in Events |->
                  CASE task[e].pc = "none" -> task[e]
                    [] task[e].pc \in {"running", "orphan"} -> [task[e] EXCEPT !.pc = "orphan"]
                    [] OTHER -> Ended(task[e].resource)]
    /\ watched' = [r \in Resources |-> NoEvent]
    /\ last' = [e \in Events |-> NoHealth]
    /\ checking' = {} /\ sending' = Idle /\ missed' = {}
    /\ UNCHANGED <<sent, file, backend, lock, infra, kube, record, changes>>

OrphanEnds(e) ==
    /\ task[e].pc = "orphan"
    /\ Changes(e) \/ UNCHANGED infra
    /\ lock' = [lock EXCEPT ![StateOf(task[e].cfg)] = NoEvent]
    /\ task' = [task EXCEPT ![e] = Ended(@.resource)]
    /\ UNCHANGED <<sent, file, backend, kube, watchVars, record, crashes, changes>>

-----------------------------------------------------------------------------
TaskStep(e) ==
    \/ Rejects(e) \/ WritesConfig(e) \/ RunsInit(e) \/ RunsTerraform(e)
    \/ TerraformEnds(e) \/ Reports(e) \/ UpdatesWatcher(e)
WatcherStep == BeginsRound \/ (\E x \in Events : Checks(x)) \/ StatusArrives \/ StatusLost

Next ==
    \/ \E op \in {"DEPLOY", "DELETE"}, r \in Resources : Sends(op, r)
    \/ \E e \in Events : TaskStep(e) \/ OrphanEnds(e)
    \/ WatcherStep
    \/ \E r \in Containers : HealthChanges(r)
    \/ Restarts

Spec == Init /\ [][Next]_vars

-----------------------------------------------------------------------------
(* Terraform applies what the directory holds when it reads it, which      *)
(* another goroutine may have written, with the same id or with one that   *)
(* sanitizeName makes the same.  Nothing but such an overlap, and no file  *)
(* of the past, may make an event apply or destroy what is not its own.    *)
AppliesItsOwn ==
    \A e \in Events : task[e].pc = "running" => task[e].cfg \in {e} \cup task[e].others

NoOverlap(r, w) ==
    \A e \in Events : e >= w /\ task[e].resource = r => task[e].others = {}

(* What the watcher watches is there: once the goroutines of a resource    *)
(* have ended, it is not left watched with nothing deployed, however its   *)
(* deployments, failed deletions and restarts followed each other, unless  *)
(* the one that registered it, or a deployment of it since, ran together   *)
(* with another.                                                           *)
WatchedIsLive ==
    \A r \in Resources :
        ( /\ watched[r] # NoEvent /\ NoOverlap(r, watched[r])
          /\ \A e \in Events : Unfinished(e) => task[e].resource # r )
        => infra[r] # NoEvent

(* The debounce is right: what the watcher remembers as reported for what  *)
(* is deployed now is what the record shows, although a PUT clears the     *)
(* record's health while older entries remember theirs, unless the last    *)
(* report got lost.                                                        *)
RememberedIsShown ==
    \A r \in Resources :
        LET x == watched[r] IN
        ( /\ x # NoEvent /\ x = record[r].spec
          /\ last[x] # NoHealth /\ sending.entry # x /\ x \notin missed )
        => record[r].health = last[x]
=============================================================================
