# Ryobi in TLA+

Ryobi deploys cloud resources through environments. A user `PUT`s or `DELETE`s a
resource at the control plane **ryobid**; ryobid queues an asynchronous operation,
chooses an environment and streams an event to the agent **ryobi-env** that runs
there; the agent runs Terraform and reports the result back. This directory
models that path: how operations are queued and concluded, how a resource record
is written by four parties that do not wait for each other, how placement picks
an environment and how the streams of the agents are kept. It also models the
two ends of the path, the commands of the CLI and the inside of an agent, the
life of the server's process, and the other API of the server, that of
applications and environments.

The modules are translated from the Go code; documents and comments of the
repository are used only where a run compares the code with them (see
[Disagreements](#disagreements)). `PROJECT.json` maps each definition to the
lines it stands for.

## The system

| Component | Code | State | Operations | Meets |
|---|---|---|---|---|
| Asynchronous operations | `pkg/api/async` | a status record per operation; the worker's position | queue, update, `processNext` | queue, database, controllers |
| Operation queue | `pkg/components/queue` | slice of messages, time of visibility | enqueue, dequeue, complete | requests, worker |
| Database | `pkg/components/database` | records with ETags | get, save, delete, query | everyone |
| Resource API | `pkg/api/...asyncput, asyncdelete` | the resource record | PUT, DELETE, GET | database, operations |
| Resource dispatcher | `pkg/grpcapi/dispatcher.go` | none of its own | `Run` | worker, placement, environment server |
| Environment server | `pkg/grpcapi/server.go` | environments, watchers | Register, Heartbeat, Unregister, WatchResources, DispatchResourceEvent, ReportResult, ReportStatus | agents, dispatcher, database |
| Agent | `cmd/ryobi-env` | main loop, goroutine per event, working directories, entries of the status watcher | register, watch, execute, report, check health | environment server, Terraform, Kubernetes |
| Placement engine | `pkg/placement` | none; reads registry and rules | `Place` | dispatcher |
| Hosting | `pkg/components/hosting`, `cmd/ryobid` | services, the names waited for, two channels, a timer | start, recover, collect endings, shut down | server, worker, main |
| Synchronous API | `pkg/api/...syncput, syncdelete`, the frontends | environments, applications, rules | PUT, DELETE with their filters | database, agents' Register and Unregister |
| In-process deployment | `pkg/recipes`, `backend/controller/resource.go` | the controller's local variables | deploy, delete; registered by no program (ryobid registers the dispatcher, `cmd/ryobid/main.go:74-76`) | worker, database, Terraform |
| CLI | `cmd/ryobi` | one command and what it waits for | deploy, catalog deploy, app delete, resource delete | the HTTP API |

Interactions that make the system hard:

* **Four writers of one record.** A `PUT`, the dispatcher, `ReportResult` and
  `ReportStatus` each read the resource record, think, and save all of it. Only the
  ETag stands between them, and three of the four ignore a failed save.
* **Two writers of one verdict.** The worker concludes an operation when its
  controller returns, `ReportResult` concludes it when the agent is done.
* **A queue that repeats itself.** A message is visible again after thirty
  seconds, done or not.
* **Shared slices.** `DispatchResourceEvent` iterates over a slice of channels
  that other goroutines edit in place and whose channels they close.
* **Faults.** Streams break and lose what they buffer; agents crash in the middle
  of a run; a report is sent once and never again; a panic ends the only worker;
  an agent is replaced by a new one of the same name.
* **Placement knows no history.** It is asked again for each event.
* **Shared directories.** The goroutines of an agent run Terraform in one directory
  per resource name, without waiting for each other, and end in any order.
* **Memories of what was said.** The watcher remembers a health as reported, the CLI
  takes the state of a record for that of its own request, a filter decides on
  what it read before the write.
* **A process that ends in pieces.** Services end, panic or hang; the host waits for
  all of them but not for ever, and closes a channel that they may still send to.

What makes each part correct: an accepted operation is neither lost nor run twice
and gets one verdict (operations); nobody undoes a client's update, resurrects a
deleted resource or claims what is not deployed (resource records); the slice of
watchers is the set of running streams, and agents get events in order
(environment server); an environment is picked exactly as the rules say
(placement); an event is applied with its own configuration, and the watcher watches
what is there and reports what it has not reported (agent); the host returns when
and only when it is over (hosting); an environment in use is kept and a removed
resource is destroyed (synchronous API, in-process deployment); the CLI does not
say more than is true (CLI).

## The modules

| Module | Models |
|---|---|
| `OperationStatus` | What a client of the operation API may rely on: one status per operation that goes from Accepted to a verdict and is never opened again |
| `AsyncOperations` | StatusManager, queue, worker and the status update of `ReportResult`, step by step |
| `AsyncOperationsProofs` | Theorems about `AsyncOperations` |
| `ControlPlane` | A resource from request to report: HTTP handlers, dispatcher, agents, result and health reports, composed with `AsyncOperations` |
| `ControlPlaneProofs` | Theorems about `ControlPlane` |
| `Placement` | Registry, rules and the placement algorithm against a reference |
| `PlacementProofs` | Theorems about `Placement` |
| `EnvironmentServer` | Registration, watch streams with Go slices and channels, the dispatch loop, the agent's main loop |
| `EnvironmentServerProofs` | Theorems about `EnvironmentServer` |
| `Client` | The CLI's commands as a client of `ControlPlane` |
| `ClientProofs` | That it is one, and theorems about its bookkeeping |
| `Agent` | Inside one agent: goroutines, Terraform's directories and locks, the status watcher |
| `AgentProofs` | Theorems about `Agent` |
| `Hosting` | The services of a process, their host and its caller |
| `HostingProofs` | Theorems about `Hosting` |
| `Records` | PUT and DELETE of applications and environments, and the agents' registrations |
| `Deployment` | Deployment in the server's own process, on top of `Records` |
| `DeploymentProofs` | Theorems about `Deployment` and `Records` |
| `MC*` | Model values, small sets and symmetries for TLC |

They are layered as the code is. `OperationStatus` is implemented by
`AsyncOperations`, which is implemented by `ControlPlane` (every `ControlPlane`
step that touches the machinery has an `AsyncOperations` action as a conjunct).
`ControlPlane` abstracts two things it calls: placement to "some connected
environment or none", and the environment server to one watch channel per
environment. `Placement` and `EnvironmentServer` are those two in detail. `Client`
EXTENDS `ControlPlane`: each request of a command is a request there, and the steps of the
server are its own. `Agent` looks into what is a task of `ControlPlane`, and keeps of
the server only what the agent's calls do to a record. `Deployment` EXTENDS `Records`,
the API whose records its controllers read. `Hosting` stands alone; the services it
runs are the other modules.

### AsyncOperations

`status` holds the database records of `StatusManager`; `enqueueing` the
goroutines between saving the status and `Enqueue`; `messages` the queue's slice;
`worker` is `processNext` with a program counter, one step for each database
access, because a `ReportResult` may come between any two. `StatusManager.Update` is
`Get` followed by a `Save` with the ETag; the ETag, a UUID in the code, is the number
of saves of the record. A controller is reduced to its ways to end: it returns without an
error with the event in an agent's channel (`dispatched`) or dropped because every such
channel was full (`dropped`; `DispatchResourceEvent` returns nil all the same), it fails, or
it panics. `Updated` is what an update stores, `Dequeue` and `Complete` what the
queue does.

The paths that only a malformed message takes are left out: nothing in the program
writes one. `Canceled` is written by nobody. Time stamps are left out, except that
`VisibilityExpires` may happen at any moment.

### ControlPlane

`record` is the resource in the database, `request` the HTTP goroutines, `dispatcher`
the position and the local variables of `ResourceDispatcher.Run`, `task` the agents'
goroutines up to the end of their `ReportResult` call, `reporter` the health
reports. Each keeps the record as it read it, so a save is of an old copy.
`infra` is the outside world: whose spec is live where. `lastPut` is a history
variable. A spec is the id of the `PUT` that carried it.

`Faults` says what may go wrong in a run: impolite clients (a request while another
is under way for the resource), disconnections, crashes, lost reports, health reports,
deletion of the application. Terraform is one step with two outcomes, and a failed one
may or may not have changed something. Which environment placement picks is left
open; the one difference the code makes when only the recipe is missing
(`NamesRecipe = FALSE`: placement is asked but cannot change the environment) is
kept. The processing of several watchers of one environment is in
`EnvironmentServer`; here an environment has one. So is the panic of a send to a channel that an
Unregister has just closed: here a disconnection ends the channel between two steps of the dispatcher. An
event that finds the channel full is dropped and its controller succeeds (`DispatchSend`), as in the code.

### Placement

`environments` and the rules are state, changed by Register, Heartbeat, Unregister
and the rule API; `Place` is a pure operator over that state (`Eligible`, `Score...`,
`Outcomes`) and the invariants compare its result with a reference in every reachable
state and for every order in which Go may iterate over its maps. Scores are
exact fractions where the code has floats: the two compare alike unless two environments
differ by less than a float can tell, and then either is as good. Loops over rules and
environments are recursive functions of an index. `Sovereignty` is filtered like `Region` and left
out. Types are compared with and without regard to case, as the code does
in different places: `Fold` is the lower case.

### EnvironmentServer

One environment name (names do not interact), several agents under it. A stream is a
`WatchResources` call and its channel; `array` holds the backing arrays of Go slices, so
that `append` and removal in place have their aliasing effects, and `worker.slice` is the
header the dispatch loop copied. An in-place edit is one step: the elements are
single words, and an interleaving inside it shows the reader nothing a state
before or after a similar edit does not. Arrays nothing refers to are collected.

### Client

`cli` is the command that runs and its variables: the requests it has still to make,
the one that is being answered, the paths it polls, whether a wait has failed.
A request goes through `BeginRequest` of `ControlPlane`, its answer is read from there:
accepted, refused, or, if `Unreliable`, no answer although the request may have been
or will be served. The commands differ as the code does: `deploy` stops at the first error,
`catalog deploy` and `app delete` print it and go on; `app delete` waits for all it has listed
and deletes the application in the end, whatever happened. The waits poll the *record*:
`WaitForResource` takes any Succeeded or Failed, `WaitForResourceDeletion` a record that is
gone or Failed. `mine` is a history variable: the requests of this command that were accepted.

### Agent

An event is its number, which also stands for its parameters. `task` is the goroutine of
an event: it writes the configuration, runs init and then Terraform, reports, and registers
or unregisters. `file` and `backend` are what the directory holds: a configuration and the
state it was initialised for; Terraform reads both when it starts, not when the goroutine
wrote them. `lock` is the lock of a state, `infra` what is live. A crash leaves the
goroutines that have a Terraform running as orphans, which end on their own.
`watched` is the watcher's map, `last` the state each entry remembers, `checking` the
copy of the entries a round of `checkAll` works on. `others` and `missed` are history: whose
goroutine was alive in the directory at the same time, and which entry's last report was
lost. `Before` has the resources of which a deployment has failed before the model
begins, so that a deletion finds a record.

### Hosting

`Host.Run` is its check, its loop (`HostReceives`) and its return; each service is
a goroutine that ends by an error, a panic or after the signal, and then sends. The channels
have the capacities of the code. The gRPC server's graceful stop waits for streams, which only
agents end. Two kinds of caller: ryobid's `main`, which returns at the signal, and one that waits for
what `RunAsync` returns. `Namings` gives the services' names, so that two may be alike. A send on
a closed channel panics, the recover sends again, and the process is gone.

### Records and Deployment

`Records` has a goroutine per request with a step for each call of the database, and the agents'
`Register` and `Unregister`, which write the environment without reading it. Records
are found by ids in lower case while an application names its environment as its author wrote it,
hence `Names` and `IdOf`. A record that was not there when it was read is created without an ETag.
`Deployment` adds the resources, the operations waiting, the worker with the controller it
runs, one step per read, and Terraform as one step that succeeds, or fails with or without
having changed something. `seen` in both is history: what the records were when the request or
controller began.

## The runs

All bounds are constants of the configurations.

| Run | Instance | Shows |
|---|---|---|
| `operations` | 3 operations (one without a controller), 2 reports, fairness | nothing lost, run twice or reopened; Failed has an error, Succeeded a controller that offered its event; everything concluded unless a controller panicked; implements `OperationStatus` |
| `cp_races` | 2 requests, 2 agent goroutines, all races | no undone update, no resurrection, implements `AsyncOperations` |
| `cp_polite` | 3 requests in sequence, every fault but health reports | records do not lie and nothing is orphaned |
| `cp_live` | 2 overlapping requests of 1 or 2 resources, `Capacity = 1`, no faults, fairness | Deploying and Deleting end, unless the event was dropped |
| `pl_rules` | 3 environments of 4 shapes, 2 rules | the algorithm against its reference |
| `es_agents` | 2 agents, 3 streams, 1 event, fairness | the slice is the open streams, over every aliasing; what agents left in the database is in the map; agents come to watch again |
| `es_alone` | 1 agent, a broken stream, changed capabilities, 2 events, fairness | no older event after a newer |
| `cli` | 1 resource, 2 requests, 2 agent goroutines, all faults but impolite users, lost answers | a deploy that says so has deployed what it asked for; a resource that is not found is gone |
| `agent` | 3 events of two resources in one directory, a crash, a change of health | each goroutine applies its own unless they overlapped; nothing is watched in vain; the watcher's memory is the record's |
| `host` | ryobid's three services, names distinct or not, both callers, fairness | nil means that all have ended and all failures were told; failures are handed on once; only the timeout crashes; the host returns |
| `api` | 2 environments, one with two spellings, 1 application, 1 resource, 2 requests, 3 operations | a Succeeded is of what was applied; an environment in use is kept; a record is removed after its destruction |
| `cp_removal` | the smallest instance | a disagreement, see below |

Why the bounds suffice. A lost update or a late result takes two requests of one
resource, and resources share nothing but the worker and the channel, which hold one
event at a time; a third request is needed for a delete between two puts. The races on
an operation's status are between the worker and one report; a second one adds the
race of two reports. `Capacity = 1` makes full channels common, and in `cp_live` the event of a second
resource finds the channel filled by that of the first. Two agents are a rolling
update; three streams give each a stream and one a second one, which fills an array of two,
grows it and leaves a hole. `MaxETag` stops health reports, the only unbounded
writers. Three environments give placement a tie, a loser and a full one.

Two requests are what the CLI needs to read the state of another: it polls a record
that an earlier command's operation, or one it has given up, still writes; one resource is enough since
each is polled on its own, and that all are asked for is proved for any number. Three
events of one resource are a deployment, one that replaces it and a deletion, of which two
run together in any pair; the second resource shares the directory and deletes, for which
`Before` gives it a record. A registration that outlives what it watches takes two
goroutines that end in the wrong order, and an entry that is replaced under a copy takes
two deployments and a round; a crash adds an orphan. Three services are
ryobid's. In `api` two requests suffice for a check and the write that comes between it and its
effect; three operations are a deployment, a second one and a deletion.

Symmetry is used for safety runs only. `CHECK_DEADLOCK FALSE` is set where a finite set of
requests, agents or streams is used up and the system rightly stops.

### Fairness

The worker is a goroutine driven by a ticker; HTTP and gRPC handlers are goroutines which
Go schedules once runnable; the agent starts a goroutine for each event and its
main loop goes on after every return. So each of these is weakly fair, one condition
per goroutine. Terraform is assumed to end. In `Hosting` the loop of `Run`, the timer, the
return of main and a service's last send are fair; a service need not stop and an agent need not
end its stream, which is what the timeout is for. Nothing is assumed of clients, of
health reports, of faults, or of the order in which goroutines run.
`EventuallySettled` is checked without faults and health reports: the code neither retries a
report nor notices a lost event. Even then an event may find its channel full and be dropped,
and its resource stays in Deploying; the property names that as its one exception
(`Unserved`). That a resource may stay there for ever after a fault, too, is not hidden by
fairness; it is what the system does.

## Disagreements

Where the code does something else than a document or comment says. The first is the
counterexample of a run.

* **`cp_removal`** (`src/pkg/grpcapi/server.go:243`): Whether a successful result is of a deletion is told from the record's state, not from the operation reported. The comment at src/pkg/grpcapi/server.go:244 says "Delete operation succeeded"; the run shows the result of a deploy that arrives while a later DELETE has put the record to Deleting and so removes the record.

The models show more of them; these have no run of their own.

* The worker writes Succeeded as soon as the controller returns without an error
  (`pkg/api/async/worker.go:162`), while `pkg/grpcapi/dispatcher.go:148` says that "the operation stays
  in "Provisioning" state until the environment agent calls ReportResult". It also overwrites,
  or makes fail, the verdict of a report (against `design/005-async-operations.md:53-55`).
* An operation is Succeeded also when its event was dropped because every channel of the environment
  was full: `DispatchResourceEvent` logs a warning and returns nil (`pkg/grpcapi/server.go:304-314`), and the
  worker takes that for success. Nobody has the event, and the resource stays in Deploying: in
  `VerdictIsGrounded` and `EventuallySettled` this is the case of `dropped`.
* Placement falls back to any environment only when *no* rule matched (`pkg/placement/engine.go:39`);
  `design/010-placement-engine.md:124-125` says "If no rules matched or all rules failed".
  `FailsWithoutFallback` states what the code does: where all rules have failed, so does it.
* The agent registers again only after an error (`cmd/ryobi-env/main.go:108`, against the comment
  at `:115`); a stream that the server ends is none. With two agents of one environment (a rolling
  update) the old one's Unregister ends the new one's stream, and the new one watches again for ever
  without being registered.
* Unregister may close a channel (`pkg/grpcapi/server.go:164`) between the dispatch's read of the slice
  and its send (`:306`), which panics; the recovered worker never processes an operation again.
  `design/001-architecture-overview.md:119` says that operations fail until the agent reconnects.
* `app delete` deletes the application although its resources could not be deleted
  (`cmd/ryobi/main.go:582-592`, against "Delete an application and all its resources", `:527`).
* `catalog deploy` ends without an error although a PUT was refused (`cmd/ryobi/main.go:1121-1123`);
  a wait for a deletion takes the Failed of an earlier deployment for its own (`:339`).
* Goroutines of an agent register and unregister in the order in which they end
  (`cmd/ryobi-env/main.go:244`); a failed deletion unregisters too (`:245-246`), so what is still there is
  not watched.
* All events of a resource, and those of resources whose names `sanitizeName` makes alike, share a directory
  (`cmd/ryobi-env/main.go:266`): goroutines that overlap may apply or destroy by each other's
  configuration.
* A health report that gets lost is not repeated until the health changes (`cmd/ryobi-env/watcher.go:168`);
  a round works on copies and may report for a resource that is not watched any more (`:150`).
* The management API reads the agent's configuration without the lock its writer holds
  (`cmd/ryobi-env/management.go:93`).
* `Run` of the host "returns an error if any fail" (`pkg/components/hosting/hosting.go:49`), but it returns nil
  when services failed (`:131`); their errors go to the channel the caller passed, if it passed one.
  `NilMeansAllTold` states what nil does mean.
* ryobid's main returns at the signal without waiting for the host (`cmd/ryobid/main.go:103-106`), so nothing
  of the graceful shutdown need happen. A caller that waits is brought down by a service that ends after
  the timeout, by a send on a closed channel (`pkg/components/hosting/hosting.go:64`).
* The filter that keeps environments in use compares names as they are spelled
  (`pkg/resources/frontend/controller/filters.go:47`), while ids do not regard case; and an
  application put between its query and the deletion is not seen.
* A PUT that found no record creates one unconditionally: of two such PUTs both answer 200 and
  the later replaces the earlier. A DELETE has no ETag (`pkg/api/frontend/defaultoperation/syncput.go:164`).
* In the in-process deployment, DeleteResource removes the record of a PUT accepted meanwhile
  (`backend/controller/resource.go:195`), leaves the record as it was when the destruction fails (`:189-191`),
  and removes it without destroying anything when it finds no recipe (`:181`), as it does if
  the application or its environment was deleted first.
* A health report between `ReportResult`'s read and its save makes the save fail, the
  error is only logged (`pkg/grpcapi/server.go:261`), and the resource stays in Deploying or
  Deleting: add `"health"` to `Faults` in `cp_live`.
* A health report between the dispatcher's read and its save makes that save fail, which
  is ignored (`pkg/grpcapi/dispatcher.go:134`); the success of a deletion is then
  recorded as `Succeeded`: add `"health"` to `Faults` in `cp_polite`.
* Placement is asked again for a deployed resource (`pkg/grpcapi/dispatcher.go:69`, against
  `design/010-placement-engine.md:158`), so a second `PUT` deploys it twice: `cp_polite` with
  `Envs <- TwoEnvs` and `AppEnv = NoEnv` violates `NothingOrphaned`.
* `RemoveWatcher` shifts the slice under a running dispatch, which then skips a watcher
  (`pkg/grpcapi/server.go:197` and `:304`), although "all watchers" are to get the event (`:293`).
* A `Register` call that a shutdown cancels on the agent's side may be completed after
  `Unregister` and leaves the environment in the database (`pkg/grpcapi/server.go:121`,
  against `design/009-environment-agent.md:103`); `StoredIsRegistered` says that it is then in the map, too. The
  other way about the two do part: a `Register` of a new agent between the two steps of the old one's
  `Unregister` (`:168` and `:173`) stays in the map and is deleted from the database.

Where these would make a run fail, its constants exclude them: `cp_polite` has clients
that wait, one environment and no health reports, `cp_live` no health reports,
`cli` a user who waits for requests under way; elsewhere the property itself names the exception
(`Unserved`, `NoOverlap`, `missed`, `seen`) or states what the code does (`VerdictIsGrounded`,
`FailsWithoutFallback`, `NilMeansAllTold`). The
theorems exclude nothing, except those about clients that wait, which name as
hypotheses what they need (`Polite`, `OneHome`, `Quiet`).

## What is proved

`AsyncOperationsProofs` proves, for any set of operations and any set of reports
(`OperationsAssumption`: registered operations are operations, `NoOp` is none):

* `TypeCorrect`, `NoOperationLost`, `AtMostOnce`, `VerdictGrounded`: the invariants of `operations`;
* `NeverReopens`: its action property;
* `RefinesStatus`: `AsyncOperations` implements `OperationStatus`.

None of the invariants is inductive alone. That no operation is lost follows from the queue
holding *at most one* message of each operation and the worker's being one of
them, invisible or not (`QueuedOnce`, `WorkerHoldsMessage`): without it `Complete` could
remove the message of somebody else. That a controller runs once follows from the
operation being not enqueued, waiting in the queue before its run, held by the
worker, or gone, and from the number of runs being fixed in each of these
(`Elsewhere`, `Held`). That nothing is reopened needs the ETags: when the worker saves
Provisioning no report can have been written, since a report exists only for an
operation that was dispatched, and that comes after. `IInv` is the conjunction; `Invariance`
proves it inductive, one step for each action.

`ControlPlaneProofs` proves, for any sets of requests, resources, environments and goroutines,
any capacity, and with all faults or none (`ControlPlaneAssumption`):

* `TypeCorrect`, `NoUpdateLost` and `NoResurrection`: `cp_races`' invariants and its action property;
* `RefinesAsyncOperations`: every behaviour of the composed system is one of `AsyncOperations`. So what is
  proved there holds here (`KeepsItsOperations`): the invariant proved of `AsyncOperations` is a conjunct of the
  one used here;
* `SentInvariance`: the event of an operation is in one place, a channel or a goroutine, and a save that is not
  refused is of a copy that equals the record.

The argument for the records is about copies. `SpecIsLastPut` is not inductive, since a save of an
old copy could break it; `CopiesAreOld` says that every copy held by the dispatcher, a result or a
health report is either older than the record, by its ETag, or has its spec. `RecordStep`
reduces the actions to four things that can happen to a record (kept, put, saved with
another status, removed), and each of them leaves old copies old. That ETags are not reused
after a removal is essential here; the code draws UUIDs.

The second half of the module follows a request to its report. It needs conditions, which are hypotheses of the
theorems and are what `cp_polite` sets: `Polite` (a client begins a request for a resource when none is under way),
`OneHome` (the application names its environment), `Quiet` (no health reports).

* `PoliteInvariance`, if `Polite`: of each resource one request is under way (`OneAtATime`), a PUT under way is the
  one the record holds (`PutsStand`) and the one the dispatcher, the event and the goroutine carry
  (`PutsCarryTheirSpec`), and what a goroutine is about to report is so (`ExecutedIsLive`);
* `NoOrphans`, if `Polite` and `OneHome`: `NothingOrphaned`, by `AtHome` and `AbsentIsGone`;
* `SucceededTellsTheTruth`, if `Polite` and `Quiet`: `SucceededIsLive`, in any number of environments. From the
  dispatcher's save to the report nobody writes the record (`NothingBetween`), so it says Deploying while
  Terraform runs, and Succeeded is written with the spec and the environment Terraform ran with (`SucceededStays`).

Crashes, broken streams, lost reports, failed runs of Terraform and the deletion of the application are allowed in
all of them. The conditions are needed: TLC finds both properties violated with impolite clients, `NothingOrphaned`
when placement may choose again between two environments, and `SucceededIsLive` with health reports: one
between the dispatcher's read and its save makes that save fail, the deletion goes on, and its result is written as
Succeeded. The proof goes through one lemma for each variable, saying who may have changed it
and how (`TaskStep`, `ChannelStep`, `InfraStep`, `RequestMoves`, `RecordWriters`, `DispatcherMoves`); the invariants
are then proved against these and not against the actions. `Alone` is what the conditions are for: whatever works
for a resource works for the same operation.

`PlacementProofs` proves, for any environments, rules, capabilities and loads, and any order of the maps:

* `RegistryInvariance`, `TypeCorrect`: the registry's invariant and the types;
* `PlacementObeysTheRules`, `PlacementFailsWithoutFallback`, `PlacementMinimizesCost`, `PlacementAvoidsFull`: the
  invariants of `pl_rules`;
* `PlacementAnswers`: the algorithm always has an outcome, so the four do not hold for want of one.

The loops are the difficulty: what a recursive function computes is proved by induction, and the library's induction
theorems take an operator as a parameter, which the provers cannot instantiate. So `LeastNumber` (a set of naturals
that is not empty has a least element) is proved of sets, and the loops are proved by least counterexample:
`LoopExists` that they are functions, `Candidates` that the filter's result is the eligible environments in the
order of the map, `Best` that no element of the list is better than the one the loop keeps, `FirstSuccess` that the
rules before the one that succeeds have failed. `Best` needs the comparison of scores to be transitive
(`NotAboveTransitive`), which is nonlinear arithmetic over fractions. `PlaceAnswers` puts them together. The theorems
are about exact scores, see above.

`EnvironmentServerProofs` proves, for any agents, streams, backing arrays and capacity, and any
number of events and broken streams (`EnvironmentServerAssumption`):

* `TypeCorrect`: the types, and that no channel holds more than its capacity;
* `SliceIsTheOpenStreams`: `WatchersAreTheOpenStreams` of `es_agents`;
* `InOrderOfDispatch`: `ReceivedInOrder` of `es_alone`, with any number of agents;
* `WhatIsStoredIsRegistered`: `StoredIsRegistered` of `es_agents`.

The first result needs to know that the slice lies within its array (`Fits`); `SliceAppended`,
`SliceCut` and `SliceDropped` then follow its elements through `append`, the shift to the left and
`Unregister`. The second is about numbers: what is buffered is ascending (`InOrder`) and not
older than what the agent behind the stream has received (`NotOlder`). Here memory matters
too: the loop may read an array that has been edited since, and it must not find in it a
stream that is not appended yet, which could be handed an old event before its agent got a new one
(`ArraysHoldStarted`, `LoopInArray`). The third follows from what is true while calls are being served: if
the database has what the map has not, some Register will still write the map or some
Unregister delete from the database (`ToBeSettled`), since each agent unregisters once
(`UnregistersOnce`).

`HostingProofs` proves, for any services, names and endings:

* `TypeCorrect`, `NilTellsAll`, `NoFailureIsLost`, `OnlyTheTimeoutCrashes`: the invariants of `host`;
* `LoopNeverBlocks`: when the loop has an ending to hand on, the channel of errors has room. The code relies
  on this silently: nobody may be reading that channel.

The invariant counts endings by names: a name that is no longer waited for is that of a service that has ended
(`ForgottenHaveEnded`), an unread ending has a name that still is (`EndingsAreAwaited`), and no two endings have
the same (`EndingsDiffer`). That
makes the two channels long enough; with the check for duplicate names left out it fails, and so does the program.

`AgentProofs` proves, for any resources, directories, events, crashes and changes of health:

* `TypeCorrect`, `OwnConfiguration`, `NothingWatchedInVain`, `DebounceIsRight`: the invariants of `agent`.

Its invariant has three parts. `OwnInv`: goroutines alive in one directory know of each other, what the
directory's file holds was written by one of them, and a lock is held by a run of Terraform. `WatchInv`: what
is alive beside a registration is younger than it or overlapped with it; what overlaps with it later is younger too
and knows of it; so what a registration without overlaps watches can be destroyed only by a
deletion that will unregister it. `ShownInv`: of one resource the watcher checks or reports one
entry at a time, and none but the registered one once that has a health, so an old copy cannot overwrite
what a newer entry has shown.

`ClientProofs` proves, with any faults, any number of resources and any limit to the requests:

* `UsesControlPlane`: every behaviour with the CLI is one of `ControlPlane`, hence `NoUpdateOfTheCliLost` and all
  that is proved there;
* `CliTypeCorrect`, and `DeployIsComplete`: a deploy ends without an error only if a PUT of *every* resource
  was accepted. `AskedForRest` is the induction: what a deploy need not ask for any more, it has;
* `SaidDeployedMeansLive`, if `Polite`, and `NotFoundMeansGone`, if `Polite` and `OneHome`: the properties
  `SaidDeployedIsLive` and `NotFoundIsGone` of `cli`.

The second of these is `HomeInv` read at the right moment. The first is not: with health reports
`SucceededIsLive` is false, yet a deploy may trust the state it polls. `Served` is why: nobody works for the
resource but the PUT the deploy had accepted, that PUT's save made the state None, and a health report can write no
Succeeded that it has not read. `MineAreServed` says so of every PUT of the command, and that what has been
polled is live.

`DeploymentProofs` proves, for any requests, names, applications, environments, resources and operations:

* `TypeCorrect`, `NothingSucceedsUnapplied`, `RemovesWhatIsDestroyed`, `KeepsWhatIsInUse`: the invariants and
  action properties of `api`.

Everybody there works on copies: a request on the records it found, the controller on the resource. `Since` says
what a record can be that was once copied: the copy, the copy removed, or something with a greater
ETag; every step of every actor leaves that true (`Step`, `RequestStep`). Hence a record that is as it was found has
been so all the while, and what the filter or the controller concluded from it holds still (`Filtered`,
`EnvOfApp`, `RemovesRightly`). That a Succeeded is of what was applied needs that only a PUT writes a record
under a running controller (`PutMeanwhile`).

Every invariant and action property that a passing run checks is a theorem. Model-checked only are the liveness
properties (`EventuallyConcluded`, `EventuallySettled`, `EventuallyWatching`,
`SignalEndsTheHost`, `AllEndedEndsTheHost`), because the prover does not do fairness.

## Not modelled

* **HTTP routing, gateway, generated gRPC code, UI**: stateless wiring, or not written by hand. A request is
  handled by one handler, and the handlers are modelled where they change state.
* **Credentials, catalog items, resource types**: kept by generic handlers of one call of the database, which
  nothing else in the program reads while it decides. Placement rules are written in `Placement` by one step each.
* **CLI**: commands that print, and those that put or delete one environment, placement or catalog item and end.
* **Parsing, validation, defaults**: a rejected request changes nothing. Loading of configuration files and
  connections at the start of a program.
* **Terraform's files**: the contents of the generated configuration, of backends and providers. `Agent` knows
  whose configuration a file holds and whose state a backend names, nothing else.
* **Kubernetes**: whether a container is healthy changes at any time; how that is found out is left out.
* **Memory model**: the unlocked reads of slice elements in `DispatchResourceEvent` and of the agent's
  configuration in its management API are data races; the models let them return a value from before or
  after any write, not a torn one.

## Plan

1. The two abstractions `ControlPlane` makes, as refinements: `EnvironmentServer`, whose streams should implement the
   one channel of an environment, and `Placement`, whose outcomes should be among those `DispatchPlace` may choose.
2. Weaker conditions: `NothingOrphaned` needs `OneHome` only for a resource that is placed more than once, and
   `Polite` only within a resource.
3. `Identities`: keys of the database and working directories whose names collide, as a module of its own;
   `Records` and `Agent` have the two collisions that change what a property says.
