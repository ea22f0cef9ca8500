---------------------------- MODULE ControlPlane ----------------------------
(***************************************************************************)
(* The life of a resource across ryobid and its environment agents.        *)
(*                                                                         *)
(* A PUT or DELETE of a resource is served by an HTTP goroutine            *)
(* (DefaultAsyncPut, DefaultAsyncDelete), which queues an operation.  The  *)
(* worker runs the ResourceDispatcher, which reads the resource record and *)
(* its application, picks an environment and sends an event to the agent   *)
(* watching it.  The agent runs Terraform in a goroutine per event and     *)
(* reports the result; ReportResult and ReportStatus write the record from *)
(* gRPC goroutines.  The operation's own status, the queue and the worker  *)
(* are AsyncOperations: every step of that module that happens here is a   *)
(* conjunct of the action it belongs to.                                   *)
(*                                                                         *)
(* All writers of a resource record read it first and save the whole       *)
(* record later, so reads and writes are separate steps, and a writer      *)
(* keeps the record as it read it.                                         *)
(***************************************************************************)
EXTENDS Integers, Sequences

CONSTANTS
    Operations,   (* requests a client makes, each with its operation id    *)
    Resources,    (* resource ids, all in one application                   *)
    Envs,         (* environments                                           *)
    Calls,        (* agent goroutines, one per event received               *)
    NoOp, NoEnv,  (* "none"                                                 *)
    AppEnv,       (* environment named by the application, or NoEnv         *)
    NamesRecipe,  (* do the resources name their recipe?                    *)
    Capacity,     (* buffer of a watch channel, 64 in the code              *)
    MaxETag,      (* bound: no health report of a record saved more often   *)
    Faults        (* what may go wrong in a behaviour                       *)

FaultKinds == {"impolite",     (* clients do not wait for the previous request *)
               "disconnect",   (* watch streams break, losing their buffer     *)
               "crash",        (* agents restart, losing running goroutines    *)
               "lostReport",   (* a ReportResult call fails; it is not retried *)
               "health",       (* agents report health while results arrive    *)
               "appDelete"}    (* the application is deleted, and put again    *)

ASSUME ControlPlaneAssumption ==
    /\ NoOp \notin Operations
    /\ NoEnv \notin Envs
    /\ AppEnv \in Envs \cup {NoEnv}
    /\ NamesRecipe \in BOOLEAN
    /\ Capacity \in Nat \ {0}
    /\ MaxETag \in Nat
    /\ Faults \subseteq FaultKinds

VARIABLES
    status, enqueueing, messages, worker, call, runs, dispatched, dropped,
                  (* see AsyncOperations                                    *)
    record,       (* resource id -> record in the database                  *)
    app,          (* does the application exist?                            *)
    request,      (* the HTTP goroutines                                    *)
    dispatcher,   (* ResourceDispatcher.Run, in the worker goroutine        *)
    watching,     (* environments with a watch stream                       *)
    channel,      (* environment -> events buffered for its watcher         *)
    task,         (* the agents' goroutines, up to their ReportResult call  *)
    watched,      (* environment -> resources whose health its agent checks *)
    reporter,     (* resource id -> ReportStatus goroutine                  *)
    infra,        (* environment -> resource -> operation whose spec is live*)
    lastPut       (* history: resource id -> its last accepted PUT          *)

opsVars  == <<status, enqueueing, messages, worker, call, runs, dispatched, dropped>>
restVars == <<record, app, request, dispatcher, watching, channel, task,
              watched, reporter, infra, lastPut>>
vars     == <<opsVars, restVars>>

Ops == INSTANCE AsyncOperations WITH Registered <- Operations

ResourceStates == {"None", "Deploying", "Deleting", "Succeeded", "Failed"}
SomeOp == Operations \cup {NoOp}

(* datamodel.Resource: the spec stands for the PUT whose body it holds.    *)
(* The ETag survives a deletion here because the database never draws the  *)
(* same UUID twice.                                                        *)
Record  == [exists : BOOLEAN, spec : SomeOp, state : ResourceStates,
            env : Envs \cup {NoEnv}, healthy : BOOLEAN, etag : Nat]
Blank   == [exists |-> FALSE, spec |-> NoOp, state |-> "None", env |-> NoEnv,
            healthy |-> FALSE, etag |-> 0]

Request    == [pc : {"idle", "save", "queue", "enqueue", "accepted", "ended"},
               method : {"PUT", "DELETE"}, resource : Resources, read : Record]
Dispatcher == [pc : {"get", "app", "place", "save", "send"},
               read : Record, env : Envs \cup {NoEnv}]
Task       == [pc : {"free", "running", "executed", "write", "update", "ended"},
               op : SomeOp, spec : SomeOp, env : Envs \cup {NoEnv},
               success : BOOLEAN, read : Record]
Event      == [op : Operations, spec : SomeOp]

TypeOK ==
    /\ Ops!TypeOK
    /\ record     \in [Resources -> Record]
    /\ app        \in BOOLEAN
    /\ request    \in [Operations -> Request]
    /\ dispatcher \in Dispatcher
    /\ watching   \subseteq Envs
    /\ channel    \in [Envs -> Seq(Event)]
    /\ \A e \in Envs : Len(channel[e]) <= Capacity
    /\ task       \in [Calls -> Task]
    /\ watched    \in [Envs -> SUBSET Resources]
    /\ reporter   \in [Resources -> [pc : {"idle", "called", "save"}, read : Record]]
    /\ infra      \in [Envs -> [Resources -> SomeOp]]
    /\ lastPut    \in [Resources -> SomeOp]

IdleDispatcher == [pc |-> "get", read |-> Blank, env |-> NoEnv]
FreeTask       == [pc |-> "free", op |-> NoOp, spec |-> NoOp, env |-> NoEnv,
                   success |-> FALSE, read |-> Blank]
EndedTask      == [FreeTask EXCEPT !.pc = "ended"]
IdleReporter   == [pc |-> "idle", read |-> Blank]

Init ==
    /\ Ops!Init
    /\ record     = [r \in Resources |-> Blank]
    /\ app        = TRUE
    /\ request    \in [Operations -> [pc : {"idle"}, method : {"PUT", "DELETE"},
                                      resource : Resources, read : {Blank}]]
    /\ dispatcher = IdleDispatcher
    /\ watching   = Envs
    /\ channel    = [e \in Envs |-> <<>>]
    /\ task       = [c \in Calls |-> FreeTask]
    /\ watched    = [e \in Envs |-> {}]
    /\ reporter   = [r \in Resources |-> IdleReporter]
    /\ infra      = [e \in Envs |-> [r \in Resources |-> NoOp]]
    /\ lastPut    = [r \in Resources |-> NoOp]

(* The record a Save stores: the writer's data and a fresh ETag.           *)
Stored(r, data) == [data EXCEPT !.exists = TRUE, !.etag = record[r].etag + 1]

(* database.Save with and without an ETag.  With one, a record that is     *)
(* gone or was saved by somebody else since is left alone.                 *)
Matches(r, read) == record[r].exists /\ record[r].etag = read.etag

SaveUnchecked(r, data) == record' = [record EXCEPT ![r] = Stored(r, data)]

MutantSaveWithoutETag(r, data) ==
    IF record[r].exists THEN SaveUnchecked(r, data) ELSE UNCHANGED record

MutantSaveUpserts(r, data) ==
    IF record[r].exists => Matches(r, data) THEN SaveUnchecked(r, data) ELSE UNCHANGED record

SaveChecked(r, data) ==
    IF Matches(r, data) THEN SaveUnchecked(r, data) ELSE UNCHANGED record

(* database.Delete as ReportResult calls it: no ETag, NotFound is logged.  *)
DeleteRecord(r) == record' = [record EXCEPT ![r].exists = FALSE]

-----------------------------------------------------------------------------
(* Clients.  A polite client starts a request when nothing is under way    *)
(* for its resource any more.                                              *)

UnderWay(o) ==
    \/ request[o].pc \in {"save", "queue", "enqueue"}
    \/ Ops!Queued(o)
    \/ \E e \in Envs : \E i \in DOMAIN channel[e] : channel[e][i].op = o
    \/ \E c \in Calls : task[c].op = o /\ task[c].pc \notin {"free", "ended"}

Settled(r) == \A o \in Operations : request[o].resource = r => ~UnderWay(o)

(* The first step of both handlers is the Get; a DELETE of an absent       *)
(* resource answers 204, any other DELETE has nothing to save.             *)
BeginRequest(o) ==
    LET r == request[o].resource IN
    /\ request[o].pc = "idle"
    /\ "impolite" \in Faults \/ Settled(r)
    /\ request' = [request EXCEPT
         ![o].read = IF request[o].method = "PUT" THEN record[r] ELSE Blank,
         ![o].pc   = IF request[o].method = "PUT" THEN "save"
                     ELSE IF record[r].exists THEN "queue" ELSE "ended"]
    /\ UNCHANGED <<opsVars, record, app, dispatcher, watching, channel, task,
                   watched, reporter, infra, lastPut>>

MutantPutKeepsStatus(o) ==
    LET r      == request[o].resource
        isNew  == ~request[o].read.exists
        body   == [request[o].read EXCEPT !.spec = o]
    IN
    /\ request[o].pc = "save"
    /\ \/ /\ isNew \/ Matches(r, request[o].read)
          /\ SaveUnchecked(r, body)
          /\ lastPut' = [lastPut EXCEPT ![r] = o]
          /\ request' = [request EXCEPT ![o].pc = "queue", ![o].read = Blank]
       \/ /\ ~isNew /\ ~Matches(r, request[o].read)
          /\ request' = [request EXCEPT ![o].pc = "ended", ![o].read = Blank]
          /\ UNCHANGED <<record, lastPut>>
    /\ UNCHANGED <<opsVars, app, dispatcher, watching, channel, task, watched,
                   reporter, infra>>

(* A new resource is saved unconditionally, an existing one only if it is  *)
(* still as it was read; a conflict is answered with an error.  The body   *)
(* of the request replaces the whole record, status included.              *)
PutSave(o) ==
    LET r      == request[o].resource
        isNew  == ~request[o].read.exists
        body   == [Blank EXCEPT !.spec = o]
    IN
    /\ request[o].pc = "save"
    /\ \/ /\ isNew \/ Matches(r, request[o].read)
          /\ SaveUnchecked(r, body)
          /\ lastPut' = [lastPut EXCEPT ![r] = o]
          /\ request' = [request EXCEPT ![o].pc = "queue", ![o].read = Blank]
       \/ /\ ~isNew /\ ~Matches(r, request[o].read)
          /\ request' = [request EXCEPT ![o].pc = "ended", ![o].read = Blank]
          /\ UNCHANGED <<record, lastPut>>
    /\ UNCHANGED <<opsVars, app, dispatcher, watching, channel, task, watched,
                   reporter, infra>>

(* QueueAsyncOperation, then 202 Accepted.                                 *)
QueueOperation(o) ==
    /\ request[o].pc = "queue"
    /\ Ops!SaveAccepted(o)
    /\ request' = [request EXCEPT ![o].pc = "enqueue"]
    /\ UNCHANGED <<record, app, dispatcher, watching, channel, task, watched,
                   reporter, infra, lastPut>>

EnqueueOperation(o) ==
    /\ request[o].pc = "enqueue"
    /\ Ops!Enqueue(o)
    /\ request' = [request EXCEPT ![o].pc = "accepted"]
    /\ UNCHANGED <<record, app, dispatcher, watching, channel, task, watched,
                   reporter, infra, lastPut>>

(* PUT of the application: the deployment flows of the CLI begin with it.  *)
PutApplication ==
    /\ "appDelete" \in Faults
    /\ app' = TRUE
    /\ UNCHANGED <<opsVars, record, request, dispatcher, watching, channel,
                   task, watched, reporter, infra, lastPut>>

(* DELETE of the application removes its record only.                      *)
DeleteApplication ==
    /\ "appDelete" \in Faults
    /\ app
    /\ app' = FALSE
    /\ UNCHANGED <<opsVars, record, request, dispatcher, watching, channel,
                   task, watched, reporter, infra, lastPut>>

-----------------------------------------------------------------------------
(* The worker outside the dispatcher.                                      *)
WorkerOutside ==
    /\ \/ \E i \in DOMAIN messages : Ops!Dequeue(i) \/ Ops!Complete(i)
       \/ Ops!StartGet \/ Ops!StartSave
       \/ Ops!FinalGet \/ Ops!FinalSave
    /\ UNCHANGED restVars

VisibilityExpires ==
    /\ \E i \in DOMAIN messages : Ops!VisibilityExpires(i)
    /\ UNCHANGED restVars

(* ResourceDispatcher.Run.                                                 *)
Dispatching(pc) == worker.pc = "run" /\ dispatcher.pc = pc
Handled         == request[worker.op].resource
DispatchMethod  == request[worker.op].method

(* setResourceFailed and an error result.                                  *)
FailDispatch ==
    /\ SaveChecked(Handled, [dispatcher.read EXCEPT !.state = "Failed"])
    /\ Ops!ControllerFails
    /\ dispatcher' = IdleDispatcher

MutantDispatchGetReturnsEarly ==
    /\ Dispatching("get")
    /\ IF record[Handled].exists
       THEN /\ dispatcher' = [dispatcher EXCEPT !.pc = "app", !.read = record[Handled]]
            /\ UNCHANGED opsVars
       ELSE /\ worker' = [worker EXCEPT !.pc = "complete"]
            /\ UNCHANGED <<status, enqueueing, messages, call, runs, dispatched,
                            dropped, dispatcher>>
    /\ UNCHANGED <<record, app, request, watching, channel, task, watched,
                   reporter, infra, lastPut>>

DispatchGet ==
    /\ Dispatching("get")
    /\ IF record[Handled].exists
       THEN /\ dispatcher' = [dispatcher EXCEPT !.pc = "app", !.read = record[Handled]]
            /\ UNCHANGED opsVars
       ELSE /\ Ops!ControllerFails
            /\ UNCHANGED dispatcher
    /\ UNCHANGED <<record, app, request, watching, channel, task, watched,
                   reporter, infra, lastPut>>

DispatchApp ==
    /\ Dispatching("app")
    /\ IF app
       THEN /\ dispatcher' = [dispatcher EXCEPT
                                !.pc  = IF AppEnv # NoEnv /\ NamesRecipe
                                        THEN "save" ELSE "place",
                                !.env = AppEnv]
            /\ UNCHANGED <<opsVars, record>>
       ELSE FailDispatch
    /\ UNCHANGED <<app, request, watching, channel, task, watched, reporter,
                   infra, lastPut>>

(* The placement engine picks some connected environment that supports the *)
(* type (see Placement), or none if there is none or the rules exclude     *)
(* them all; it does not know where the resource is.  It is asked also     *)
(* when only the recipe is open; the recipe is then that of the            *)
(* environment picked, which need not be AppEnv.                           *)
DispatchPlace ==
    /\ Dispatching("place")
    /\ \/ /\ \E e \in watching :
               dispatcher' = [dispatcher EXCEPT
                                !.pc  = "save",
                                !.env = IF AppEnv = NoEnv THEN e ELSE AppEnv]
          /\ UNCHANGED <<opsVars, record>>
       \/ FailDispatch
    /\ UNCHANGED <<app, request, watching, channel, task, watched, reporter,
                   infra, lastPut>>

(* The status is saved with the ETag of the Get; the error is dropped.     *)
DispatchSave ==
    LET started == [dispatcher.read EXCEPT
                      !.state = IF DispatchMethod = "PUT" THEN "Deploying" ELSE "Deleting",
                      !.env   = dispatcher.env]
    IN
    /\ Dispatching("save")
    /\ SaveChecked(Handled, started)
    /\ dispatcher' = [dispatcher EXCEPT
         !.pc   = "send",
         !.read = IF Matches(Handled, started) THEN Stored(Handled, started) ELSE started]
    /\ UNCHANGED <<opsVars, app, request, watching, channel, task, watched,
                   reporter, infra, lastPut>>

MutantDispatchSendUnbounded ==
    LET e     == dispatcher.env
        event == [op |-> worker.op, spec |-> dispatcher.read.spec]
    IN
    /\ Dispatching("send")
    /\ e \in watching
    /\ channel' = [channel EXCEPT ![e] = Append(@, event)]
    /\ Ops!ControllerDispatches
    /\ dispatcher' = IdleDispatcher
    /\ UNCHANGED <<record, app, request, watching, task, watched, reporter,
                   infra, lastPut>>

MutantDispatchSendAnywhere ==
    LET event == [op |-> worker.op, spec |-> dispatcher.read.spec] IN
    /\ Dispatching("send")
    /\ \E e \in watching : channel' = [channel EXCEPT ![e] = Append(@, event)]
    /\ Ops!ControllerDispatches
    /\ dispatcher' = IdleDispatcher
    /\ UNCHANGED <<record, app, request, watching, task, watched, reporter,
                   infra, lastPut>>

(* DispatchResourceEvent: an error without a watcher; with a full channel  *)
(* the event is dropped, and the record stays as DispatchSave left it.  The*)
(* event carries the spec that was read at the beginning.                  *)
DispatchSend ==
    LET e     == dispatcher.env
        event == [op |-> worker.op, spec |-> dispatcher.read.spec]
    IN
    /\ Dispatching("send")
    /\ \/ /\ e \in watching /\ Len(channel[e]) < Capacity
          /\ channel' = [channel EXCEPT ![e] = Append(@, event)]
          /\ Ops!ControllerDispatches
          /\ dispatcher' = IdleDispatcher
          /\ UNCHANGED record
       \/ /\ e \in watching /\ Len(channel[e]) = Capacity
          /\ Ops!ControllerDrops
          /\ dispatcher' = IdleDispatcher
          /\ UNCHANGED <<record, channel>>
       \/ /\ e \notin watching
          /\ FailDispatch
          /\ UNCHANGED channel
    /\ UNCHANGED <<app, request, watching, task, watched, reporter, infra,
                   lastPut>>

-----------------------------------------------------------------------------
(* Agents.  Each event received is processed by a goroutine of its own.    *)
Receive(e, c) ==
    /\ e \in watching
    /\ channel[e] # <<>>
    /\ task[c].pc = "free"
    /\ task' = [task EXCEPT ![c] = [FreeTask EXCEPT
                  !.pc = "running", !.env = e,
                  !.op = Head(channel[e]).op, !.spec = Head(channel[e]).spec]]
    /\ channel' = [channel EXCEPT ![e] = Tail(@)]
    /\ UNCHANGED <<opsVars, record, app, request, dispatcher, watching,
                   watched, reporter, infra, lastPut>>

TaskResource(c) == request[task[c].op].resource
TaskMethod(c)   == request[task[c].op].method

(* terraform apply or destroy.  A failed run may have changed the          *)
(* infrastructure or not.                                                  *)
Execute(c) ==
    LET target == IF TaskMethod(c) = "PUT" THEN task[c].spec ELSE NoOp IN
    /\ task[c].pc = "running"
    /\ \E success \in BOOLEAN :
         /\ task' = [task EXCEPT ![c].pc = "executed", ![c].success = success]
         /\ \/ infra' = [infra EXCEPT ![task[c].env][TaskResource(c)] = target]
            \/ ~success /\ UNCHANGED infra
    /\ UNCHANGED <<opsVars, record, app, request, dispatcher, watching,
                   channel, watched, reporter, lastPut>>

(* After its ReportResult call, failed or not, the goroutine starts to     *)
(* watch the health of what it deployed, or stops watching what it was     *)
(* told to destroy.                                                        *)
EndTask(c) ==
    LET e == task[c].env
        r == TaskResource(c)
    IN
    /\ task' = [task EXCEPT ![c] = EndedTask]
    /\ watched' = [watched EXCEPT ![e] =
         IF TaskMethod(c) = "DELETE" THEN @ \ {r}
         ELSE IF task[c].success THEN @ \cup {r} ELSE @]

(* The report does not reach ryobid; the agent logs the error, no more.    *)
LoseReport(c) ==
    /\ "lostReport" \in Faults
    /\ task[c].pc = "executed"
    /\ EndTask(c)
    /\ UNCHANGED <<opsVars, record, app, request, dispatcher, watching,
                   channel, reporter, infra, lastPut>>

(* The stream breaks: buffered events are lost, goroutines go on.          *)
Disconnect(e) ==
    /\ "disconnect" \in Faults
    /\ e \in watching
    /\ watching' = watching \ {e}
    /\ channel' = [channel EXCEPT ![e] = <<>>]
    /\ UNCHANGED <<opsVars, record, app, request, dispatcher, task, watched,
                   reporter, infra, lastPut>>

Reconnect(e) ==
    /\ e \notin watching
    /\ watching' = watching \cup {e}
    /\ UNCHANGED <<opsVars, record, app, request, dispatcher, channel, task,
                   watched, reporter, infra, lastPut>>

(* The agent process ends; what it was doing is forgotten.                 *)
Crash(e) ==
    /\ "crash" \in Faults
    /\ e \in watching
    /\ watching' = watching \ {e}
    /\ channel' = [channel EXCEPT ![e] = <<>>]
    /\ watched' = [watched EXCEPT ![e] = {}]
    /\ task' = [c \in Calls |->
                  IF task[c].env = e /\ task[c].pc \in {"running", "executed"}
                  THEN EndedTask ELSE task[c]]
    /\ UNCHANGED <<opsVars, record, app, request, dispatcher, reporter, infra,
                   lastPut>>

-----------------------------------------------------------------------------
(* EnvironmentServer.ReportResult.                                         *)

(* The record is read; if it is gone the call is acknowledged and neither  *)
(* the record nor the operation is written.                                *)
ReportResultGet(c) ==
    LET r == TaskResource(c) IN
    /\ task[c].pc = "executed"
    /\ \/ /\ record[r].exists
          /\ task' = [task EXCEPT ![c].pc = "write", ![c].read = record[r]]
          /\ UNCHANGED watched
       \/ ~record[r].exists /\ EndTask(c)
    /\ UNCHANGED <<opsVars, record, app, request, dispatcher, watching,
                   channel, reporter, infra, lastPut>>

MutantReportAlwaysSucceeds(c) ==
    LET r           == TaskResource(c)
        wasDeleting == task[c].read.state = "Deleting"
        concluded   == "Succeeded"
    IN
    /\ task[c].pc = "write"
    /\ IF task[c].success /\ wasDeleting
       THEN DeleteRecord(r)
       ELSE SaveChecked(r, [task[c].read EXCEPT !.state = concluded])
    /\ Ops!ReportArrives(c, task[c].op, concluded)
    /\ task' = [task EXCEPT ![c].pc = "update", ![c].read = Blank]
    /\ UNCHANGED <<app, request, dispatcher, watching, channel, watched,
                   reporter, infra, lastPut>>

MutantReportRemovesOnFailure(c) ==
    LET r           == TaskResource(c)
        wasDeleting == task[c].read.state = "Deleting"
        concluded   == IF task[c].success THEN "Succeeded" ELSE "Failed"
    IN
    /\ task[c].pc = "write"
    /\ IF wasDeleting
       THEN DeleteRecord(r)
       ELSE SaveChecked(r, [task[c].read EXCEPT !.state = concluded])
    /\ Ops!ReportArrives(c, task[c].op, concluded)
    /\ task' = [task EXCEPT ![c].pc = "update", ![c].read = Blank]
    /\ UNCHANGED <<app, request, dispatcher, watching, channel, watched,
                   reporter, infra, lastPut>>

MutantReportForgetsFailure(c) ==
    LET r           == TaskResource(c)
        wasDeleting == task[c].read.state = "Deleting"
        concluded   == IF task[c].success THEN "Succeeded" ELSE "Failed"
    IN
    /\ task[c].pc = "write"
    /\ IF task[c].success /\ wasDeleting
       THEN DeleteRecord(r)
       ELSE IF task[c].success THEN SaveChecked(r, [task[c].read EXCEPT !.state = concluded])
                       ELSE UNCHANGED record
    /\ Ops!ReportArrives(c, task[c].op, concluded)
    /\ task' = [task EXCEPT ![c].pc = "update", ![c].read = Blank]
    /\ UNCHANGED <<app, request, dispatcher, watching, channel, watched,
                   reporter, infra, lastPut>>

(* Whether the result belongs to a deletion is told from the state read,   *)
(* not from the operation reported.                                        *)
ReportResultWrite(c) ==
    LET r           == TaskResource(c)
        wasDeleting == task[c].read.state = "Deleting"
        concluded   == IF task[c].success THEN "Succeeded" ELSE "Failed"
    IN
    /\ task[c].pc = "write"
    /\ IF task[c].success /\ wasDeleting
       THEN DeleteRecord(r)
       ELSE SaveChecked(r, [task[c].read EXCEPT !.state = concluded])
    /\ Ops!ReportArrives(c, task[c].op, concluded)
    /\ task' = [task EXCEPT ![c].pc = "update", ![c].read = Blank]
    /\ UNCHANGED <<app, request, dispatcher, watching, channel, watched,
                   reporter, infra, lastPut>>

ReportResultUpdateGet(c) ==
    /\ task[c].pc = "update"
    /\ Ops!ReportGet(c)
    /\ UNCHANGED restVars

ReportResultUpdateSave(c) ==
    /\ task[c].pc = "update"
    /\ Ops!ReportSave(c)
    /\ EndTask(c)
    /\ UNCHANGED <<record, app, request, dispatcher, watching, channel,
                   reporter, infra, lastPut>>

(* The agent's watcher takes a copy of what it watches, checks each entry  *)
(* and reports it; meanwhile the resource may be destroyed.                *)
CheckHealth(r) ==
    /\ "health" \in Faults
    /\ \E e \in Envs : r \in watched[e]
    /\ reporter[r].pc = "idle"
    /\ record[r].etag < MaxETag
    /\ reporter' = [reporter EXCEPT ![r].pc = "called"]
    /\ UNCHANGED <<opsVars, record, app, request, dispatcher, watching,
                   channel, task, watched, infra, lastPut>>

(* EnvironmentServer.ReportStatus.                                         *)
ReportStatusGet(r) ==
    /\ reporter[r].pc = "called"
    /\ reporter' = [reporter EXCEPT
         ![r] = IF record[r].exists THEN [pc |-> "save", read |-> record[r]]
                                    ELSE IdleReporter]
    /\ UNCHANGED <<opsVars, record, app, request, dispatcher, watching,
                   channel, task, watched, infra, lastPut>>

ReportStatusSave(r) ==
    /\ reporter[r].pc = "save"
    /\ SaveChecked(r, [reporter[r].read EXCEPT !.healthy = TRUE])
    /\ reporter' = [reporter EXCEPT ![r] = IdleReporter]
    /\ UNCHANGED <<opsVars, app, request, dispatcher, watching, channel, task,
                   watched, infra, lastPut>>

-----------------------------------------------------------------------------
DispatcherStep == DispatchGet \/ DispatchApp \/ DispatchPlace \/ DispatchSave \/ DispatchSend

RequestStep(o) ==
    BeginRequest(o) \/ PutSave(o) \/ QueueOperation(o) \/ EnqueueOperation(o)

ReportStep(c) ==
    \/ ReportResultGet(c) \/ ReportResultWrite(c)
    \/ ReportResultUpdateGet(c) \/ ReportResultUpdateSave(c)

Next ==
    \/ \E o \in Operations : RequestStep(o)
    \/ PutApplication \/ DeleteApplication
    \/ WorkerOutside \/ VisibilityExpires \/ DispatcherStep
    \/ \E e \in Envs : Disconnect(e) \/ Reconnect(e) \/ Crash(e)
    \/ \E e \in Envs, c \in Calls : Receive(e, c)
    \/ \E c \in Calls : Execute(c) \/ LoseReport(c) \/ ReportStep(c)
    \/ \E r \in Resources : CheckHealth(r) \/ ReportStatusGet(r) \/ ReportStatusSave(r)

Spec == Init /\ [][Next]_vars

(* The worker polls on a ticker; the goroutines of requests, events and    *)
(* reports are scheduled; Terraform terminates.  Clients need not begin a  *)
(* request, and agents need not report health.                             *)
Fairness ==
    /\ WF_vars(WorkerOutside \/ DispatcherStep)
    /\ \A o \in Operations : WF_vars(PutSave(o) \/ QueueOperation(o) \/ EnqueueOperation(o))
    /\ \A e \in Envs : WF_vars(\E c \in Calls : Receive(e, c)) /\ WF_vars(Reconnect(e))
    /\ \A c \in Calls : WF_vars(Execute(c) \/ ReportStep(c))
    /\ \A r \in Resources : WF_vars(ReportStatusGet(r) \/ ReportStatusSave(r))

FairSpec == Spec /\ Fairness

-----------------------------------------------------------------------------
(* The composed system is an AsyncOperations system.                       *)
RefinesOperations == Ops!Spec

(* A status writer never undoes a client's update: whatever the dispatcher,*)
(* ReportResult and ReportStatus save from old reads, a record that exists *)
(* holds the spec of the last PUT that was accepted.                       *)
SpecIsLastPut ==
    \A r \in Resources : record[r].exists => record[r].spec = lastPut[r]

(* A late status report never resurrects a deleted resource: only a PUT    *)
(* creates a record.                                                       *)
OnlyPutCreates ==
    [][\A r \in Resources :
         ~record[r].exists /\ record'[r].exists =>
           \E o \in Operations : /\ request[o].pc = "save" /\ request'[o].pc = "queue"
                                 /\ request[o].resource = r]_vars

(* When nothing is under way for a resource, a record that says Succeeded  *)
(* tells the truth: its spec is live in the environment it names.          *)
SucceededIsLive ==
    \A r \in Resources :
        Settled(r) /\ record[r].exists /\ record[r].state = "Succeeded"
          => infra[record[r].env][r] = record[r].spec

(* A resource without a record leaves no infrastructure behind.            *)
NothingOrphaned ==
    \A r \in Resources :
        Settled(r) /\ ~record[r].exists => \A e \in Envs : infra[e][r] = NoOp

(* A resource that is being deployed or deleted is concluded: its channel, *)
(* its agent or a report holds on to it until the record says how it ended.*)
(* There is one exception, and it needs no fault: with a full channel the  *)
(* event is dropped, nobody works for the resource any more, and its record*)
(* says Deploying or Deleting until the next request.                      *)
Changing(r) == record[r].exists /\ record[r].state \in {"Deploying", "Deleting"}
Unserved(r) == Settled(r) /\ \E o \in dropped : request[o].resource = r

EventuallySettled ==
    \A r \in Resources : Changing(r) ~> ~Changing(r) \/ Unserved(r)

(* pkg/grpcapi/server.go:244: the branch that removes the record is for a  *)
(* delete operation that succeeded.                                        *)
RemovalIsOfADelete ==
    [][\A c \in Calls :
         ( /\ task[c].pc = "write" /\ task'[c].pc = "update"
           /\ record[TaskResource(c)].exists /\ ~record'[TaskResource(c)].exists )
           => TaskMethod(c) = "DELETE"]_vars
=============================================================================
