------------------------- MODULE ControlPlaneProofs -------------------------
(***************************************************************************)
(* Proofs about ControlPlane for any number of requests, resources,        *)
(* environments and agent goroutines, and whatever faults are allowed.     *)
(* What the composed system inherits from AsyncOperations is taken from    *)
(* the invariant proved there.  The rest is the ETag argument: a copy of a *)
(* record that a status writer holds is either older than the record, and  *)
(* then its save is refused, or has the record's spec.                     *)
(*                                                                         *)
(* The second half follows an operation from its request to its report.    *)
(* First without any restriction: its event is in one place (SentInv).     *)
(* Then, with clients that wait (Polite), a resource has one actor at a    *)
(* time and a PUT under way is what its record, its event and its agent    *)
(* hold (PoliteInv).  If the application names its environment (OneHome),  *)
(* nothing is orphaned (HomeInv); if there are no health reports (Quiet),  *)
(* a record is written by that actor only and tells the truth (QuietInv).  *)
(***************************************************************************)
EXTENDS ControlPlane, TLAPS

OpsProofs == INSTANCE AsyncOperationsProofs WITH Registered <- Operations

(* The dispatcher runs inside the worker's run of an operation.            *)
DispatcherInRun == dispatcher.pc # "get" => worker.pc = "run"

(* A goroutine of an agent works for an operation of an environment.       *)
TasksAreOfOperations ==
    \A c \in Calls :
        task[c].pc \notin {"free", "ended"} => task[c].op \in Operations /\ task[c].env \in Envs

(* A copy taken of a record that has gone through further saves since.     *)
IsCopyOf(rec, read) ==
    /\ read.etag <= rec.etag
    /\ rec.exists /\ read.etag = rec.etag => read.spec = rec.spec

CopiesAreOld ==
    /\ dispatcher.pc # "get" => IsCopyOf(record[Handled], dispatcher.read)
    /\ \A c \in Calls :
         task[c].pc = "write" => IsCopyOf(record[TaskResource(c)], task[c].read)
    /\ \A r \in Resources :
         reporter[r].pc = "save" => IsCopyOf(record[r], reporter[r].read)

IInv ==
    /\ OpsProofs!IInv
    /\ TypeOK
    /\ DispatcherInRun
    /\ TasksAreOfOperations
    /\ CopiesAreOld
    /\ SpecIsLastPut

-----------------------------------------------------------------------------
(* AsyncOperations inside ControlPlane.                                    *)

(* An operation is under work whenever the worker is not idle.             *)
LEMMA OpsFacts ==
    ASSUME OpsProofs!IInv
    PROVE  /\ Ops!TypeOK
           /\ worker.pc # "idle" => worker.op \in Operations
BY DEF OpsProofs!IInv, OpsProofs!TypeOK, Ops!TypeOK, OpsProofs!StatusRecord, Ops!StatusRecord,
       OpsProofs!Message, Ops!Message, OpsProofs!Worker, Ops!Worker, OpsProofs!Call, Ops!Call,
       OpsProofs!ProvisioningStates, Ops!ProvisioningStates, OpsProofs!TerminalStates,
       Ops!TerminalStates, OpsProofs!WorkerPC, Ops!WorkerPC, OpsProofs!CallPC, Ops!CallPC,
       OpsProofs!WorkerHoldsMessage

(* A step of the machinery, seen from here or from the module of its proofs. *)
LEMMA OpsStep ==
    ASSUME [Ops!Next]_(Ops!vars)
    PROVE  [OpsProofs!Next]_(OpsProofs!vars)
BY DEF OpsProofs!Next, Ops!Next, OpsProofs!vars, Ops!vars,
       OpsProofs!WorkerStep, Ops!WorkerStep, OpsProofs!RequestStep, Ops!RequestStep,
       OpsProofs!CallStep, Ops!CallStep, OpsProofs!VisibilityExpires, Ops!VisibilityExpires,
       OpsProofs!Dequeue, Ops!Dequeue, OpsProofs!Complete, Ops!Complete,
       OpsProofs!Without, Ops!Without, OpsProofs!IdleWorker, Ops!IdleWorker,
       OpsProofs!StartGet, Ops!StartGet, OpsProofs!StartSave, Ops!StartSave,
       OpsProofs!Updated, Ops!Updated, OpsProofs!NoController, Ops!NoController,
       OpsProofs!ControllerReturns, Ops!ControllerReturns,
       OpsProofs!ControllerDispatches, Ops!ControllerDispatches,
       OpsProofs!ControllerDrops, Ops!ControllerDrops,
       OpsProofs!ControllerFails, Ops!ControllerFails,
       OpsProofs!ControllerPanics, Ops!ControllerPanics, OpsProofs!Ran, Ops!Ran,
       OpsProofs!FinalGet, Ops!FinalGet, OpsProofs!FinalSave, Ops!FinalSave,
       OpsProofs!SaveAccepted, Ops!SaveAccepted, OpsProofs!Enqueue, Ops!Enqueue,
       OpsProofs!ReportArrives, Ops!ReportArrives, OpsProofs!ReportGet, Ops!ReportGet,
       OpsProofs!ReportSave, Ops!ReportSave, OpsProofs!ReportDropped, Ops!ReportDropped,
       OpsProofs!TerminalStates, Ops!TerminalStates

(* So every step of the machinery preserves the invariant proved of it.    *)
LEMMA OpsInvariant ==
    ASSUME OpsProofs!IInv, [Ops!Next]_(Ops!vars)
    PROVE  OpsProofs!IInv'
BY OpsStep, OpsProofs!NextIInv, ControlPlaneAssumption

(* Every step is a step of the machinery or leaves it alone.               *)
LEMMA StepOfOps ==
    ASSUME TypeOK, TasksAreOfOperations, [Next]_vars
    PROVE  [Ops!Next]_(Ops!vars)
<1> USE DEF Ops!vars
<1>1. ASSUME UNCHANGED opsVars PROVE [Ops!Next]_(Ops!vars)
  BY <1>1 DEF opsVars
<1>2. ASSUME NEW o \in Operations, RequestStep(o) PROVE [Ops!Next]_(Ops!vars)
  <2>1. CASE QueueOperation(o) \/ EnqueueOperation(o)
    BY <2>1 DEF QueueOperation, EnqueueOperation, Ops!Next, Ops!RequestStep
  <2>2. CASE BeginRequest(o) \/ PutSave(o)
    BY <1>1, <2>2 DEF BeginRequest, PutSave
  <2>3. QED
    BY <1>2, <2>1, <2>2 DEF RequestStep
<1>3. CASE WorkerOutside \/ VisibilityExpires
  BY <1>3 DEF WorkerOutside, VisibilityExpires, Ops!Next, Ops!WorkerStep
<1>4. CASE DispatcherStep
  <2>1. ASSUME Ops!ControllerFails \/ Ops!ControllerDispatches \/ Ops!ControllerDrops
        PROVE  [Ops!Next]_(Ops!vars)
    BY <2>1 DEF Ops!Next, Ops!WorkerStep
  <2>2. QED
    BY <1>1, <1>4, <2>1 DEF DispatcherStep, DispatchGet, DispatchApp, DispatchPlace,
       DispatchSave, DispatchSend, FailDispatch
<1>5. ASSUME NEW c \in Calls, ReportStep(c) PROVE [Ops!Next]_(Ops!vars)
  <2>1. CASE ReportResultGet(c)
    BY <1>1, <2>1 DEF ReportResultGet
  <2>2. CASE ReportResultWrite(c)
    <3>1. task[c].op \in Operations
      BY <2>2 DEF ReportResultWrite, TasksAreOfOperations
    <3>2. \E verdict \in Ops!TerminalStates : Ops!ReportArrives(c, task[c].op, verdict)
      BY <2>2 DEF ReportResultWrite, Ops!TerminalStates
    <3>3. QED
      BY <3>1, <3>2 DEF Ops!Next, Ops!CallStep
  <2>3. CASE ReportResultUpdateGet(c) \/ ReportResultUpdateSave(c)
    BY <2>3 DEF ReportResultUpdateGet, ReportResultUpdateSave, Ops!Next, Ops!CallStep
  <2>4. QED
    BY <1>5, <2>1, <2>2, <2>3 DEF ReportStep
<1>6. CASE UNCHANGED vars
  BY <1>1, <1>6 DEF vars
<1>7. CASE PutApplication \/ DeleteApplication
  BY <1>1, <1>7 DEF PutApplication, DeleteApplication
<1>8. ASSUME NEW e \in Envs, Disconnect(e) \/ Reconnect(e) \/ Crash(e)
      PROVE  [Ops!Next]_(Ops!vars)
  BY <1>1, <1>8 DEF Disconnect, Reconnect, Crash
<1>9. ASSUME NEW c \in Calls, (\E e \in Envs : Receive(e, c)) \/ Execute(c) \/ LoseReport(c)
      PROVE  [Ops!Next]_(Ops!vars)
  BY <1>1, <1>9 DEF Receive, Execute, LoseReport
<1>10. ASSUME NEW r \in Resources, CheckHealth(r) \/ ReportStatusGet(r) \/ ReportStatusSave(r)
       PROVE  [Ops!Next]_(Ops!vars)
  BY <1>1, <1>10 DEF CheckHealth, ReportStatusGet, ReportStatusSave
<1>11. QED
  BY <1>2, <1>3, <1>4, <1>5, <1>6, <1>7, <1>8, <1>9, <1>10 DEF Next

-----------------------------------------------------------------------------
(* What a step may do to a record.                                         *)

SavesPut(r) ==
    /\ \E o \in Operations : PutSave(o) /\ request[o].resource = r
    /\ record'[r].exists
    /\ record'[r].etag = record[r].etag + 1
    /\ record'[r].spec = lastPut'[r]

SavesStatus(r) ==
    /\ record[r].exists /\ record'[r].exists
    /\ record'[r].etag = record[r].etag + 1
    /\ record'[r].spec = record[r].spec
    /\ lastPut'[r] = lastPut[r]

Removes(r) ==
    /\ ~record'[r].exists
    /\ record'[r].etag = record[r].etag
    /\ lastPut'[r] = lastPut[r]

Keeps(r) == record'[r] = record[r] /\ lastPut'[r] = lastPut[r]

(* A save of an old copy, with whatever status, keeps the spec.            *)
LEMMA SaveCheckedLemma ==
    ASSUME TypeOK, NEW r \in Resources, NEW data \in Record, IsCopyOf(record[r], data),
           SaveChecked(r, data), UNCHANGED lastPut
    PROVE  /\ record' \in [Resources -> Record]
           /\ \A x \in Resources : Keeps(x) \/ SavesStatus(x)
<1>1. CASE Matches(r, data)
  <2>1. record' = [record EXCEPT ![r] = Stored(r, data)]
    BY <1>1 DEF SaveChecked, SaveUnchecked
  <2>2. /\ Stored(r, data) \in Record
        /\ Stored(r, data).exists
        /\ Stored(r, data).etag = record[r].etag + 1
        /\ Stored(r, data).spec = record[r].spec
    <3>1. record[r] \in Record /\ record[r].etag + 1 \in Nat
      BY DEF TypeOK, Record
    <3>2. record[r].exists /\ data.spec = record[r].spec
      BY <1>1 DEF Matches, IsCopyOf
    <3>3. Stored(r, data) \in Record
      BY <3>1 DEF Stored, Record
    <3>4. QED
      BY <3>2, <3>3 DEF Stored, Record
  <2>3. QED
    BY <1>1, <2>1, <2>2 DEF TypeOK, Keeps, SavesStatus, Matches
<1>2. CASE ~Matches(r, data)
  BY <1>2 DEF SaveChecked, Keeps, TypeOK
<1>3. QED
  BY <1>1, <1>2

(* A record just read.                                                     *)
LEMMA FreshCopy ==
    ASSUME NEW rec \in Record
    PROVE  IsCopyOf(rec, rec)
BY DEF IsCopyOf, Record

(* A copy taken earlier stays one.                                         *)
LEMMA CopiesStayOld ==
    ASSUME TypeOK, NEW r \in Resources, NEW read \in Record, IsCopyOf(record[r], read),
           Keeps(r) \/ SavesPut(r) \/ SavesStatus(r) \/ Removes(r)
    PROVE  IsCopyOf(record'[r], read)
BY DEF IsCopyOf, Keeps, SavesPut, SavesStatus, Removes, TypeOK, Record

(* What the dispatcher works on while it is in the middle of a run.        *)
LEMMA DispatcherFacts ==
    ASSUME IInv, NEW pc \in {"app", "place", "save", "send"}, Dispatching(pc)
    PROVE  /\ worker.op \in Operations /\ Handled \in Resources
           /\ dispatcher.read \in Record /\ dispatcher.env \in Envs \cup {NoEnv}
           /\ IsCopyOf(record[Handled], dispatcher.read)
<1>1. worker.op \in Operations
  BY OpsFacts DEF IInv, Dispatching
<1>2. QED
  BY <1>1 DEF IInv, TypeOK, Dispatcher, Dispatching, Handled, Request, CopiesAreOld

(* A failed dispatch saves the copy the dispatcher holds.                  *)
LEMMA FailDispatchLemma ==
    ASSUME IInv, NEW pc \in {"app", "place", "save", "send"}, Dispatching(pc),
           FailDispatch, UNCHANGED lastPut
    PROVE  /\ record' \in [Resources -> Record]
           /\ \A x \in Resources : Keeps(x) \/ SavesStatus(x)
<1> DEFINE data == [dispatcher.read EXCEPT !.state = "Failed"]
<1>1. Handled \in Resources /\ data \in Record /\ IsCopyOf(record[Handled], data)
  BY DispatcherFacts DEF Record, ResourceStates, IsCopyOf
<1>2. SaveChecked(Handled, data)
  BY DEF FailDispatch
<1>3. QED
  BY <1>1, <1>2, SaveCheckedLemma DEF IInv

(* Every change of a record is a PUT, a save of a status or a removal.     *)
LEMMA RecordStep ==
    ASSUME IInv, [Next]_vars
    PROVE  /\ record' \in [Resources -> Record] /\ lastPut' \in [Resources -> SomeOp]
           /\ \A r \in Resources : Keeps(r) \/ SavesPut(r) \/ SavesStatus(r) \/ Removes(r)
<1> DEFINE Goal == /\ record' \in [Resources -> Record] /\ lastPut' \in [Resources -> SomeOp]
                   /\ \A r \in Resources : Keeps(r) \/ SavesPut(r) \/ SavesStatus(r) \/ Removes(r)
<1> SUFFICES Goal
  OBVIOUS
<1> USE DEF IInv
<1>1. ASSUME UNCHANGED <<record, lastPut>> PROVE Goal
  BY <1>1 DEF TypeOK, Keeps
<1>2. ASSUME NEW o \in Operations, PutSave(o) PROVE Goal
  <2> DEFINE r == request[o].resource
             body == [Blank EXCEPT !.spec = o]
  <2>1. CASE UNCHANGED <<record, lastPut>>
    BY <1>1, <2>1
  <2>2. CASE SaveUnchecked(r, body) /\ lastPut' = [lastPut EXCEPT ![r] = o]
    <3>1. r \in Resources
      BY DEF TypeOK, Request
    <3>2. record[r] \in Record /\ record[r].etag + 1 \in Nat
      BY <3>1 DEF TypeOK, Record
    <3>3. /\ Stored(r, body).exists
          /\ Stored(r, body).spec = o
          /\ Stored(r, body).etag = record[r].etag + 1
      BY DEF Stored, Blank
    <3>4. Stored(r, body) \in Record
      <4>1. body \in Record
        BY DEF Blank, Record, SomeOp, ResourceStates
      <4>2. QED
        BY <3>2, <4>1 DEF Stored, Record
    <3>5. record' = [record EXCEPT ![r] = Stored(r, body)]
      BY <2>2 DEF SaveUnchecked
    <3>6. record' \in [Resources -> Record] /\ lastPut' \in [Resources -> SomeOp]
      BY <2>2, <3>4, <3>5 DEF TypeOK, SomeOp
    <3>7. SavesPut(r)
      BY <1>2, <2>2, <3>1, <3>3, <3>5 DEF SavesPut, TypeOK
    <3>8. \A x \in Resources : x # r => Keeps(x)
      BY <2>2, <3>5 DEF Keeps, TypeOK
    <3>9. QED
      BY <3>6, <3>7, <3>8
  <2>3. QED
    BY <1>2, <2>1, <2>2 DEF PutSave
<1>3. CASE DispatcherStep
  <2>1. ASSUME NEW pc \in {"app", "place", "save", "send"}, Dispatching(pc), FailDispatch,
               UNCHANGED lastPut
        PROVE  Goal
    BY <2>1, FailDispatchLemma DEF TypeOK
  <2>2. CASE DispatchSave
    <3> DEFINE started == [dispatcher.read EXCEPT
                             !.state = IF DispatchMethod = "PUT" THEN "Deploying" ELSE "Deleting",
                             !.env   = dispatcher.env]
    <3>1. Handled \in Resources /\ started \in Record /\ IsCopyOf(record[Handled], started)
      BY <2>2, DispatcherFacts DEF DispatchSave, Record, ResourceStates, IsCopyOf
    <3>2. SaveChecked(Handled, started) /\ UNCHANGED lastPut
      BY <2>2 DEF DispatchSave
    <3>3. QED
      BY <3>1, <3>2, SaveCheckedLemma DEF TypeOK
  <2>3. QED
    BY <1>1, <1>3, <2>1, <2>2 DEF DispatcherStep, DispatchGet, DispatchApp, DispatchPlace, DispatchSend
<1>4. ASSUME NEW c \in Calls, ReportResultWrite(c) PROVE Goal
  <2> DEFINE r == TaskResource(c)
             data(st) == [task[c].read EXCEPT !.state = st]
  <2>1. /\ r \in Resources /\ task[c].read \in Record /\ IsCopyOf(record[r], task[c].read)
        /\ UNCHANGED lastPut
    BY <1>4 DEF ReportResultWrite, TasksAreOfOperations, TypeOK, TaskResource, Request, Task, CopiesAreOld
  <2>2. CASE DeleteRecord(r)
    <3>1. record' \in [Resources -> Record]
      BY <2>1, <2>2 DEF DeleteRecord, TypeOK, Record
    <3>2. Removes(r)
      BY <2>1, <2>2 DEF DeleteRecord, TypeOK, Record, Removes
    <3>3. \A x \in Resources : x # r => Keeps(x)
      BY <2>1, <2>2 DEF DeleteRecord, TypeOK, Keeps
    <3>4. QED
      BY <2>1, <3>1, <3>2, <3>3 DEF TypeOK
  <2>3. ASSUME NEW st \in {"Succeeded", "Failed"}, SaveChecked(r, data(st)) PROVE Goal
    <3>1. data(st) \in Record /\ IsCopyOf(record[r], data(st))
      BY <2>1 DEF Record, ResourceStates, IsCopyOf
    <3>2. QED
      BY <2>1, <2>3, <3>1, SaveCheckedLemma DEF TypeOK
  <2>4. QED
    BY <1>4, <2>2, <2>3 DEF ReportResultWrite
<1>5. ASSUME NEW r \in Resources, ReportStatusSave(r) PROVE Goal
  <2> DEFINE data == [reporter[r].read EXCEPT !.healthy = TRUE]
  <2>1. data \in Record /\ IsCopyOf(record[r], data)
    <3>1. reporter[r].read \in Record /\ IsCopyOf(record[r], reporter[r].read)
      BY <1>5 DEF ReportStatusSave, TypeOK, CopiesAreOld
    <3>2. QED
      BY <3>1 DEF Record, IsCopyOf
  <2>2. QED
    BY <1>5, <2>1, SaveCheckedLemma DEF ReportStatusSave, TypeOK
<1>6. QED
  BY <1>1, <1>2, <1>3, <1>4, <1>5
     DEF Next, vars, restVars, RequestStep, BeginRequest, QueueOperation, EnqueueOperation,
         PutApplication, DeleteApplication, WorkerOutside, VisibilityExpires, ReportStep, ReportResultGet,
         ReportResultUpdateGet, ReportResultUpdateSave, Disconnect, Reconnect, Crash, Receive,
         Execute, LoseReport, CheckHealth, ReportStatusGet

(* The record of the last PUT, whoever saved it since.                     *)
LEMMA LastPutKept ==
    ASSUME IInv, [Next]_vars
    PROVE  SpecIsLastPut'
BY RecordStep DEF IInv, SpecIsLastPut, Keeps, SavesPut, SavesStatus, Removes

-----------------------------------------------------------------------------
(* The parts of IInv a step on other variables leaves alone.               *)

(* A request keeps what it asks for.                                       *)
LEMMA RequestsStay ==
    ASSUME TypeOK, [Next]_vars
    PROVE  /\ request' \in [Operations -> Request]
           /\ \A o \in Operations : /\ request'[o].resource = request[o].resource
                                    /\ request'[o].method = request[o].method
<1> DEFINE Goal == /\ request' \in [Operations -> Request]
                   /\ \A o \in Operations : /\ request'[o].resource = request[o].resource
                                            /\ request'[o].method = request[o].method
<1> SUFFICES Goal
  OBVIOUS
<1>1. CASE UNCHANGED request
  BY <1>1 DEF TypeOK
<1>2. ASSUME NEW o \in Operations, NEW pc \in {"save", "queue", "enqueue", "accepted", "ended"},
             NEW read \in Record,
             request' = [request EXCEPT ![o].pc = pc, ![o].read = read]
      PROVE  Goal
  <2>1. request[o] \in Request
    BY DEF TypeOK
  <2>2. /\ [request[o] EXCEPT !.pc = pc, !.read = read] \in Request
        /\ [request[o] EXCEPT !.pc = pc, !.read = read].resource = request[o].resource
        /\ [request[o] EXCEPT !.pc = pc, !.read = read].method = request[o].method
    BY <2>1 DEF Request
  <2>3. request' = [request EXCEPT ![o] = [request[o] EXCEPT !.pc = pc, !.read = read]]
    BY <1>2
  <2>4. QED
    BY <2>2, <2>3 DEF TypeOK
<1>3. ASSUME NEW o \in Operations, NEW pc \in {"save", "queue", "enqueue", "accepted", "ended"},
             request' = [request EXCEPT ![o].pc = pc]
      PROVE  Goal
  <2>1. request[o] \in Request
    BY DEF TypeOK
  <2>2. /\ [request[o] EXCEPT !.pc = pc] \in Request
        /\ [request[o] EXCEPT !.pc = pc].resource = request[o].resource
        /\ [request[o] EXCEPT !.pc = pc].method = request[o].method
    BY <2>1 DEF Request
  <2>3. request' = [request EXCEPT ![o] = [request[o] EXCEPT !.pc = pc]]
    BY <1>3
  <2>4. QED
    BY <2>2, <2>3 DEF TypeOK
<1>4. Blank \in Record
  BY DEF Blank, Record, SomeOp, ResourceStates
<1>5. ASSUME NEW o \in Operations, RequestStep(o) PROVE Goal
  <2>1. CASE BeginRequest(o)
    <3>1. record[request[o].resource] \in Record
      BY DEF TypeOK, Request
    <3>2. QED
      BY <1>4, <2>1, <3>1 DEF BeginRequest, TypeOK, Request
  <2>2. CASE PutSave(o)
    BY <1>2, <1>4, <2>2 DEF PutSave
  <2>3. CASE QueueOperation(o) \/ EnqueueOperation(o)
    BY <1>3, <2>3 DEF QueueOperation, EnqueueOperation
  <2>4. QED
    BY <1>5, <2>1, <2>2, <2>3 DEF RequestStep
<1>6. QED
  BY <1>1, <1>5
     DEF Next, vars, restVars, PutApplication, DeleteApplication, WorkerOutside, VisibilityExpires, DispatcherStep,
         DispatchGet, DispatchApp, DispatchPlace, DispatchSave, DispatchSend, FailDispatch,
         ReportStep, ReportResultGet, ReportResultWrite, ReportResultUpdateGet,
         ReportResultUpdateSave, Disconnect, Reconnect, Crash, Receive, Execute, LoseReport,
         CheckHealth, ReportStatusGet, ReportStatusSave

(* A copy that stays where it is stays a copy.                             *)
LEMMA CopyStays ==
    ASSUME IInv, [Next]_vars, NEW r \in Resources, NEW read \in Record, IsCopyOf(record[r], read)
    PROVE  IsCopyOf(record'[r], read)
BY RecordStep, CopiesStayOld DEF IInv

(* The dispatcher's part of IInv.                                          *)
DispatcherPart ==
    /\ dispatcher \in Dispatcher
    /\ DispatcherInRun
    /\ dispatcher.pc # "get" => IsCopyOf(record[Handled], dispatcher.read)

LEMMA DispatcherPartKept ==
    ASSUME IInv, [Next]_vars
    PROVE  DispatcherPart'
<1> USE DEF IInv
<1>0. Blank \in Record /\ IdleDispatcher \in Dispatcher /\ IdleDispatcher.pc = "get"
  BY DEF Blank, Record, SomeOp, ResourceStates, Dispatcher, IdleDispatcher
<1>1. CASE dispatcher' = dispatcher /\ dispatcher.pc = "get"
  BY <1>1 DEF DispatcherPart, DispatcherInRun, TypeOK
<1>2. CASE dispatcher' = IdleDispatcher
  BY <1>0, <1>2 DEF DispatcherPart, DispatcherInRun
<1>3. ASSUME dispatcher' = dispatcher, dispatcher.pc # "get", worker' = worker
      PROVE  DispatcherPart'
  <2>1. dispatcher.pc \in {"app", "place", "save", "send"} /\ Dispatching(dispatcher.pc)
    BY <1>3 DEF TypeOK, Dispatcher, DispatcherInRun, Dispatching
  <2>2. /\ worker.op \in Operations /\ Handled \in Resources /\ dispatcher.read \in Record
        /\ IsCopyOf(record[Handled], dispatcher.read)
    BY <2>1, DispatcherFacts
  <2>3. Handled' = Handled
    BY <1>3, <2>2, RequestsStay DEF Handled
  <2>4. QED
    BY <1>3, <2>2, <2>3, CopyStays DEF DispatcherPart, DispatcherInRun, TypeOK
<1>4. CASE WorkerOutside
  <2>1. worker.pc # "run" /\ UNCHANGED dispatcher
    BY <1>4 DEF WorkerOutside, Ops!Dequeue, Ops!Complete, Ops!StartGet, Ops!StartSave,
       Ops!FinalGet, Ops!FinalSave, restVars
  <2>2. QED
    BY <1>1, <2>1 DEF DispatcherInRun
<1>5. CASE DispatchGet
  <2>1. CASE UNCHANGED dispatcher
    BY <1>1, <1>5, <2>1 DEF DispatchGet, Dispatching
  <2>2. CASE /\ dispatcher' = [dispatcher EXCEPT !.pc = "app", !.read = record[Handled]]
             /\ UNCHANGED opsVars
    <3>1. worker.pc = "run" /\ worker.op \in Operations /\ Handled \in Resources
      BY <1>5, OpsFacts DEF DispatchGet, Dispatching, Handled, TypeOK, Request
    <3>2. record[Handled] \in Record /\ dispatcher' \in Dispatcher /\ dispatcher'.read = record[Handled]
      BY <2>2, <3>1 DEF TypeOK, Dispatcher
    <3>3. Handled' = Handled /\ record' = record /\ worker' = worker
      BY <1>5, <2>2 DEF DispatchGet, Handled, opsVars
    <3>4. IsCopyOf(record[Handled], record[Handled])
      BY <3>2, FreshCopy
    <3>5. QED
      BY <3>1, <3>2, <3>3, <3>4 DEF DispatcherPart, DispatcherInRun
  <2>3. QED
    BY <1>5, <2>1, <2>2 DEF DispatchGet
<1>6. ASSUME NEW pc \in {"app", "place", "save", "send"}, Dispatching(pc), UNCHANGED opsVars,
             NEW next \in {"place", "save"}, NEW env \in Envs \cup {NoEnv},
             dispatcher' = [dispatcher EXCEPT !.pc = next, !.env = env]
      PROVE  DispatcherPart'
  <2>1. /\ worker.op \in Operations /\ Handled \in Resources /\ dispatcher.read \in Record
        /\ IsCopyOf(record[Handled], dispatcher.read)
    BY <1>6, DispatcherFacts
  <2>2. Handled' = Handled /\ worker' = worker
    BY <1>6, <2>1, RequestsStay DEF Handled, opsVars
  <2>3. dispatcher' \in Dispatcher /\ dispatcher'.read = dispatcher.read
    BY <1>6 DEF TypeOK, Dispatcher
  <2>4. QED
    BY <1>6, <2>1, <2>2, <2>3, CopyStays DEF DispatcherPart, DispatcherInRun, Dispatching
<1>7. CASE DispatchApp \/ DispatchPlace
  BY <1>2, <1>6, <1>7, ControlPlaneAssumption DEF DispatchApp, DispatchPlace, FailDispatch, TypeOK
<1>8. CASE DispatchSave
  <2> DEFINE started == [dispatcher.read EXCEPT
                           !.state = IF DispatchMethod = "PUT" THEN "Deploying" ELSE "Deleting",
                           !.env   = dispatcher.env]
             read == IF Matches(Handled, started) THEN Stored(Handled, started) ELSE started
  <2>1. /\ worker.op \in Operations /\ Handled \in Resources /\ started \in Record
        /\ IsCopyOf(record[Handled], started) /\ worker.pc = "run"
    BY <1>8, DispatcherFacts DEF DispatchSave, Dispatching, Record, ResourceStates, IsCopyOf
  <2>2. Handled' = Handled /\ worker' = worker
    BY <1>8, <2>1 DEF DispatchSave, Handled, opsVars
  <2>3. read \in Record /\ IsCopyOf(record'[Handled], read)
    <3>1. CASE Matches(Handled, started)
      <4>1. record'[Handled] = read /\ record'[Handled] \in Record
        BY <1>8, <2>1, <3>1, RecordStep DEF DispatchSave, SaveChecked, SaveUnchecked, TypeOK
      <4>2. QED
        BY <4>1, FreshCopy
    <3>2. CASE ~Matches(Handled, started)
      BY <2>1, <3>2, CopyStays
    <3>3. QED
      BY <3>1, <3>2
  <2>4. dispatcher' = [dispatcher EXCEPT !.pc = "send", !.read = read]
    BY <1>8 DEF DispatchSave
  <2>5. dispatcher' \in Dispatcher /\ dispatcher'.read = read
    BY <2>3, <2>4 DEF TypeOK, Dispatcher
  <2>6. QED
    BY <2>1, <2>2, <2>3, <2>5 DEF DispatcherPart, DispatcherInRun
<1>9. CASE DispatchSend
  BY <1>2, <1>9 DEF DispatchSend, FailDispatch
<1>10. CASE UNCHANGED <<dispatcher, worker>>
  BY <1>1, <1>3, <1>10
<1>11. ASSUME NEW o \in Operations, RequestStep(o) PROVE UNCHANGED <<dispatcher, worker>>
  BY <1>11 DEF RequestStep, BeginRequest, PutSave, QueueOperation, EnqueueOperation, opsVars,
     Ops!SaveAccepted, Ops!Enqueue
<1>12. ASSUME NEW c \in Calls, ReportStep(c) PROVE UNCHANGED <<dispatcher, worker>>
  BY <1>12 DEF ReportStep, ReportResultGet, ReportResultWrite, ReportResultUpdateGet,
     ReportResultUpdateSave, opsVars, restVars, Ops!ReportArrives, Ops!ReportGet, Ops!ReportSave
<1>13. QED
  BY <1>4, <1>5, <1>7, <1>8, <1>9, <1>10, <1>11, <1>12
     DEF Next, vars, opsVars, restVars, PutApplication, DeleteApplication, VisibilityExpires, Ops!VisibilityExpires,
         DispatcherStep, Disconnect, Reconnect, Crash, Receive, Execute, LoseReport,
         CheckHealth, ReportStatusGet, ReportStatusSave

(* The agents' goroutines.                                                 *)
TaskOK(t) ==
    /\ t \in Task
    /\ t.pc \notin {"free", "ended"} => t.op \in Operations /\ t.env \in Envs
    /\ t.pc = "write" => IsCopyOf(record[request[t.op].resource], t.read)

TasksPart ==
    /\ task \in [Calls -> Task]
    /\ \A c \in Calls : TaskOK(task[c])

LEMMA TasksPartKept ==
    ASSUME IInv, [Next]_vars
    PROVE  TasksPart'
<1> USE DEF IInv
<1>0. /\ task \in [Calls -> Task]
      /\ \A c \in Calls : TaskOK(task[c])
  BY DEF TypeOK, TasksAreOfOperations, CopiesAreOld, TaskOK, TaskResource
<1>1. ASSUME NEW c \in Calls, task'[c] = task[c] PROVE TaskOK(task[c])'
  <2>1. CASE task[c].pc = "write"
    <3>1. /\ task[c].op \in Operations /\ request[task[c].op].resource \in Resources
          /\ task[c].read \in Record
      BY <1>0, <2>1 DEF TaskOK, TypeOK, Request, Task
    <3>2. IsCopyOf(record'[request[task[c].op].resource], task[c].read)
      BY <1>0, <2>1, <3>1, CopyStays DEF TaskOK
    <3>3. QED
      BY <1>0, <1>1, <3>1, <3>2, RequestsStay DEF TaskOK
  <2>2. CASE task[c].pc # "write"
    BY <1>0, <1>1, <2>2 DEF TaskOK
  <2>3. QED
    BY <2>1, <2>2
<1>2. CASE UNCHANGED task
  BY <1>0, <1>1, <1>2 DEF TasksPart
<1>3. ASSUME NEW c \in Calls, NEW t \in Task, task' = [task EXCEPT ![c] = t],
             t.pc \notin {"free", "ended"} => t.op \in Operations /\ t.env \in Envs,
             t.pc = "write" => IsCopyOf(record'[request'[t.op].resource], t.read)
      PROVE  TasksPart'
  <2>1. task' \in [Calls -> Task] /\ task'[c] = t
    BY <1>0, <1>3
  <2>2. TaskOK(task[c])'
    BY <1>3, <2>1 DEF TaskOK
  <2>3. \A x \in Calls : x # c => task'[x] = task[x]
    BY <1>0, <1>3
  <2>4. QED
    BY <1>1, <2>1, <2>2, <2>3 DEF TasksPart
<1>4. /\ Blank \in Record /\ FreeTask \in Task /\ EndedTask \in Task /\ EndedTask.pc = "ended"
      /\ FreeTask.pc = "free"
  BY DEF Blank, Record, SomeOp, ResourceStates, FreeTask, EndedTask, Task
<1>5. ASSUME NEW c \in Calls, EndTask(c) PROVE TasksPart'
  BY <1>3, <1>4, <1>5 DEF EndTask
<1>6. ASSUME NEW e \in Envs, NEW c \in Calls, Receive(e, c) PROVE TasksPart'
  <2> DEFINE t == [FreeTask EXCEPT !.pc = "running", !.env = e,
                                   !.op = Head(channel[e]).op, !.spec = Head(channel[e]).spec]
  <2>1. Head(channel[e]) \in Event
    BY <1>6 DEF Receive, TypeOK
  <2>2. Head(channel[e]).op \in Operations /\ Head(channel[e]).spec \in SomeOp
    BY <2>1 DEF Event
  <2>3. t \in Task /\ t.pc = "running" /\ t.op \in Operations /\ t.env = e
    BY <1>4, <2>2 DEF Task, SomeOp, FreeTask
  <2>4. task' = [task EXCEPT ![c] = t]
    BY <1>6 DEF Receive
  <2>5. QED
    BY <1>3, <2>3, <2>4
<1>7. ASSUME NEW c \in Calls, Execute(c) PROVE TasksPart'
  <2>1. PICK success \in BOOLEAN : task' = [task EXCEPT ![c].pc = "executed", ![c].success = success]
    BY <1>7 DEF Execute
  <2> DEFINE t == [task[c] EXCEPT !.pc = "executed", !.success = success]
  <2>2. task[c] \in Task /\ task[c].op \in Operations /\ task[c].env \in Envs
    BY <1>0, <1>7 DEF Execute, TaskOK
  <2>3. t \in Task /\ t.pc = "executed" /\ t.op \in Operations /\ t.env \in Envs
    BY <2>2 DEF Task
  <2>4. task' = [task EXCEPT ![c] = t]
    BY <2>1
  <2>5. QED
    BY <1>3, <2>3, <2>4
<1>8. ASSUME NEW c \in Calls, ReportResultGet(c) PROVE TasksPart'
  <2> DEFINE r == TaskResource(c)
             t == [task[c] EXCEPT !.pc = "write", !.read = record[r]]
  <2>1. /\ task[c] \in Task /\ task[c].op \in Operations /\ task[c].env \in Envs
        /\ r \in Resources
    BY <1>0, <1>8 DEF ReportResultGet, TaskOK, TaskResource, TypeOK, Request
  <2>2. record[r] \in Record /\ IsCopyOf(record[r], record[r])
    BY <2>1, FreshCopy DEF TypeOK
  <2>3. /\ t \in Task /\ t.op = task[c].op /\ t.env \in Envs /\ t.read = record[r]
    BY <2>1, <2>2 DEF Task
  <2>4. UNCHANGED <<record, request>>
    BY <1>8 DEF ReportResultGet
  <2>5. CASE task' = [task EXCEPT ![c] = t]
    BY <1>3, <2>1, <2>2, <2>3, <2>4, <2>5 DEF TaskResource
  <2>6. task' = [task EXCEPT ![c] = t] \/ EndTask(c)
    BY <1>8 DEF ReportResultGet
  <2>7. QED
    BY <1>5, <2>5, <2>6
<1>9. ASSUME NEW c \in Calls, ReportResultWrite(c) PROVE TasksPart'
  <2> DEFINE t == [task[c] EXCEPT !.pc = "update", !.read = Blank]
  <2>1. task[c] \in Task /\ task[c].op \in Operations /\ task[c].env \in Envs
    BY <1>0, <1>9 DEF ReportResultWrite, TaskOK
  <2>2. t \in Task /\ t.pc = "update" /\ t.op \in Operations /\ t.env \in Envs
    BY <1>4, <2>1 DEF Task
  <2>3. task' = [task EXCEPT ![c] = t]
    BY <1>9 DEF ReportResultWrite
  <2>4. QED
    BY <1>3, <2>2, <2>3
<1>10. ASSUME NEW e \in Envs, Crash(e) PROVE TasksPart'
  <2>1. \A c \in Calls : task'[c] = task[c] \/ task'[c] = EndedTask
    BY <1>10 DEF Crash
  <2>2. task' \in [Calls -> Task]
    BY <1>0, <1>4, <1>10 DEF Crash
  <2>3. ASSUME NEW c \in Calls, task'[c] = EndedTask PROVE TaskOK(task[c])'
    BY <1>4, <2>3 DEF TaskOK
  <2>4. QED
    BY <1>1, <2>1, <2>2, <2>3 DEF TasksPart
<1>11. ASSUME NEW c \in Calls, ReportResultUpdateGet(c) \/ ReportResultUpdateSave(c)
       PROVE  TasksPart'
  BY <1>2, <1>5, <1>11 DEF ReportResultUpdateGet, ReportResultUpdateSave, restVars
<1>12. QED
  BY <1>2, <1>5, <1>6, <1>7, <1>8, <1>9, <1>10, <1>11
     DEF Next, vars, restVars, PutApplication, DeleteApplication, WorkerOutside, VisibilityExpires, DispatcherStep,
         DispatchGet, DispatchApp, DispatchPlace, DispatchSave, DispatchSend, FailDispatch,
         RequestStep, BeginRequest, PutSave, QueueOperation, EnqueueOperation,
         ReportStep, Disconnect, Reconnect, LoseReport,
         CheckHealth, ReportStatusGet, ReportStatusSave

(* The health reports.                                                     *)
ReporterPart ==
    /\ reporter \in [Resources -> [pc : {"idle", "called", "save"}, read : Record]]
    /\ \A r \in Resources :
         reporter[r].pc = "save" => IsCopyOf(record[r], reporter[r].read)

LEMMA ReporterPartKept ==
    ASSUME IInv, [Next]_vars
    PROVE  ReporterPart'
<1> USE DEF IInv
<1> DEFINE Reporter == [pc : {"idle", "called", "save"}, read : Record]
<1>0. /\ reporter \in [Resources -> Reporter]
      /\ \A r \in Resources :
           reporter[r].pc = "save" => IsCopyOf(record[r], reporter[r].read)
  BY DEF TypeOK, CopiesAreOld
<1>1. ASSUME NEW r \in Resources, reporter'[r] = reporter[r]
      PROVE  reporter'[r].pc = "save" => IsCopyOf(record'[r], reporter'[r].read)
  <2>1. reporter[r].read \in Record
    BY <1>0
  <2>2. QED
    BY <1>0, <1>1, <2>1, CopyStays
<1>2. CASE UNCHANGED reporter
  BY <1>0, <1>1, <1>2 DEF ReporterPart
<1>3. ASSUME NEW r \in Resources, NEW t \in Reporter, reporter' = [reporter EXCEPT ![r] = t],
             t.pc = "save" => IsCopyOf(record'[r], t.read)
      PROVE  ReporterPart'
  <2>1. reporter' \in [Resources -> Reporter] /\ reporter'[r] = t
    BY <1>0, <1>3
  <2>2. \A x \in Resources : x # r => reporter'[x] = reporter[x]
    BY <1>0, <1>3
  <2>3. QED
    BY <1>1, <1>3, <2>1, <2>2 DEF ReporterPart
<1>4. IdleReporter \in Reporter /\ IdleReporter.pc = "idle"
  BY DEF IdleReporter, Blank, Record, SomeOp, ResourceStates
<1>5. ASSUME NEW r \in Resources, CheckHealth(r) PROVE ReporterPart'
  <2> DEFINE t == [reporter[r] EXCEPT !.pc = "called"]
  <2>1. t \in Reporter /\ t.pc = "called"
    <3>1. reporter[r] \in Reporter
      BY <1>0
    <3>2. QED
      BY <3>1
  <2>2. reporter' = [reporter EXCEPT ![r] = t]
    BY <1>5 DEF CheckHealth
  <2>3. QED
    BY <1>3, <2>1, <2>2
<1>6. ASSUME NEW r \in Resources, ReportStatusGet(r) PROVE ReporterPart'
  <2> DEFINE t == [pc |-> "save", read |-> record[r]]
  <2>1. record[r] \in Record /\ record' = record
    BY <1>6 DEF TypeOK, ReportStatusGet
  <2>2. t \in Reporter /\ IsCopyOf(record'[r], t.read)
    BY <2>1, FreshCopy
  <2>3. CASE reporter' = [reporter EXCEPT ![r] = t]
    BY <1>3, <2>2, <2>3
  <2>4. CASE reporter' = [reporter EXCEPT ![r] = IdleReporter]
    BY <1>3, <1>4, <2>4
  <2>5. QED
    BY <1>6, <2>3, <2>4 DEF ReportStatusGet
<1>7. ASSUME NEW r \in Resources, ReportStatusSave(r) PROVE ReporterPart'
  BY <1>3, <1>4, <1>7 DEF ReportStatusSave
<1>8. QED
  BY <1>2, <1>5, <1>6, <1>7
     DEF Next, vars, restVars, PutApplication, DeleteApplication, WorkerOutside, VisibilityExpires, DispatcherStep,
         DispatchGet, DispatchApp, DispatchPlace, DispatchSave, DispatchSend, FailDispatch,
         RequestStep, BeginRequest, PutSave, QueueOperation, EnqueueOperation,
         ReportStep, ReportResultGet, ReportResultWrite, ReportResultUpdateGet,
         ReportResultUpdateSave, Disconnect, Reconnect, Crash, Receive, Execute, LoseReport

(* Streams and the outside world have no more than their types.            *)
WorldPart ==
    /\ app      \in BOOLEAN
    /\ watching \subseteq Envs
    /\ channel  \in [Envs -> Seq(Event)]
    /\ \A e \in Envs : Len(channel[e]) <= Capacity
    /\ watched  \in [Envs -> SUBSET Resources]
    /\ infra    \in [Envs -> [Resources -> SomeOp]]

LEMMA WorldPartKept ==
    ASSUME IInv, [Next]_vars
    PROVE  WorldPart'
<1> USE DEF IInv
<1>0. WorldPart
  BY DEF TypeOK, WorldPart
<1>1. CASE UNCHANGED <<app, watching, channel, watched, infra>>
  BY <1>0, <1>1 DEF WorldPart
<1>2. ASSUME NEW e \in Envs, NEW buffer \in Seq(Event), Len(buffer) <= Capacity,
             channel' = [channel EXCEPT ![e] = buffer]
      PROVE  channel' \in [Envs -> Seq(Event)] /\ \A x \in Envs : Len(channel'[x]) <= Capacity
  BY <1>0, <1>2 DEF WorldPart
<1>3. <<>> \in Seq(Event) /\ Len(<<>>) <= Capacity
  BY ControlPlaneAssumption
<1>4. ASSUME NEW e \in Envs, Disconnect(e) \/ Crash(e) PROVE WorldPart'
  <2>1. channel' = [channel EXCEPT ![e] = <<>>] /\ watching' = watching \ {e} /\ UNCHANGED <<app, infra>>
    BY <1>4 DEF Disconnect, Crash
  <2>2. watched' = watched \/ watched' = [watched EXCEPT ![e] = {}]
    BY <1>4 DEF Disconnect, Crash
  <2>3. watched' \in [Envs -> SUBSET Resources]
    BY <1>0, <2>2 DEF WorldPart
  <2>4. QED
    BY <1>0, <1>2, <1>3, <2>1, <2>3 DEF WorldPart
<1>5. ASSUME NEW e \in Envs, Reconnect(e) PROVE WorldPart'
  BY <1>0, <1>5 DEF Reconnect, WorldPart
<1>6. ASSUME NEW e \in Envs, NEW c \in Calls, Receive(e, c) PROVE WorldPart'
  <2>1. channel[e] \in Seq(Event) /\ channel[e] # <<>> /\ Len(channel[e]) <= Capacity
    BY <1>0, <1>6 DEF Receive, WorldPart
  <2>2. Tail(channel[e]) \in Seq(Event) /\ Len(Tail(channel[e])) <= Capacity
    BY <2>1, ControlPlaneAssumption
  <2>3. channel' = [channel EXCEPT ![e] = Tail(channel[e])] /\ UNCHANGED <<app, watching, watched, infra>>
    BY <1>6 DEF Receive
  <2>4. QED
    BY <1>0, <1>2, <2>2, <2>3 DEF WorldPart
<1>7. CASE DispatchSend
  <2> DEFINE e == dispatcher.env
             event == [op |-> worker.op, spec |-> dispatcher.read.spec]
  <2>1. Dispatching("send") /\ UNCHANGED <<app, watching, watched, infra>>
    BY <1>7 DEF DispatchSend
  <2>2. event \in Event
    BY <2>1, DispatcherFacts DEF Event, Record
  <2>3. CASE UNCHANGED channel
    BY <1>1, <2>1, <2>3
  <2>4. CASE e \in watching /\ Len(channel[e]) < Capacity /\ channel' = [channel EXCEPT ![e] = Append(@, event)]
    <3>1. e \in Envs /\ channel[e] \in Seq(Event)
      BY <1>0, <2>4 DEF WorldPart
    <3>2. Append(channel[e], event) \in Seq(Event) /\ Len(Append(channel[e], event)) <= Capacity
      BY <2>2, <2>4, <3>1, ControlPlaneAssumption
    <3>3. channel' = [channel EXCEPT ![e] = Append(channel[e], event)]
      BY <2>4
    <3>4. QED
      BY <1>0, <1>2, <2>1, <3>1, <3>2, <3>3 DEF WorldPart
  <2>5. QED
    BY <1>7, <2>3, <2>4 DEF DispatchSend
<1>8. ASSUME NEW c \in Calls, task[c].pc \notin {"free", "ended"}
      PROVE  task[c].env \in Envs /\ TaskResource(c) \in Resources /\ task[c].spec \in SomeOp
  BY <1>8 DEF TasksAreOfOperations, TaskResource, TypeOK, Request, Task
<1>9. ASSUME NEW c \in Calls, Execute(c) PROVE WorldPart'
  <2> DEFINE target == IF TaskMethod(c) = "PUT" THEN task[c].spec ELSE NoOp
  <2>1. task[c].env \in Envs /\ TaskResource(c) \in Resources /\ target \in SomeOp
    BY <1>8, <1>9 DEF Execute, SomeOp
  <2>2. \/ UNCHANGED infra
        \/ infra' = [infra EXCEPT ![task[c].env][TaskResource(c)] = target]
    BY <1>9 DEF Execute
  <2>3. infra' \in [Envs -> [Resources -> SomeOp]]
    <3> DEFINE e == task[c].env
               row == [infra[e] EXCEPT ![TaskResource(c)] = target]
    <3>1. row \in [Resources -> SomeOp]
      BY <1>0, <2>1 DEF WorldPart
    <3>2. CASE infra' = [infra EXCEPT ![e] = row]
      BY <1>0, <2>1, <3>1, <3>2 DEF WorldPart
    <3>3. QED
      BY <1>0, <2>2, <3>2 DEF WorldPart
  <2>4. QED
    BY <1>0, <1>9, <2>3 DEF Execute, WorldPart
<1>10. ASSUME NEW c \in Calls, task[c].pc \notin {"free", "ended"}, EndTask(c),
              UNCHANGED <<app, watching, channel, infra>>
       PROVE  WorldPart'
  <2>1. watched' \in [Envs -> SUBSET Resources]
    BY <1>0, <1>8, <1>10 DEF EndTask, WorldPart
  <2>2. QED
    BY <1>0, <1>10, <2>1 DEF WorldPart
<1>11. ASSUME NEW c \in Calls, ReportStep(c) \/ LoseReport(c) PROVE WorldPart'
  BY <1>1, <1>10, <1>11
     DEF ReportStep, ReportResultGet, ReportResultWrite, ReportResultUpdateGet,
         ReportResultUpdateSave, LoseReport, restVars
<1>12. CASE PutApplication \/ DeleteApplication
  BY <1>0, <1>12 DEF PutApplication, DeleteApplication, WorldPart
<1>13. QED
  BY <1>1, <1>4, <1>5, <1>6, <1>7, <1>9, <1>11, <1>12
     DEF Next, vars, restVars, WorkerOutside, VisibilityExpires, DispatcherStep,
         DispatchGet, DispatchApp, DispatchPlace, DispatchSave,
         RequestStep, BeginRequest, PutSave, QueueOperation, EnqueueOperation,
         CheckHealth, ReportStatusGet, ReportStatusSave

-----------------------------------------------------------------------------
(* IInv holds initially.                                                   *)
LEMMA InitIInv == Init => IInv
<1> SUFFICES ASSUME Init PROVE IInv
  OBVIOUS
<1> USE DEF Init
<1>1. OpsProofs!IInv
  <2>1. OpsProofs!Init
    BY DEF Ops!Init, OpsProofs!Init, Ops!IdleWorker, OpsProofs!IdleWorker
  <2>2. QED
    BY <2>1, OpsProofs!InitIInv, ControlPlaneAssumption
<1>2. Blank \in Record /\ IdleDispatcher \in Dispatcher /\ FreeTask \in Task
  BY DEF Blank, Record, SomeOp, ResourceStates, IdleDispatcher, Dispatcher, FreeTask, Task
<1>3. TypeOK
  <2>1. record \in [Resources -> Record] /\ app \in BOOLEAN /\ watching \subseteq Envs
    BY <1>2
  <2>2. request \in [Operations -> Request]
    BY <1>2 DEF Request
  <2>3. channel \in [Envs -> Seq(Event)] /\ \A e \in Envs : Len(channel[e]) <= Capacity
    BY ControlPlaneAssumption
  <2>4. reporter \in [Resources -> [pc : {"idle", "called", "save"}, read : Record]]
    BY <1>2 DEF IdleReporter
  <2>5. infra \in [Envs -> [Resources -> SomeOp]] /\ lastPut \in [Resources -> SomeOp]
    BY DEF SomeOp
  <2>6. dispatcher \in Dispatcher /\ task \in [Calls -> Task] /\ watched \in [Envs -> SUBSET Resources]
    BY <1>2
  <2>7. QED
    BY <1>1, <2>1, <2>2, <2>3, <2>4, <2>5, <2>6, OpsFacts DEF TypeOK
<1>4. DispatcherInRun /\ TasksAreOfOperations /\ CopiesAreOld
  BY DEF DispatcherInRun, TasksAreOfOperations, CopiesAreOld, IdleDispatcher, FreeTask, IdleReporter
<1>5. SpecIsLastPut
  BY DEF SpecIsLastPut, Blank
<1>6. QED
  BY <1>1, <1>3, <1>4, <1>5 DEF IInv

(* IInv is preserved by every step.                                        *)
LEMMA NextIInv == IInv /\ [Next]_vars => IInv'
<1> SUFFICES ASSUME IInv, [Next]_vars PROVE IInv'
  OBVIOUS
<1>1. OpsProofs!IInv'
  BY StepOfOps, OpsInvariant DEF IInv
<1>2. Ops!TypeOK'
  BY <1>1, OpsFacts, PTL
<1>3. DispatcherPart' /\ TasksPart' /\ ReporterPart' /\ WorldPart'
  BY DispatcherPartKept, TasksPartKept, ReporterPartKept, WorldPartKept
<1>4. TypeOK'
  BY <1>2, <1>3, RecordStep, RequestsStay
     DEF TypeOK, DispatcherPart, TasksPart, ReporterPart, WorldPart, IInv
<1>5. DispatcherInRun' /\ TasksAreOfOperations'
  BY <1>3 DEF DispatcherPart, TasksPart, TaskOK, TasksAreOfOperations
<1>6. CopiesAreOld'
  BY <1>3 DEF DispatcherPart, TasksPart, TaskOK, ReporterPart, CopiesAreOld, TaskResource
<1>7. QED
  BY <1>1, <1>4, <1>5, <1>6, LastPutKept DEF IInv

(* Every reachable state satisfies IInv.                                   *)
THEOREM Invariance == Spec => []IInv
BY InitIInv, NextIInv, PTL DEF Spec

(* Type correctness of the composed system.                                *)
THEOREM TypeCorrect == Spec => []TypeOK
<1>1. IInv => TypeOK
  BY DEF IInv
<1>2. QED
  BY Invariance, <1>1, PTL

(* No status writer undoes a client's update: for any number of requests,  *)
(* reports and health checks in any order, an existing record holds the    *)
(* spec of the last PUT that was accepted.                                 *)
THEOREM NoUpdateLost == Spec => []SpecIsLastPut
<1>1. IInv => SpecIsLastPut
  BY DEF IInv
<1>2. QED
  BY Invariance, <1>1, PTL

(* A deleted resource comes back only by a PUT.                            *)
THEOREM NoResurrection == Spec => OnlyPutCreates
<1>1. ASSUME IInv, [Next]_vars, NEW r \in Resources, ~record[r].exists, record'[r].exists
      PROVE  \E o \in Operations : /\ request[o].pc = "save" /\ request'[o].pc = "queue"
                                   /\ request[o].resource = r
  <2>1. PICK o \in Operations : PutSave(o) /\ request[o].resource = r
    BY <1>1, RecordStep DEF Keeps, SavesPut, SavesStatus, Removes
  <2>2. request[o].pc = "save"
    BY <2>1 DEF PutSave
  <2>3. record' # record
    BY <1>1
  <2>4. request'[o].pc = "queue"
    BY <1>1, <2>1, <2>3 DEF PutSave, IInv, TypeOK, Request
  <2>5. QED
    BY <2>1, <2>2, <2>4
<1>2. IInv /\ [Next]_vars =>
        [\A r \in Resources :
           ~record[r].exists /\ record'[r].exists =>
             \E o \in Operations : /\ request[o].pc = "save" /\ request'[o].pc = "queue"
                                   /\ request[o].resource = r]_vars
  BY <1>1
<1>3. QED
  BY Invariance, <1>2, PTL DEF Spec, OnlyPutCreates

(* The composed system implements AsyncOperations: no order of requests,   *)
(* dispatches and reports makes the machinery do what that module does not *)
(* allow, so its theorems hold of the composed system.                     *)
THEOREM RefinesAsyncOperations == Spec => RefinesOperations
<1>1. Init => Ops!Init
  BY DEF Init
<1>2. IInv /\ [Next]_vars => [Ops!Next]_(Ops!vars)
  BY StepOfOps DEF IInv
<1>3. QED
  BY Invariance, <1>1, <1>2, PTL DEF Spec, RefinesOperations, Ops!Spec

(* What pkg/api/async promises is kept in the composed system: between     *)
(* HTTP handlers, dispatcher and agents no operation is lost, run twice,   *)
(* concluded without ground or reopened, and a client of the operation API *)
(* sees no more than OperationStatus allows.                               *)
THEOREM KeepsItsOperations ==
    Spec => /\ []OpsProofs!UnfinishedIsQueued
            /\ []OpsProofs!RunAtMostOnce
            /\ []OpsProofs!VerdictIsGrounded
            /\ OpsProofs!NeverReopened
            /\ OpsProofs!RefinesOperationStatus
<1>1. Spec => OpsProofs!Spec
  <2>1. Init => OpsProofs!Init
    BY DEF Init, Ops!Init, OpsProofs!Init, Ops!IdleWorker, OpsProofs!IdleWorker
  <2>2. IInv /\ [Next]_vars => [OpsProofs!Next]_(OpsProofs!vars)
    BY StepOfOps, OpsStep DEF IInv
  <2> QED BY Invariance, <2>1, <2>2, PTL DEF Spec, OpsProofs!Spec
<1>2. OpsProofs!Spec => []OpsProofs!UnfinishedIsQueued
  BY OpsProofs!NoOperationLost, ControlPlaneAssumption
<1>3. OpsProofs!Spec => []OpsProofs!RunAtMostOnce
  BY OpsProofs!AtMostOnce, ControlPlaneAssumption
<1>4. OpsProofs!Spec => []OpsProofs!VerdictIsGrounded
  BY OpsProofs!VerdictGrounded, ControlPlaneAssumption
<1>5. OpsProofs!Spec => OpsProofs!NeverReopened
  BY OpsProofs!NeverReopens, ControlPlaneAssumption
<1>6. OpsProofs!Spec => OpsProofs!RefinesOperationStatus
  BY OpsProofs!RefinesStatus, ControlPlaneAssumption
<1> QED BY <1>1, <1>2, <1>3, <1>4, <1>5, <1>6, PTL

-----------------------------------------------------------------------------
(* One step, seen from each variable: who may have changed it, and how.    *)

(* A goroutine that works for an operation.                                *)
Busy(c) == task[c].pc \notin {"free", "ended"}

(* It goes on with the work it has.                                        *)
SameWork(c) ==
    /\ Busy(c)
    /\ task'[c].op = task[c].op
    /\ task'[c].spec = task[c].spec
    /\ task'[c].env = task[c].env

(* The steps of a goroutine, with what later steps depend on.              *)
Receives(e, c) ==
    /\ Receive(e, c)
    /\ task'[c].pc = "running" /\ task'[c].env = e
    /\ task'[c].op = Head(channel[e]).op /\ task'[c].spec = Head(channel[e]).spec
    /\ \A d \in Calls : d # c => task'[d] = task[d]

Executes(c) ==
    /\ Execute(c) /\ SameWork(c)
    /\ task[c].pc = "running" /\ task'[c].pc = "executed"

GetsRecord(c) ==
    /\ SameWork(c)
    /\ task[c].pc = "executed" /\ task'[c].pc = "write"
    /\ task'[c].success = task[c].success
    /\ record[TaskResource(c)].exists /\ task'[c].read = record[TaskResource(c)]
    /\ UNCHANGED <<record, infra>>

WritesResult(c) ==
    /\ ReportResultWrite(c) /\ SameWork(c)
    /\ task[c].pc = "write" /\ task'[c].pc = "update"

(* What a goroutine is that has just received an event.                    *)
LEMMA ReceiveLemma ==
    ASSUME IInv, NEW e \in Envs, NEW c \in Calls, Receive(e, c)
    PROVE  Receives(e, c)
<1> DEFINE t == [FreeTask EXCEPT !.pc = "running", !.env = e,
                                 !.op = Head(channel[e]).op, !.spec = Head(channel[e]).spec]
<1>1. t.pc = "running" /\ t.env = e /\ t.op = Head(channel[e]).op /\ t.spec = Head(channel[e]).spec
  BY DEF FreeTask
<1>2. task' = [task EXCEPT ![c] = t] /\ task \in [Calls -> Task]
  BY DEF Receive, IInv, TypeOK
<1>3. task'[c] = t /\ \A x \in Calls : x # c => task'[x] = task[x]
  BY <1>2
<1> QED BY <1>1, <1>3 DEF Receives

(* What happens to a goroutine.                                            *)
LEMMA TaskStep ==
    ASSUME IInv, [Next]_vars, NEW c \in Calls
    PROVE  \/ task'[c] = task[c]
           \/ \E e \in Envs : Receives(e, c)
           \/ Executes(c) \/ GetsRecord(c) \/ WritesResult(c)
           \/ ~Busy(c)'
<1> DEFINE Goal == \/ task'[c] = task[c]
                   \/ \E e \in Envs : Receives(e, c)
                   \/ Executes(c) \/ GetsRecord(c) \/ WritesResult(c)
                   \/ ~Busy(c)'
<1> SUFFICES Goal
  OBVIOUS
<1>1. task \in [Calls -> Task]
  BY DEF IInv, TypeOK
<1>2. ASSUME NEW d \in Calls, EndTask(d) PROVE Goal
  BY <1>1, <1>2 DEF EndTask, EndedTask, FreeTask, Busy
<1>3. ASSUME NEW d \in Calls, NEW e \in Envs, Receive(e, d) PROVE Goal
  BY <1>3, ReceiveLemma DEF Receives
<1>4. ASSUME NEW d \in Calls, Execute(d) PROVE Goal
  <2>1. PICK success \in BOOLEAN : task' = [task EXCEPT ![d].pc = "executed", ![d].success = success]
    BY <1>4 DEF Execute
  <2>2. task[d].pc = "running"
    BY <1>4 DEF Execute
  <2>3. task[d] \in Task
    BY <1>1
  <2>4. /\ task'[d].pc = "executed" /\ task'[d].op = task[d].op
        /\ task'[d].spec = task[d].spec /\ task'[d].env = task[d].env
        /\ \A x \in Calls : x # d => task'[x] = task[x]
    BY <1>1, <2>1, <2>3 DEF Task
  <2>5. Executes(d)
    BY <1>4, <2>2, <2>4 DEF Executes, SameWork, Busy
  <2> QED BY <2>4, <2>5
<1>5. ASSUME NEW d \in Calls, ReportResultGet(d) PROVE Goal
  <2>1. CASE EndTask(d)
    BY <1>2, <2>1
  <2>2. CASE /\ record[TaskResource(d)].exists
             /\ task' = [task EXCEPT ![d].pc = "write", ![d].read = record[TaskResource(d)]]
    <3>1. task[d] \in Task /\ task[d].pc = "executed" /\ UNCHANGED <<record, infra>>
      BY <1>1, <1>5 DEF ReportResultGet
    <3>2. /\ task'[d].pc = "write" /\ task'[d].op = task[d].op /\ task'[d].success = task[d].success
          /\ task'[d].spec = task[d].spec /\ task'[d].env = task[d].env
          /\ task'[d].read = record[TaskResource(d)]
          /\ \A x \in Calls : x # d => task'[x] = task[x]
      BY <1>1, <2>2, <3>1 DEF Task
    <3>3. GetsRecord(d)
      BY <2>2, <3>1, <3>2 DEF GetsRecord, SameWork, Busy
    <3> QED BY <3>2, <3>3
  <2> QED BY <1>5, <2>1, <2>2 DEF ReportResultGet
<1>6. ASSUME NEW d \in Calls, ReportResultWrite(d) PROVE Goal
  <2>1. task[d] \in Task /\ task[d].pc = "write"
        /\ task' = [task EXCEPT ![d].pc = "update", ![d].read = Blank]
    BY <1>1, <1>6 DEF ReportResultWrite
  <2>2. /\ task'[d].pc = "update" /\ task'[d].op = task[d].op
        /\ task'[d].spec = task[d].spec /\ task'[d].env = task[d].env
        /\ \A x \in Calls : x # d => task'[x] = task[x]
    BY <1>1, <2>1 DEF Task
  <2>3. WritesResult(d)
    BY <1>6, <2>1, <2>2 DEF WritesResult, SameWork, Busy
  <2> QED BY <2>2, <2>3
<1>7. ASSUME NEW e \in Envs, Crash(e) PROVE Goal
  BY <1>7 DEF Crash, EndedTask, FreeTask, Busy
<1>8. CASE UNCHANGED task
  BY <1>8
<1> QED
  BY <1>2, <1>3, <1>4, <1>5, <1>6, <1>7, <1>8
     DEF Next, vars, restVars, PutApplication, DeleteApplication, WorkerOutside, VisibilityExpires,
         DispatcherStep, DispatchGet, DispatchApp, DispatchPlace, DispatchSave, DispatchSend,
         RequestStep, BeginRequest, PutSave, QueueOperation, EnqueueOperation,
         ReportStep, ReportResultUpdateGet, ReportResultUpdateSave, Disconnect, Reconnect,
         LoseReport, CheckHealth, ReportStatusGet, ReportStatusSave

(* So a goroutine at work had the same work before, or has just got it.    *)
LEMMA BusyStep ==
    ASSUME IInv, [Next]_vars, NEW c \in Calls, Busy(c)'
    PROVE  SameWork(c) \/ \E e \in Envs : Receives(e, c)
BY TaskStep DEF Busy, SameWork, Executes, GetsRecord, WritesResult

(* The dispatcher sends an event to the environment it has chosen.         *)
Sends(e) ==
    /\ Dispatching("send") /\ e = dispatcher.env
    /\ Ops!ControllerDispatches /\ UNCHANGED <<record, request, task, infra>>
    /\ channel' = [channel EXCEPT
                     ![e] = Append(@, [op |-> worker.op, spec |-> dispatcher.read.spec])]

(* An event is sent, received, or lost with its stream, and in that order. *)
LEMMA ChannelStep ==
    ASSUME IInv, [Next]_vars, NEW e \in Envs
    PROVE  \/ channel'[e] = channel[e] \/ channel'[e] = <<>>
           \/ channel'[e] = Tail(channel[e]) /\ channel[e] # <<>> /\ \E c \in Calls : Receives(e, c)
           \/ Sends(e)
<1> DEFINE Goal == \/ channel'[e] = channel[e] \/ channel'[e] = <<>>
                   \/ channel'[e] = Tail(channel[e]) /\ channel[e] # <<>> /\ \E c \in Calls : Receives(e, c)
                   \/ Sends(e)
<1> SUFFICES Goal
  OBVIOUS
<1>1. channel \in [Envs -> Seq(Event)] /\ task \in [Calls -> Task]
  BY DEF IInv, TypeOK
<1>2. ASSUME NEW x \in Envs, Disconnect(x) \/ Crash(x) PROVE Goal
  BY <1>1, <1>2 DEF Disconnect, Crash
<1>3. ASSUME NEW x \in Envs, NEW c \in Calls, Receive(x, c) PROVE Goal
  <2>1. channel' = [channel EXCEPT ![x] = Tail(@)] /\ channel[x] # <<>>
    BY <1>3 DEF Receive
  <2>2. CASE x # e
    BY <1>1, <2>1, <2>2
  <2>3. CASE x = e
    BY <1>1, <1>3, <2>1, <2>3, ReceiveLemma
  <2> QED BY <2>2, <2>3
<1>4. CASE DispatchSend
  <2>1. CASE UNCHANGED channel
    BY <2>1
  <2>2. CASE /\ channel' = [channel EXCEPT ![dispatcher.env] =
                              Append(@, [op |-> worker.op, spec |-> dispatcher.read.spec])]
             /\ Ops!ControllerDispatches /\ UNCHANGED record
    BY <1>1, <1>4, <2>2 DEF DispatchSend, Sends
  <2> QED BY <1>4, <2>1, <2>2 DEF DispatchSend
<1>5. CASE UNCHANGED channel
  BY <1>5
<1> QED
  BY <1>2, <1>3, <1>4, <1>5
     DEF Next, vars, restVars, PutApplication, DeleteApplication, WorkerOutside, VisibilityExpires,
         DispatcherStep, DispatchGet, DispatchApp, DispatchPlace, DispatchSave,
         RequestStep, BeginRequest, PutSave, QueueOperation, EnqueueOperation,
         ReportStep, ReportResultGet, ReportResultWrite, ReportResultUpdateGet,
         ReportResultUpdateSave, Reconnect, Execute,
         LoseReport, CheckHealth, ReportStatusGet, ReportStatusSave

(* What happens to the infrastructure: only Terraform changes it.          *)
LEMMA InfraStep ==
    ASSUME IInv, [Next]_vars, NEW e \in Envs, NEW r \in Resources
    PROVE  \/ infra'[e][r] = infra[e][r]
           \/ \E c \in Calls :
                /\ Executes(c) /\ UNCHANGED <<record, lastPut>>
                /\ task[c].env = e /\ TaskResource(c) = r
                /\ infra'[e][r] = IF TaskMethod(c) = "PUT" THEN task[c].spec ELSE NoOp
<1> DEFINE Goal == \/ infra'[e][r] = infra[e][r]
                   \/ \E c \in Calls :
                        /\ Executes(c) /\ UNCHANGED <<record, lastPut>>
                        /\ task[c].env = e /\ TaskResource(c) = r
                        /\ infra'[e][r] = IF TaskMethod(c) = "PUT" THEN task[c].spec ELSE NoOp
<1> SUFFICES Goal
  OBVIOUS
<1>1. CASE UNCHANGED infra
  BY <1>1
<1>2. ASSUME NEW c \in Calls, Execute(c) PROVE Goal
  <2> DEFINE target == IF TaskMethod(c) = "PUT" THEN task[c].spec ELSE NoOp
  <2>1. Executes(c)
    <3>1. task[c].pc = "running" /\ task[c] \in Task
      BY <1>2 DEF Execute, IInv, TypeOK
    <3>2. task'[c].pc = "executed"
      BY <1>2 DEF Execute, IInv, TypeOK, Task
    <3> QED BY <3>1, <3>2, TaskStep DEF Receives, Receive, Executes, GetsRecord, WritesResult, Busy
  <2>2. UNCHANGED <<record, lastPut>>
    BY <1>2 DEF Execute
  <2>3. infra' = [infra EXCEPT ![task[c].env][TaskResource(c)] = target] \/ UNCHANGED infra
    BY <1>2 DEF Execute
  <2>4. infra \in [Envs -> [Resources -> SomeOp]]
    BY DEF IInv, TypeOK
  <2> QED BY <2>1, <2>2, <2>3, <2>4
<1> QED
  BY <1>1, <1>2
     DEF Next, vars, restVars, PutApplication, DeleteApplication, WorkerOutside, VisibilityExpires,
         DispatcherStep, DispatchGet, DispatchApp, DispatchPlace, DispatchSave, DispatchSend,
         RequestStep, BeginRequest, PutSave, QueueOperation, EnqueueOperation,
         ReportStep, ReportResultGet, ReportResultWrite, ReportResultUpdateGet,
         ReportResultUpdateSave, Disconnect, Reconnect, Crash, Receive,
         LoseReport, CheckHealth, ReportStatusGet, ReportStatusSave

(* What happens to a request.                                              *)
LEMMA RequestMoves ==
    ASSUME IInv, [Next]_vars, NEW o \in Operations
    PROVE  \/ request'[o] = request[o]
           \/ BeginRequest(o) /\ request'[o].pc \in {"save", "queue", "ended"}
              /\ (request[o].method = "PUT" => request'[o].pc = "save")
           \/ PutSave(o) /\ request[o].pc = "save" /\ request'[o].pc = "queue" /\ lastPut'[request[o].resource] = o
           \/ PutSave(o) /\ request[o].pc = "save" /\ request'[o].pc = "ended"
           \/ QueueOperation(o) /\ request[o].pc = "queue" /\ request'[o].pc = "enqueue"
           \/ EnqueueOperation(o) /\ request[o].pc = "enqueue" /\ request'[o].pc = "accepted"
<1> DEFINE Goal ==
           \/ request'[o] = request[o]
           \/ BeginRequest(o) /\ request'[o].pc \in {"save", "queue", "ended"}
              /\ (request[o].method = "PUT" => request'[o].pc = "save")
           \/ PutSave(o) /\ request[o].pc = "save" /\ request'[o].pc = "queue" /\ lastPut'[request[o].resource] = o
           \/ PutSave(o) /\ request[o].pc = "save" /\ request'[o].pc = "ended"
           \/ QueueOperation(o) /\ request[o].pc = "queue" /\ request'[o].pc = "enqueue"
           \/ EnqueueOperation(o) /\ request[o].pc = "enqueue" /\ request'[o].pc = "accepted"
<1> SUFFICES Goal
  OBVIOUS
<1>0. /\ request \in [Operations -> Request] /\ lastPut \in [Resources -> SomeOp]
      /\ request[o] \in Request /\ request[o].resource \in Resources
  BY DEF IInv, TypeOK, Request
<1>1. CASE UNCHANGED request
  BY <1>1
<1>2. ASSUME NEW p \in Operations, RequestStep(p) PROVE Goal
  <2>1. CASE p # o
    BY <1>0, <1>2, <2>1 DEF RequestStep, BeginRequest, PutSave, QueueOperation, EnqueueOperation
  <2>2. CASE BeginRequest(o)
    BY <1>0, <2>2 DEF BeginRequest, Request
  <2>3. CASE PutSave(o)
    BY <1>0, <2>3 DEF PutSave, Request
  <2>4. CASE QueueOperation(o)
    BY <1>0, <2>4 DEF QueueOperation, Request
  <2>5. CASE EnqueueOperation(o)
    BY <1>0, <2>5 DEF EnqueueOperation, Request
  <2> QED BY <1>2, <2>1, <2>2, <2>3, <2>4, <2>5 DEF RequestStep
<1> QED
  BY <1>1, <1>2
     DEF Next, vars, restVars, PutApplication, DeleteApplication, WorkerOutside, VisibilityExpires,
         DispatcherStep, DispatchGet, DispatchApp, DispatchPlace, DispatchSave, DispatchSend,
         ReportStep, ReportResultGet, ReportResultWrite, ReportResultUpdateGet,
         ReportResultUpdateSave, Disconnect, Reconnect, Crash, Receive, Execute,
         LoseReport, CheckHealth, ReportStatusGet, ReportStatusSave

(* What the machinery of operations knows of the one the worker holds, and *)
(* of those whose event was sent.                                          *)
LEMMA OperationFacts ==
    ASSUME IInv
    PROVE  /\ worker.pc # "idle" => worker.op \in Operations /\ Ops!Queued(worker.op)
           /\ worker.pc = "run" => worker.op \notin dispatched
           /\ \A o \in Operations :
                status[o].state = "None" => /\ ~Ops!Queued(o) /\ o \notin dispatched
                                            /\ worker.op # o
<1> USE DEF IInv, OpsProofs!IInv
<1>1. worker.pc # "idle" => worker.op \in Operations /\ Ops!Queued(worker.op)
  BY DEF OpsProofs!WorkerHoldsMessage, OpsProofs!Queued, Ops!Queued
<1>2. worker.pc = "run" => worker.op \notin dispatched
  BY <1>1 DEF OpsProofs!Held
<1>3. ASSUME NEW o \in Operations, status[o].state = "None"
      PROVE  ~Ops!Queued(o) /\ o \notin dispatched /\ worker.op # o
  <2>1. worker.op # o
    <3>1. worker \in OpsProofs!Worker
      BY DEF OpsProofs!TypeOK
    <3>2. worker.pc = "idle" => worker.op # o
      BY ControlPlaneAssumption DEF OpsProofs!WorkerHoldsMessage
    <3>3. ASSUME worker.pc # "idle", worker.op = o PROVE FALSE
      <4>1. OpsProofs!Held(o)
        BY <3>3
      <4>2. worker.pc \in {"start", "startSave", "run", "set", "save", "complete", "dead"}
        BY <3>1, <3>3 DEF OpsProofs!Worker, OpsProofs!WorkerPC
      <4> QED BY <1>3, <4>1, <4>2 DEF OpsProofs!Held, OpsProofs!Fresh, OpsProofs!Started, OpsProofs!TerminalStates
    <3> QED BY <3>2, <3>3
  <2>2. OpsProofs!Elsewhere(o)
    BY <2>1
  <2>3. ~OpsProofs!Queued(o) /\ o \notin dispatched
    BY <1>3, <2>2 DEF OpsProofs!Elsewhere, OpsProofs!Fresh, OpsProofs!Terminal, OpsProofs!TerminalStates
  <2> QED BY <2>1, <2>3 DEF OpsProofs!Queued, Ops!Queued
<1> QED BY <1>1, <1>2, <1>3

(* An event that was sent stays sent.                                      *)
LEMMA DispatchedGrows ==
    ASSUME IInv, [Next]_vars
    PROVE  dispatched \subseteq dispatched'
<1>1. [Ops!Next]_(Ops!vars)
  BY StepOfOps DEF IInv
<1> QED BY <1>1
  DEF Ops!Next, Ops!vars, Ops!WorkerStep, Ops!RequestStep, Ops!CallStep, Ops!VisibilityExpires,
      Ops!Dequeue, Ops!Complete, Ops!StartGet, Ops!StartSave, Ops!NoController,
      Ops!ControllerReturns, Ops!ControllerDispatches, Ops!ControllerDrops, Ops!ControllerFails,
      Ops!ControllerPanics, Ops!FinalGet, Ops!FinalSave,
      Ops!SaveAccepted, Ops!Enqueue, Ops!ReportArrives, Ops!ReportGet, Ops!ReportSave, Ops!ReportDropped

(* Only EnqueueOperation brings an operation into the queue.               *)
LEMMA QueuedStep ==
    ASSUME IInv, [Next]_vars, NEW o \in Operations, Ops!Queued(o)'
    PROVE  Ops!Queued(o) \/ request[o].pc = "enqueue"
<1>0. /\ OpsProofs!Queued(o) <=> Ops!Queued(o)
      /\ OpsProofs!Queued(o)' <=> Ops!Queued(o)'
  BY DEF Ops!Queued, OpsProofs!Queued
<1>1. messages \in Seq(OpsProofs!Message) /\ OpsProofs!QueuedOnce
  BY DEF IInv, OpsProofs!IInv, OpsProofs!TypeOK
<1>2. CASE UNCHANGED messages
  BY <1>2 DEF Ops!Queued
<1>3. ASSUME NEW p \in Operations, EnqueueOperation(p) PROVE Ops!Queued(o) \/ request[o].pc = "enqueue"
  <2>1. request[p].pc = "enqueue" /\ messages' = Append(messages, [op |-> p, visible |-> TRUE])
    BY <1>3 DEF EnqueueOperation, Ops!Enqueue
  <2> QED BY <1>0, <1>1, <2>1, OpsProofs!AppendLemma, ControlPlaneAssumption
<1>4. ASSUME NEW i \in DOMAIN messages, messages' = Ops!Without(messages, i)
      PROVE  Ops!Queued(o)
  <2>1. messages' = OpsProofs!Without(messages, i)
    BY <1>4 DEF Ops!Without, OpsProofs!Without
  <2> QED BY <1>0, <1>1, <2>1, OpsProofs!WithoutLemma, ControlPlaneAssumption
<1>5. ASSUME NEW i \in DOMAIN messages, NEW b \in BOOLEAN, messages' = [messages EXCEPT ![i].visible = b]
      PROVE  Ops!Queued(o)
  BY <1>0, <1>1, <1>5, OpsProofs!VisibleLemma, ControlPlaneAssumption
<1>6. CASE WorkerOutside \/ VisibilityExpires
  BY <1>2, <1>4, <1>5, <1>6 DEF WorkerOutside, VisibilityExpires, Ops!Dequeue, Ops!Complete, Ops!StartGet,
       Ops!StartSave, Ops!FinalGet, Ops!FinalSave, Ops!VisibilityExpires
<1>7. CASE DispatcherStep
  BY <1>2, <1>7 DEF DispatcherStep, DispatchGet, DispatchApp, DispatchPlace, DispatchSave, DispatchSend,
       FailDispatch, Ops!ControllerFails, Ops!ControllerReturns, Ops!ControllerDispatches,
     Ops!ControllerDrops, opsVars
<1>8. ASSUME NEW p \in Operations, RequestStep(p), ~EnqueueOperation(p) PROVE UNCHANGED messages
  BY <1>8 DEF RequestStep, BeginRequest, PutSave, QueueOperation, Ops!SaveAccepted, opsVars
<1>9. ASSUME NEW c \in Calls, ReportStep(c) PROVE UNCHANGED messages
  BY <1>9 DEF ReportStep, ReportResultGet, ReportResultWrite, ReportResultUpdateGet,
       ReportResultUpdateSave, Ops!ReportArrives, Ops!ReportGet, Ops!ReportSave, opsVars
<1> QED
  BY <1>2, <1>3, <1>6, <1>7, <1>8, <1>9
     DEF Next, vars, opsVars, PutApplication, DeleteApplication, Disconnect, Reconnect, Crash, Receive,
         Execute, LoseReport, CheckHealth, ReportStatusGet, ReportStatusSave

(* A save that is not refused.                                             *)
LEMMA SavedFields ==
    ASSUME TypeOK, NEW r \in Resources, NEW data \in Record, SaveChecked(r, data),
           NEW x \in Resources
    PROVE  \/ record'[x] = record[x]
           \/ /\ x = r /\ Matches(r, data)
              /\ record'[r] = Stored(r, data)
              /\ record'[r].exists /\ record'[r].etag = record[r].etag + 1
              /\ record'[r].spec = data.spec /\ record'[r].state = data.state
              /\ record'[r].env = data.env
<1>1. CASE ~Matches(r, data)
  BY <1>1 DEF SaveChecked
<1>2. CASE Matches(r, data)
  <2>1. record' = [record EXCEPT ![r] = Stored(r, data)]
    BY <1>2 DEF SaveChecked, SaveUnchecked
  <2>2. /\ Stored(r, data).exists /\ Stored(r, data).etag = record[r].etag + 1
        /\ Stored(r, data).spec = data.spec /\ Stored(r, data).state = data.state
        /\ Stored(r, data).env = data.env
    BY DEF Stored, Record
  <2> HIDE DEF Stored
  <2> QED BY <1>2, <2>1, <2>2 DEF TypeOK
<1> QED BY <1>1, <1>2

(* The writers of a record.                                                *)
Working(method) == IF method = "PUT" THEN "Deploying" ELSE "Deleting"

(* Each of the steps that change a record, with what was read before it.   *)
PutSaves(r) ==
    \E o \in Operations :
        /\ request[o].resource = r
        /\ request[o].pc = "save" /\ request'[o].pc = "queue"
        /\ lastPut'[r] = o
        /\ record'[r].exists /\ record'[r].etag = record[r].etag + 1
        /\ record'[r].state = "None"

DispatcherSaves(r) ==
    /\ worker.pc = "run" /\ Handled = r
    /\ dispatcher.pc # "get" /\ dispatcher'.pc # dispatcher.pc
    /\ record[r].exists
    /\ record'[r].exists /\ record'[r].etag = record[r].etag + 1
    /\ record'[r].state \in {"Failed", Working(DispatchMethod)}
    /\ UNCHANGED lastPut

ReportSaves(c, r) ==
    /\ WritesResult(c) /\ TaskResource(c) = r
    /\ Matches(r, task[c].read)
    /\ ~(task[c].success /\ task[c].read.state = "Deleting")
    /\ record'[r].exists /\ record'[r].etag = record[r].etag + 1
    /\ record'[r].state = IF task[c].success THEN "Succeeded" ELSE "Failed"
    /\ record'[r].env = task[c].read.env /\ record'[r].spec = task[c].read.spec
    /\ UNCHANGED <<lastPut, infra>>

ReportRemoves(c, r) ==
    /\ WritesResult(c) /\ TaskResource(c) = r
    /\ task[c].success /\ task[c].read.state = "Deleting"
    /\ ~record'[r].exists /\ record'[r].etag = record[r].etag
    /\ UNCHANGED <<lastPut, infra>>

HealthSaves(r) ==
    /\ reporter[r].pc = "save" /\ Matches(r, reporter[r].read)
    /\ record'[r].exists /\ record'[r].etag = record[r].etag + 1
    /\ record'[r].state = reporter[r].read.state
    /\ UNCHANGED lastPut

Writes(r) ==
    \/ PutSaves(r) \/ DispatcherSaves(r) \/ HealthSaves(r)
    \/ \E c \in Calls : ReportSaves(c, r) \/ ReportRemoves(c, r)

(* A record that has changed was written by one of these.                  *)
LEMMA RecordWriters ==
    ASSUME IInv, [Next]_vars, NEW r \in Resources
    PROVE  Keeps(r) \/ Writes(r)
<1> USE DEF Keeps
<1>0. TypeOK /\ \A x \in Resources : record[x] \in Record
  BY DEF IInv, TypeOK
<1>1. CASE UNCHANGED <<record, lastPut>>
  BY <1>1
<1>2. ASSUME NEW o \in Operations, PutSave(o) PROVE Keeps(r) \/ Writes(r)
  <2> DEFINE k == request[o].resource
             body == [Blank EXCEPT !.spec = o]
  <2>1. CASE UNCHANGED <<record, lastPut>>
    BY <2>1
  <2>2. CASE /\ SaveUnchecked(k, body) /\ lastPut' = [lastPut EXCEPT ![k] = o]
             /\ request' = [request EXCEPT ![o].pc = "queue", ![o].read = Blank]
    <3>1. k \in Resources /\ request[o].pc = "save"
      BY <1>0, <1>2 DEF TypeOK, Request, PutSave
    <3>2. /\ Stored(k, body).exists /\ Stored(k, body).state = "None"
          /\ Stored(k, body).etag = record[k].etag + 1
      BY DEF Stored, Blank
    <3>3. record' = [record EXCEPT ![k] = Stored(k, body)]
      BY <2>2 DEF SaveUnchecked
    <3> HIDE DEF body
    <3>4. CASE r # k
      BY <1>0, <2>2, <3>3, <3>4 DEF TypeOK
    <3>5. CASE r = k
      <4>1. record'[r] = Stored(k, body) /\ lastPut'[r] = o
        BY <1>0, <2>2, <3>1, <3>3, <3>5 DEF TypeOK
      <4>2. request'[o].pc = "queue"
        BY <1>0, <2>2 DEF TypeOK, Request
      <4> QED BY <3>1, <3>2, <3>5, <4>1, <4>2 DEF Writes, PutSaves
    <3> QED BY <3>4, <3>5
  <2> QED BY <1>2, <2>1, <2>2 DEF PutSave
<1>3. CASE DispatcherStep
  <2>1. ASSUME NEW pc \in {"app", "place", "save", "send"}, Dispatching(pc),
               NEW data \in Record, SaveChecked(Handled, data), UNCHANGED lastPut,
               dispatcher'.pc # pc, data.state \in {"Failed", Working(DispatchMethod)}
        PROVE  Keeps(r) \/ Writes(r)
    BY <1>0, <2>1, DispatcherFacts, SavedFields DEF Writes, DispatcherSaves, Dispatching, Matches
  <2>2. ASSUME NEW pc \in {"app", "place", "save", "send"}, Dispatching(pc), FailDispatch,
               UNCHANGED lastPut
        PROVE  Keeps(r) \/ Writes(r)
    <3> DEFINE data == [dispatcher.read EXCEPT !.state = "Failed"]
    <3>1. data \in Record /\ data.state = "Failed"
      BY <2>2, DispatcherFacts DEF Record, ResourceStates
    <3>2. SaveChecked(Handled, data) /\ dispatcher'.pc = "get"
      BY <2>2 DEF FailDispatch, IdleDispatcher
    <3> QED BY <2>1, <2>2, <3>1, <3>2
  <2>3. CASE DispatchSave
    <3> DEFINE started == [dispatcher.read EXCEPT
                             !.state = IF DispatchMethod = "PUT" THEN "Deploying" ELSE "Deleting",
                             !.env   = dispatcher.env]
    <3>1. started \in Record /\ started.state = Working(DispatchMethod)
      BY <2>3, DispatcherFacts DEF DispatchSave, Record, ResourceStates, Working
    <3>2. SaveChecked(Handled, started) /\ UNCHANGED lastPut /\ Dispatching("save")
      BY <2>3 DEF DispatchSave
    <3>3. dispatcher'.pc = "send"
      BY <1>0, <2>3 DEF DispatchSave, TypeOK, Dispatcher
    <3> QED BY <2>1, <3>1, <3>2, <3>3
  <2> QED
    BY <1>1, <1>3, <2>2, <2>3 DEF DispatcherStep, DispatchGet, DispatchApp, DispatchPlace, DispatchSend
<1>4. ASSUME NEW c \in Calls, ReportResultWrite(c) PROVE Keeps(r) \/ Writes(r)
  <2> DEFINE k == TaskResource(c)
             data(st) == [task[c].read EXCEPT !.state = st]
             concluded == IF task[c].success THEN "Succeeded" ELSE "Failed"
  <2>1. /\ k \in Resources /\ task[c].read \in Record /\ task[c].success \in BOOLEAN
        /\ task[c].pc = "write" /\ UNCHANGED <<lastPut, infra>>
    BY <1>0, <1>4 DEF ReportResultWrite, IInv, TasksAreOfOperations, TypeOK, TaskResource, Request, Task
  <2>2. WritesResult(c)
    <3>1. task'[c].pc = "update"
      BY <1>0, <1>4 DEF ReportResultWrite, TypeOK, Task
    <3> QED BY <2>1, <3>1, TaskStep DEF Receives, Receive, Executes, GetsRecord, Busy
  <2>3. CASE task[c].success /\ task[c].read.state = "Deleting"
    <3>1. record' = [record EXCEPT ![k] = [record[k] EXCEPT !.exists = FALSE]]
      BY <1>4, <2>3 DEF ReportResultWrite, DeleteRecord
    <3>2. /\ [record[k] EXCEPT !.exists = FALSE].exists = FALSE
          /\ [record[k] EXCEPT !.exists = FALSE].etag = record[k].etag
      BY <1>0, <2>1 DEF Record
    <3>3. r # k => record'[r] = record[r]
      BY <1>0, <3>1 DEF TypeOK
    <3>4. r = k => ~record'[r].exists /\ record'[r].etag = record[r].etag
      BY <1>0, <2>1, <3>1, <3>2 DEF TypeOK
    <3> QED BY <2>1, <2>2, <2>3, <3>3, <3>4 DEF Writes, ReportRemoves
  <2>4. CASE ~(task[c].success /\ task[c].read.state = "Deleting")
    <3>1. SaveChecked(k, data(concluded))
      BY <1>4, <2>4 DEF ReportResultWrite
    <3>2. /\ data(concluded) \in Record /\ data(concluded).state = concluded
          /\ data(concluded).env = task[c].read.env /\ data(concluded).spec = task[c].read.spec
          /\ data(concluded).etag = task[c].read.etag
      BY <2>1 DEF Record, ResourceStates
    <3> HIDE DEF data
    <3>3. Matches(k, data(concluded)) <=> Matches(k, task[c].read)
      BY <3>2 DEF Matches
    <3>4. \/ record'[r] = record[r]
          \/ /\ r = k /\ Matches(k, data(concluded))
             /\ record'[r].exists /\ record'[r].etag = record[r].etag + 1
             /\ record'[r].spec = data(concluded).spec /\ record'[r].state = data(concluded).state
             /\ record'[r].env = data(concluded).env
      BY <1>0, <2>1, <3>1, <3>2, SavedFields
    <3> QED BY <2>1, <2>2, <2>4, <3>2, <3>3, <3>4 DEF Writes, ReportSaves
  <2> QED BY <2>3, <2>4
<1>5. ASSUME NEW k \in Resources, ReportStatusSave(k) PROVE Keeps(r) \/ Writes(r)
  <2> DEFINE data == [reporter[k].read EXCEPT !.healthy = TRUE]
  <2>1. reporter[k].read \in Record /\ reporter[k].pc = "save" /\ UNCHANGED lastPut
    BY <1>0, <1>5 DEF ReportStatusSave, TypeOK
  <2>2. data \in Record /\ data.state = reporter[k].read.state /\ data.etag = reporter[k].read.etag
    BY <2>1 DEF Record
  <2>3. SaveChecked(k, data)
    BY <1>5 DEF ReportStatusSave
  <2> HIDE DEF data
  <2> QED BY <1>0, <2>1, <2>2, <2>3, SavedFields DEF Writes, HealthSaves, Matches
<1> QED
  BY <1>1, <1>2, <1>3, <1>4, <1>5
     DEF Next, vars, restVars, RequestStep, BeginRequest, QueueOperation, EnqueueOperation,
         PutApplication, DeleteApplication, WorkerOutside, VisibilityExpires, ReportStep, ReportResultGet,
         ReportResultUpdateGet, ReportResultUpdateSave, Disconnect, Reconnect, Crash, Receive,
         Execute, LoseReport, CheckHealth, ReportStatusGet

(* What happens to the dispatcher's run.                                   *)
LEMMA DispatcherMoves ==
    ASSUME IInv, [Next]_vars
    PROVE  \/ dispatcher'.pc = "get"
           \/ dispatcher' = dispatcher /\ worker' = worker
           \/ /\ worker.pc = "run" /\ worker.op \in Operations /\ UNCHANGED <<worker, record>>
              /\ dispatcher.pc = "get" /\ dispatcher'.pc = "app"
              /\ record[Handled].exists /\ dispatcher'.read = record[Handled]
           \/ /\ UNCHANGED <<worker, record>> /\ dispatcher.pc \in {"app", "place"}
              /\ dispatcher'.pc \in {"place", "save"} /\ dispatcher'.read = dispatcher.read
              /\ AppEnv # NoEnv => dispatcher'.env = AppEnv
           \/ /\ DispatchSave /\ UNCHANGED worker /\ dispatcher.pc = "save" /\ dispatcher'.pc = "send"
              /\ dispatcher'.env = dispatcher.env /\ dispatcher'.read.spec = dispatcher.read.spec
              /\ Matches(Handled, dispatcher.read) =>
                   /\ record'[Handled].exists /\ dispatcher'.read = record'[Handled]
                   /\ record'[Handled].state = Working(DispatchMethod)
                   /\ record'[Handled].env = dispatcher.env
<1> DEFINE Goal ==
           \/ dispatcher'.pc = "get"
           \/ dispatcher' = dispatcher /\ worker' = worker
           \/ /\ worker.pc = "run" /\ worker.op \in Operations /\ UNCHANGED <<worker, record>>
              /\ dispatcher.pc = "get" /\ dispatcher'.pc = "app"
              /\ record[Handled].exists /\ dispatcher'.read = record[Handled]
           \/ /\ UNCHANGED <<worker, record>> /\ dispatcher.pc \in {"app", "place"}
              /\ dispatcher'.pc \in {"place", "save"} /\ dispatcher'.read = dispatcher.read
              /\ AppEnv # NoEnv => dispatcher'.env = AppEnv
           \/ /\ DispatchSave /\ UNCHANGED worker /\ dispatcher.pc = "save" /\ dispatcher'.pc = "send"
              /\ dispatcher'.env = dispatcher.env /\ dispatcher'.read.spec = dispatcher.read.spec
              /\ Matches(Handled, dispatcher.read) =>
                   /\ record'[Handled].exists /\ dispatcher'.read = record'[Handled]
                   /\ record'[Handled].state = Working(DispatchMethod)
                   /\ record'[Handled].env = dispatcher.env
<1> SUFFICES Goal
  OBVIOUS
<1>0. dispatcher \in Dispatcher /\ DispatcherInRun
  BY DEF IInv, TypeOK
<1>1. CASE UNCHANGED <<dispatcher, worker>>
  BY <1>1
<1>2. CASE UNCHANGED dispatcher /\ worker.pc # "run"
  BY <1>0, <1>2 DEF DispatcherInRun
<1>3. CASE DispatchGet
  <2>1. CASE UNCHANGED dispatcher
    BY <1>3, <2>1 DEF DispatchGet, Dispatching
  <2>2. CASE /\ record[Handled].exists
             /\ dispatcher' = [dispatcher EXCEPT !.pc = "app", !.read = record[Handled]]
             /\ UNCHANGED opsVars
    BY <1>0, <1>3, <2>2, OperationFacts DEF DispatchGet, Dispatching, opsVars, Dispatcher
  <2> QED BY <1>3, <2>1, <2>2 DEF DispatchGet
<1>4. ASSUME FailDispatch PROVE Goal
  BY <1>4 DEF FailDispatch, IdleDispatcher
<1>5. CASE DispatchApp
  BY <1>0, <1>4, <1>5 DEF DispatchApp, Dispatching, opsVars, Dispatcher
<1>6. CASE DispatchPlace
  BY <1>0, <1>4, <1>6 DEF DispatchPlace, Dispatching, opsVars, Dispatcher
<1>7. CASE DispatchSave
  <2> DEFINE started == [dispatcher.read EXCEPT
                           !.state = IF DispatchMethod = "PUT" THEN "Deploying" ELSE "Deleting",
                           !.env   = dispatcher.env]
             read == IF Matches(Handled, started) THEN Stored(Handled, started) ELSE started
  <2>1. /\ Dispatching("save") /\ UNCHANGED worker /\ SaveChecked(Handled, started)
        /\ dispatcher' = [dispatcher EXCEPT !.pc = "send", !.read = read]
    BY <1>7 DEF DispatchSave, opsVars
  <2>2. /\ Handled \in Resources /\ started \in Record /\ started.spec = dispatcher.read.spec
        /\ started.state = Working(DispatchMethod) /\ started.env = dispatcher.env
        /\ started.etag = dispatcher.read.etag
    BY <2>1, DispatcherFacts DEF Record, ResourceStates, Working
  <2> HIDE DEF started
  <2>3. /\ dispatcher.pc = "save" /\ dispatcher'.pc = "send"
        /\ dispatcher'.env = dispatcher.env /\ dispatcher'.read = read
    BY <1>0, <2>1 DEF Dispatching, Dispatcher
  <2>4. Matches(Handled, started) <=> Matches(Handled, dispatcher.read)
    BY <2>2 DEF Matches
  <2>5. read.spec = dispatcher.read.spec
    BY <2>2 DEF Stored, Record
  <2>6. ASSUME Matches(Handled, started)
        PROVE  /\ record'[Handled].exists /\ read = record'[Handled]
               /\ record'[Handled].state = Working(DispatchMethod)
               /\ record'[Handled].env = dispatcher.env
    <3>1. record' = [record EXCEPT ![Handled] = read] /\ read = Stored(Handled, started)
      BY <2>1, <2>6 DEF SaveChecked, SaveUnchecked
    <3>2. record'[Handled] = read
      BY <2>2, <3>1 DEF IInv, TypeOK
    <3>3. read.exists /\ read.state = Working(DispatchMethod) /\ read.env = dispatcher.env
      BY <2>2, <3>1 DEF Stored, Record
    <3> QED BY <3>2, <3>3
  <2> QED BY <1>7, <2>1, <2>3, <2>4, <2>5, <2>6
<1>8. CASE DispatchSend
  BY <1>4, <1>8 DEF DispatchSend, IdleDispatcher
<1>9. CASE WorkerOutside
  <2>1. worker.pc # "run" /\ UNCHANGED dispatcher
    BY <1>9 DEF WorkerOutside, Ops!Dequeue, Ops!Complete, Ops!StartGet, Ops!StartSave,
       Ops!FinalGet, Ops!FinalSave, restVars
  <2> QED BY <1>2, <2>1
<1>10. ASSUME NEW o \in Operations, RequestStep(o) PROVE UNCHANGED <<dispatcher, worker>>
  BY <1>10 DEF RequestStep, BeginRequest, PutSave, QueueOperation, EnqueueOperation, opsVars,
     Ops!SaveAccepted, Ops!Enqueue
<1>11. ASSUME NEW c \in Calls, ReportStep(c) PROVE UNCHANGED <<dispatcher, worker>>
  BY <1>11 DEF ReportStep, ReportResultGet, ReportResultWrite, ReportResultUpdateGet,
     ReportResultUpdateSave, opsVars, restVars, Ops!ReportArrives, Ops!ReportGet, Ops!ReportSave
<1> QED
  BY <1>1, <1>3, <1>5, <1>6, <1>7, <1>8, <1>9, <1>10, <1>11
     DEF Next, vars, opsVars, restVars, PutApplication, DeleteApplication, VisibilityExpires, Ops!VisibilityExpires,
         DispatcherStep, Disconnect, Reconnect, Crash, Receive, Execute, LoseReport,
         CheckHealth, ReportStatusGet, ReportStatusSave

-----------------------------------------------------------------------------
(* Every operation reaches an agent at most once, and a copy of a record   *)
(* with the record's ETag is the record - whatever clients and agents do.  *)

(* A request that has not been accepted has no operation.                  *)
NotYetQueued ==
    \A o \in Operations :
        request[o].pc \in {"idle", "save", "queue", "ended"} => status[o].state = "None"

(* What is under way to an agent or at work there has been dispatched.     *)
EventsAreDispatched ==
    /\ \A e \in Envs : \A i \in DOMAIN channel[e] : channel[e][i].op \in dispatched
    /\ \A c \in Calls : Busy(c) => task[c].op \in dispatched

(* The event of an operation is in one place.                              *)
EventsAreUnique ==
    /\ \A e, f \in Envs : \A i \in DOMAIN channel[e], j \in DOMAIN channel[f] :
         channel[e][i].op = channel[f][j].op => e = f /\ i = j
    /\ \A e \in Envs, c \in Calls : \A i \in DOMAIN channel[e] :
         Busy(c) => task[c].op # channel[e][i].op
    /\ \A c, d \in Calls : Busy(c) /\ Busy(d) /\ task[c].op = task[d].op => c = d

(* A copy whose save would not be refused is the record as it is.          *)
IsExact(rec, read) == rec.exists /\ read.etag = rec.etag => read = rec

CopiesAreExact ==
    /\ dispatcher.pc # "get" => IsExact(record[Handled], dispatcher.read)
    /\ \A c \in Calls :
         task[c].pc = "write" => IsExact(record[TaskResource(c)], task[c].read)
    /\ \A r \in Resources :
         reporter[r].pc = "save" => IsExact(record[r], reporter[r].read)

SentInv ==
    /\ IInv
    /\ NotYetQueued
    /\ EventsAreDispatched
    /\ EventsAreUnique
    /\ CopiesAreExact

(* An operation has a status only once its request queued it.              *)
LEMMA NotYetQueuedKept ==
    ASSUME IInv, [Next]_vars, NotYetQueued
    PROVE  NotYetQueued'
<1> SUFFICES ASSUME NEW o \in Operations, request'[o].pc \in {"idle", "save", "queue", "ended"}
             PROVE  status'[o].state = "None"
  BY DEF NotYetQueued
<1>1. status[o].state = "None" /\ ~QueueOperation(o) /\ request[o].pc # "enqueue"
  <2>1. request[o].pc \in {"idle", "save", "queue", "ended"}
    BY RequestMoves DEF BeginRequest
  <2>2. ~QueueOperation(o)
    BY DEF QueueOperation, IInv, TypeOK, Request
  <2> QED BY <2>1, <2>2 DEF NotYetQueued
<1>2. ~Ops!Queued(o) /\ o \notin dispatched /\ worker.op # o
  BY <1>1, OperationFacts
<1>3. \A c \in Calls : call[c].pc \in {"read", "saving"} => call[c].op # o
  BY <1>2 DEF IInv, OpsProofs!IInv, OpsProofs!CallsAreGrounded
<1>4. status \in [Operations -> OpsProofs!StatusRecord]
  BY DEF IInv, OpsProofs!IInv, OpsProofs!TypeOK
<1>5. CASE UNCHANGED status
  BY <1>1, <1>5
<1>6. ASSUME NEW p \in Operations, RequestStep(p) PROVE status'[o] = status[o]
  <2>1. CASE QueueOperation(p)
    <3>1. p # o
      BY <1>1, <2>1
    <3> QED BY <1>4, <2>1, <3>1 DEF QueueOperation, Ops!SaveAccepted
  <2> QED BY <1>6, <2>1 DEF RequestStep, BeginRequest, PutSave, EnqueueOperation, Ops!Enqueue, opsVars
<1>7. CASE WorkerOutside
  BY <1>1, <1>2, <1>4, <1>7 DEF WorkerOutside, Ops!Dequeue, Ops!Complete, Ops!StartGet, Ops!StartSave,
     Ops!FinalGet, Ops!FinalSave
<1>8. CASE DispatcherStep
  BY <1>1, <1>8 DEF DispatcherStep, DispatchGet, DispatchApp, DispatchPlace, DispatchSave, DispatchSend,
     FailDispatch, Ops!ControllerFails, Ops!ControllerReturns, Ops!ControllerDispatches,
     Ops!ControllerDrops, opsVars
<1>9. ASSUME NEW c \in Calls, ReportStep(c) PROVE status'[o] = status[o]
  BY <1>3, <1>4, <1>9 DEF ReportStep, ReportResultGet, ReportResultWrite, ReportResultUpdateGet,
     ReportResultUpdateSave, Ops!ReportArrives, Ops!ReportGet, Ops!ReportSave, opsVars
<1> QED
  BY <1>1, <1>5, <1>6, <1>7, <1>8, <1>9
     DEF Next, vars, opsVars, PutApplication, DeleteApplication, VisibilityExpires, Ops!VisibilityExpires,
         Disconnect, Reconnect, Crash, Receive, Execute, LoseReport, CheckHealth, ReportStatusGet, ReportStatusSave

(* Where an event was before.                                              *)
LEMMA EventStep ==
    ASSUME IInv, [Next]_vars, NEW e \in Envs, NEW i \in DOMAIN channel'[e]
    PROVE  \/ i \in DOMAIN channel[e] /\ channel'[e][i] = channel[e][i]
              /\ \A c \in Calls : ~Receives(e, c) 
           \/ i + 1 \in DOMAIN channel[e] /\ channel'[e][i] = channel[e][i + 1] /\ i # 0
              /\ \E c \in Calls : Receives(e, c)
           \/ Sends(e) /\ i = Len(channel[e]) + 1
              /\ channel'[e][i].op = worker.op /\ channel'[e][i].spec = dispatcher.read.spec
<1>1. channel \in [Envs -> Seq(Event)] /\ channel[e] \in Seq(Event)
  BY DEF IInv, TypeOK
<1>2. ASSUME NEW c \in Calls, Receives(e, c)
      PROVE  i + 1 \in DOMAIN channel[e] /\ channel'[e][i] = channel[e][i + 1] /\ i # 0
  <2>1. channel'[e] = Tail(channel[e]) /\ channel[e] # <<>>
    BY <1>1, <1>2 DEF Receives, Receive
  <2> QED BY <1>1, <2>1
<1>3. CASE channel'[e] = channel[e]
  BY <1>2, <1>3
<1>4. CASE channel'[e] = <<>>
  BY <1>4
<1>5. CASE Sends(e)
  <2>1. channel'[e] = Append(channel[e], [op |-> worker.op, spec |-> dispatcher.read.spec])
    BY <1>1, <1>5 DEF Sends
  <2>2. \A c \in Calls : ~Receives(e, c)
    BY <1>5 DEF Sends, Receives, Receive
  <2> QED BY <1>1, <1>5, <2>1, <2>2
<1> QED BY <1>2, <1>3, <1>4, <1>5, ChannelStep

(* Events, and the goroutines they start, are of dispatched operations.    *)
LEMMA EventsAreDispatchedKept ==
    ASSUME IInv, [Next]_vars, EventsAreDispatched
    PROVE  EventsAreDispatched'
<1>1. dispatched \subseteq dispatched'
  BY DispatchedGrows
<1>2. \A e \in Envs : channel[e] \in Seq(Event)
  BY DEF IInv, TypeOK
<1>3. ASSUME NEW e \in Envs, NEW i \in DOMAIN channel'[e] PROVE channel'[e][i].op \in dispatched'
  <2>1. CASE Sends(e) /\ channel'[e][i].op = worker.op
    BY <2>1 DEF Sends, Ops!ControllerDispatches
  <2> QED BY <1>1, <2>1, EventStep DEF EventsAreDispatched
<1>4. ASSUME NEW c \in Calls, Busy(c)' PROVE task'[c].op \in dispatched'
  <2>1. CASE SameWork(c)
    BY <1>1, <2>1 DEF SameWork, EventsAreDispatched
  <2>2. ASSUME NEW e \in Envs, Receives(e, c) PROVE task'[c].op \in dispatched'
    <3>1. 1 \in DOMAIN channel[e] /\ Head(channel[e]) = channel[e][1]
      BY <1>2, <2>2 DEF Receives, Receive
    <3> QED BY <1>1, <2>2, <3>1 DEF Receives, EventsAreDispatched
  <2> QED BY <1>4, <2>1, <2>2, BusyStep
<1> QED BY <1>3, <1>4 DEF EventsAreDispatched

(* An event moves from the dispatcher to a channel to a goroutine, and is  *)
(* never in two places: the run of an operation sends one, because an      *)
(* operation is run once.                                                  *)
LEMMA EventsAreUniqueKept ==
    ASSUME IInv, [Next]_vars, EventsAreDispatched, EventsAreUnique
    PROVE  EventsAreUnique'
<1>1. \A e \in Envs : channel[e] \in Seq(Event)
  BY DEF IInv, TypeOK
<1>2. \A e, f \in Envs, c, d \in Calls : Receives(e, c) /\ Receives(f, d) => e = f /\ c = d
  <2> SUFFICES ASSUME NEW e \in Envs, NEW f \in Envs, NEW c \in Calls, NEW d \in Calls,
                      Receives(e, c), Receives(f, d)
               PROVE  e = f /\ c = d
    OBVIOUS
  <2>1. task[c].pc = "free" /\ task'[c].pc = "running" /\ task'[c].env = e
        /\ task[d].pc = "free" /\ task'[d].pc = "running" /\ task'[d].env = f
    BY DEF Receives, Receive
  <2>2. c = d
    BY <2>1 DEF Receives
  <2> QED BY <2>1, <2>2
<1>3. ASSUME NEW e \in Envs, NEW c \in Calls, Receives(e, c)
      PROVE  1 \in DOMAIN channel[e] /\ task'[c].op = channel[e][1].op
  BY <1>1, <1>3 DEF Receives, Receive
<1>4. ASSUME NEW e \in Envs, Sends(e)
      PROVE  /\ worker.op \notin dispatched
             /\ \A f \in Envs : \A i \in DOMAIN channel[f] : channel[f][i].op # worker.op
             /\ \A c \in Calls : Busy(c) => task[c].op # worker.op
             /\ \A f \in Envs, c \in Calls : ~Receives(f, c)
             /\ \A f \in Envs : Sends(f) => f = e
  <2>1. worker.op \notin dispatched
    BY <1>4, OperationFacts DEF Sends, Dispatching
  <2> QED BY <1>4, <2>1 DEF Sends, EventsAreDispatched, Receives, Receive
<1>5. ASSUME NEW e \in Envs, NEW f \in Envs, NEW i \in DOMAIN channel'[e], NEW j \in DOMAIN channel'[f],
             channel'[e][i].op = channel'[f][j].op
      PROVE  e = f /\ i = j
  <2>1. ASSUME NEW g \in Envs, Sends(g) PROVE e = f /\ i = j
    <3>1. \/ i \in DOMAIN channel[e] /\ channel'[e][i] = channel[e][i]
          \/ e = g /\ i = Len(channel[e]) + 1 /\ channel'[e][i].op = worker.op
      BY <1>4, <2>1, EventStep
    <3>2. \/ j \in DOMAIN channel[f] /\ channel'[f][j] = channel[f][j]
          \/ f = g /\ j = Len(channel[f]) + 1 /\ channel'[f][j].op = worker.op
      BY <1>4, <2>1, EventStep
    <3>3. \A h \in Envs : \A k \in DOMAIN channel[h] : channel[h][k].op # worker.op
      BY <1>4, <2>1
    <3> QED BY <1>5, <3>1, <3>2, <3>3 DEF EventsAreUnique
  <2>2. CASE ~Sends(e) /\ ~Sends(f)
    <3>1. i \in Int /\ j \in Int
      <4>1. channel' \in [Envs -> Seq(Event)]
        BY WorldPartKept DEF WorldPart
      <4> QED BY <4>1
    <3>2. PICK k \in DOMAIN channel[e] : channel'[e][i] = channel[e][k]
            /\ (k = i \/ (k = i + 1 /\ \E c \in Calls : Receives(e, c)))
            /\ (k = i => \A c \in Calls : ~Receives(e, c))
      <4>1. CASE i \in DOMAIN channel[e] /\ channel'[e][i] = channel[e][i]
                 /\ \A c \in Calls : ~Receives(e, c)
        BY <3>1, <4>1
      <4>2. CASE i + 1 \in DOMAIN channel[e] /\ channel'[e][i] = channel[e][i + 1]
                 /\ \E c \in Calls : Receives(e, c)
        BY <3>1, <4>2
      <4> QED BY <2>2, <4>1, <4>2, EventStep
    <3>3. PICK l \in DOMAIN channel[f] : channel'[f][j] = channel[f][l]
            /\ (l = j \/ (l = j + 1 /\ \E c \in Calls : Receives(f, c)))
            /\ (l = j => \A c \in Calls : ~Receives(f, c))
      <4>1. CASE j \in DOMAIN channel[f] /\ channel'[f][j] = channel[f][j]
                 /\ \A c \in Calls : ~Receives(f, c)
        BY <3>1, <4>1
      <4>2. CASE j + 1 \in DOMAIN channel[f] /\ channel'[f][j] = channel[f][j + 1]
                 /\ \E c \in Calls : Receives(f, c)
        BY <3>1, <4>2
      <4> QED BY <2>2, <4>1, <4>2, EventStep
    <3>4. e = f /\ k = l
      BY <1>5, <3>2, <3>3 DEF EventsAreUnique
    <3> QED BY <3>1, <3>2, <3>3, <3>4
  <2> QED BY <2>1, <2>2
<1>6. ASSUME NEW e \in Envs, NEW c \in Calls, NEW i \in DOMAIN channel'[e], Busy(c)',
             task'[c].op = channel'[e][i].op
      PROVE  FALSE
  <2>1. CASE SameWork(c)
    <3>1. Busy(c) /\ task[c].op = channel'[e][i].op
      BY <1>6, <2>1 DEF SameWork
    <3>2. CASE Sends(e) /\ channel'[e][i].op = worker.op
      BY <1>4, <3>1, <3>2
    <3>3. ASSUME NEW k \in DOMAIN channel[e], channel'[e][i] = channel[e][k] PROVE FALSE
      BY <3>1, <3>3 DEF EventsAreUnique
    <3> QED BY <3>2, <3>3, EventStep
  <2>2. ASSUME NEW f \in Envs, Receives(f, c) PROVE FALSE
    <3>1. ~Sends(e)
      BY <1>4, <2>2
    <3>2. PICK k \in DOMAIN channel[e] : channel'[e][i] = channel[e][k] /\ (e = f => k # 1)
      <4>1. i \in Int
        <5>1. channel' \in [Envs -> Seq(Event)]
          BY WorldPartKept DEF WorldPart
        <5> QED BY <5>1
      <4> QED BY <1>1, <2>2, <3>1, <4>1, EventStep
    <3>3. 1 \in DOMAIN channel[f] /\ task'[c].op = channel[f][1].op
      BY <1>3, <2>2
    <3> QED BY <1>6, <3>2, <3>3 DEF EventsAreUnique
  <2> QED BY <1>6, <2>1, <2>2, BusyStep
<1>7. ASSUME NEW c \in Calls, NEW d \in Calls, Busy(c)', Busy(d)', task'[c].op = task'[d].op
      PROVE  c = d
  <2>1. CASE SameWork(c) /\ SameWork(d)
    BY <1>7, <2>1 DEF SameWork, EventsAreUnique
  <2>2. ASSUME NEW x \in Calls, NEW y \in Calls, NEW e \in Envs, SameWork(x), Receives(e, y),
               task'[x].op = task'[y].op
        PROVE  FALSE
    <3>1. Busy(x) /\ task[x].op = channel[e][1].op /\ 1 \in DOMAIN channel[e]
      BY <1>3, <2>2 DEF SameWork
    <3> QED BY <3>1 DEF EventsAreUnique
  <2>3. CASE (\E e \in Envs : Receives(e, c)) /\ (\E e \in Envs : Receives(e, d))
    BY <1>2, <2>3
  <2> QED BY <1>7, <2>1, <2>2, <2>3, BusyStep
<1> QED BY <1>5, <1>6, <1>7 DEF EventsAreUnique

(* A copy that stays where it is stays exact.                              *)
LEMMA ExactStays ==
    ASSUME IInv, [Next]_vars, NEW r \in Resources, NEW read \in Record,
           IsCopyOf(record[r], read), IsExact(record[r], read)
    PROVE  IsExact(record'[r], read)
<1>1. record[r] \in Record /\ record'[r] \in Record
  BY RecordStep DEF IInv, TypeOK
<1>2. record[r].etag \in Nat /\ record'[r].etag \in Nat /\ read.etag \in Nat /\ read.etag <= record[r].etag
  BY <1>1 DEF Record, IsCopyOf
<1>3. CASE Keeps(r)
  BY <1>3 DEF Keeps, IsExact
<1>4. CASE record'[r].etag = record[r].etag + 1
  BY <1>2, <1>4 DEF IsExact
<1>5. CASE ~record'[r].exists
  BY <1>5 DEF IsExact
<1> QED BY <1>3, <1>4, <1>5, RecordStep DEF SavesPut, SavesStatus, Removes

(* A copy is taken as it is, and its ETag is that of the record only as    *)
(* long as nobody has written: then every later save is refused.           *)
LEMMA CopiesAreExactKept ==
    ASSUME IInv, [Next]_vars, CopiesAreExact
    PROVE  CopiesAreExact'
<1>0. \A o \in Operations : request[o].resource \in Resources /\ request'[o].resource = request[o].resource
  BY RequestsStay DEF IInv, TypeOK, Request
<1>1. ASSUME dispatcher'.pc # "get" PROVE IsExact(record[Handled], dispatcher.read)'
  <2>1. CASE dispatcher' = dispatcher /\ worker' = worker
    <3>1. dispatcher.pc \in {"app", "place", "save", "send"} /\ Dispatching(dispatcher.pc)
      BY <1>1, <2>1 DEF IInv, TypeOK, Dispatcher, DispatcherInRun, Dispatching
    <3>2. /\ worker.op \in Operations /\ Handled \in Resources /\ dispatcher.read \in Record
          /\ IsCopyOf(record[Handled], dispatcher.read)
      BY <3>1, DispatcherFacts
    <3>3. IsExact(record'[Handled], dispatcher.read)
      BY <1>1, <2>1, <3>2, ExactStays DEF CopiesAreExact
    <3> QED BY <1>0, <2>1, <3>2, <3>3 DEF Handled
  <2>2. CASE /\ UNCHANGED <<worker, record>> /\ worker.op \in Operations
             /\ dispatcher'.read = record[Handled]
    BY <1>0, <2>2 DEF IsExact, Handled
  <2>3. CASE /\ UNCHANGED <<worker, record>> /\ dispatcher.pc \in {"app", "place"}
             /\ dispatcher'.read = dispatcher.read
    <3>1. worker.op \in Operations
      BY <2>3, DispatcherFacts DEF IInv, DispatcherInRun, Dispatching
    <3> QED BY <1>0, <2>3, <3>1 DEF CopiesAreExact, Handled
  <2>4. CASE /\ DispatchSave /\ UNCHANGED worker /\ dispatcher.pc = "save"
             /\ Matches(Handled, dispatcher.read) =>
                   record'[Handled].exists /\ dispatcher'.read = record'[Handled]
    <3>1. worker.op \in Operations /\ Dispatching("save")
      BY <2>4, DispatcherFacts DEF DispatchSave
    <3>2. Handled' = Handled
      BY <1>0, <2>4, <3>1 DEF Handled
    <3>3. CASE Matches(Handled, dispatcher.read)
      BY <2>4, <3>2, <3>3 DEF IsExact
    <3>4. CASE ~Matches(Handled, dispatcher.read)
      <4> DEFINE started == [dispatcher.read EXCEPT
                               !.state = IF DispatchMethod = "PUT" THEN "Deploying" ELSE "Deleting",
                               !.env   = dispatcher.env]
      <4>1. /\ dispatcher.read \in Record /\ Handled \in Resources
            /\ IsCopyOf(record[Handled], dispatcher.read)
        BY <3>1, DispatcherFacts
      <4>2. started.etag = dispatcher.read.etag
        BY <4>1 DEF Record
      <4> HIDE DEF started
      <4>3. ~Matches(Handled, started)
        BY <3>4, <4>2 DEF Matches
      <4>4. record' = record /\ dispatcher'.read = started
        BY <2>4, <4>3 DEF DispatchSave, SaveChecked, started, IInv, TypeOK, Dispatcher
      <4> QED BY <3>2, <4>2, <4>3, <4>4 DEF IsExact, Matches
    <3> QED BY <3>3, <3>4
  <2> QED BY <1>1, <2>1, <2>2, <2>3, <2>4, DispatcherMoves
<1>2. ASSUME NEW c \in Calls, task'[c].pc = "write" PROVE IsExact(record[TaskResource(c)], task[c].read)'
  <2>1. CASE task'[c] = task[c]
    <3>1. task[c].op \in Operations /\ task[c].read \in Record /\ TaskResource(c) \in Resources
      BY <1>0, <1>2, <2>1 DEF IInv, TasksAreOfOperations, TypeOK, Task, TaskResource
    <3>2. IsExact(record'[TaskResource(c)], task[c].read)
      BY <1>2, <2>1, <3>1, ExactStays DEF CopiesAreExact, IInv, CopiesAreOld
    <3> QED BY <1>0, <2>1, <3>1, <3>2 DEF TaskResource
  <2>2. CASE GetsRecord(c)
    <3>1. task[c].op \in Operations
      BY <2>2 DEF GetsRecord, IInv, TasksAreOfOperations
    <3> QED BY <1>0, <2>2, <3>1 DEF GetsRecord, SameWork, TaskResource, IsExact
  <2> QED BY <1>2, <2>1, <2>2, TaskStep DEF Receives, Executes, WritesResult, Busy
<1>3. ASSUME NEW r \in Resources, reporter'[r].pc = "save" PROVE IsExact(record[r], reporter[r].read)'
  <2>1. CASE reporter'[r] = reporter[r]
    <3>1. reporter[r].read \in Record
      BY DEF IInv, TypeOK
    <3> QED BY <1>3, <2>1, <3>1, ExactStays DEF CopiesAreExact, IInv, CopiesAreOld
  <2>2. CASE reporter'[r].read = record[r] /\ UNCHANGED record
    BY <2>2 DEF IsExact
  <2>3. reporter'[r] = reporter[r] \/ (reporter'[r].read = record[r] /\ UNCHANGED record)
    <3>0. reporter \in [Resources -> [pc : {"idle", "called", "save"}, read : Record]]
      BY DEF IInv, TypeOK
    <3>1. ASSUME NEW x \in Resources, CheckHealth(x) \/ ReportStatusSave(x) PROVE reporter'[r] = reporter[r]
      BY <1>3, <3>0, <3>1 DEF CheckHealth, ReportStatusSave, IdleReporter
    <3>2. ASSUME NEW x \in Resources, ReportStatusGet(x)
          PROVE  reporter'[r] = reporter[r] \/ (reporter'[r].read = record[r] /\ UNCHANGED record)
      BY <1>3, <3>0, <3>2 DEF ReportStatusGet, IdleReporter
    <3>3. CASE UNCHANGED reporter
      BY <3>3
    <3> QED
      BY <3>1, <3>2, <3>3
         DEF Next, vars, restVars, PutApplication, DeleteApplication, WorkerOutside, VisibilityExpires,
             DispatcherStep, DispatchGet, DispatchApp, DispatchPlace, DispatchSave, DispatchSend, FailDispatch,
             RequestStep, BeginRequest, PutSave, QueueOperation, EnqueueOperation,
             ReportStep, ReportResultGet, ReportResultWrite, ReportResultUpdateGet,
             ReportResultUpdateSave, Disconnect, Reconnect, Crash, Receive, Execute, LoseReport
  <2> QED BY <2>1, <2>2, <2>3
<1> QED BY <1>1, <1>2, <1>3 DEF CopiesAreExact

(* Nothing is sent or copied at the start.                                 *)
LEMMA SentInit == Init => SentInv
<1> SUFFICES ASSUME Init PROVE SentInv
  OBVIOUS
<1>1. IInv
  BY InitIInv
<1>2. NotYetQueued
  BY DEF Init, Ops!Init, NotYetQueued
<1>3. EventsAreDispatched /\ EventsAreUnique /\ CopiesAreExact
  BY DEF Init, EventsAreDispatched, EventsAreUnique, CopiesAreExact, Busy, FreeTask, IdleDispatcher,
         IdleReporter
<1> QED BY <1>1, <1>2, <1>3 DEF SentInv

(* Every step keeps all of it.                                             *)
LEMMA SentNext == SentInv /\ [Next]_vars => SentInv'
BY NextIInv, NotYetQueuedKept, EventsAreDispatchedKept, EventsAreUniqueKept, CopiesAreExactKept
   DEF SentInv

(* Whatever clients and agents do, the event of an operation is in one     *)
(* place: between dispatcher.go, the stream and the goroutine in           *)
(* cmd/ryobi-env it is not duplicated.  And a save that is not refused is  *)
(* of a copy that differs from the record in nothing.                      *)
THEOREM SentInvariance == Spec => []SentInv
BY SentInit, SentNext, PTL DEF Spec

-----------------------------------------------------------------------------
(* Clients that wait until nothing is under way for a resource.            *)

Polite == "impolite" \notin Faults

(* Of one resource one request is under way.                               *)
OneAtATime ==
    \A o, p \in Operations :
        UnderWay(o) /\ UnderWay(p) /\ request[o].resource = request[p].resource => o = p

(* A PUT that was saved is the last one and is not taken for a deletion.   *)
PutUnderWay(o) == UnderWay(o) /\ request[o].method = "PUT" /\ request[o].pc # "save"

PutStands(o) ==
    LET r == request[o].resource IN
    record[r].exists /\ lastPut[r] = o /\ record[r].state # "Deleting"

PutsStand == \A o \in Operations : PutUnderWay(o) => PutStands(o)

(* Its spec is what reaches the agent.                                     *)
PutsCarryTheirSpec ==
    /\ dispatcher.pc # "get" /\ DispatchMethod = "PUT" => dispatcher.read.spec = worker.op
    /\ \A e \in Envs : \A i \in DOMAIN channel[e] :
         request[channel[e][i].op].method = "PUT" => channel[e][i].spec = channel[e][i].op
    /\ \A c \in Calls :
         Busy(c) /\ TaskMethod(c) = "PUT" =>
           task[c].spec = task[c].op /\ (task[c].pc = "write" => task[c].read.state # "Deleting")

(* What Terraform did is still so when its result is reported.             *)
ExecutedIsLive ==
    \A c \in Calls :
        task[c].pc \in {"executed", "write"} /\ task[c].success =>
          infra[task[c].env][TaskResource(c)] = IF TaskMethod(c) = "PUT" THEN task[c].op ELSE NoOp

PoliteInv ==
    /\ SentInv
    /\ OneAtATime
    /\ PutsStand
    /\ PutsCarryTheirSpec
    /\ ExecutedIsLive

(* A request that has not begun, or was refused, has left nothing behind.  *)
LEMMA NotBegun ==
    ASSUME SentInv
    PROVE  \A o \in Operations :
             /\ request[o].pc \in {"idle", "ended"} => ~UnderWay(o)
             /\ (\E e \in Envs : \E i \in DOMAIN channel[e] : channel[e][i].op = o)
                \/ (\E c \in Calls : Busy(c) /\ task[c].op = o) \/ Ops!Queued(o)
                  => request[o].pc \notin {"idle", "save", "queue", "ended"}
<1> SUFFICES ASSUME NEW o \in Operations
             PROVE  /\ request[o].pc \in {"idle", "ended"} => ~UnderWay(o)
                    /\ (\E e \in Envs : \E i \in DOMAIN channel[e] : channel[e][i].op = o)
                       \/ (\E c \in Calls : Busy(c) /\ task[c].op = o) \/ Ops!Queued(o)
                         => request[o].pc \notin {"idle", "save", "queue", "ended"}
  OBVIOUS
<1>1. IInv /\ NotYetQueued /\ EventsAreDispatched
  BY DEF SentInv
<1>2. request[o].pc \in {"idle", "save", "queue", "ended"} => ~Ops!Queued(o) /\ o \notin dispatched
  BY <1>1, OperationFacts DEF NotYetQueued
<1>3. /\ \A e \in Envs : \A i \in DOMAIN channel[e] : channel[e][i].op = o => o \in dispatched
      /\ \A c \in Calls : Busy(c) /\ task[c].op = o => o \in dispatched
  BY <1>1 DEF EventsAreDispatched
<1> QED BY <1>2, <1>3 DEF UnderWay, Busy

(* Whatever works for an operation makes it one that is under way.         *)
LEMMA WorkIsUnderWay ==
    ASSUME SentInv
    PROVE  /\ worker.pc # "idle" => worker.op \in Operations /\ UnderWay(worker.op)
           /\ \A c \in Calls : Busy(c) => task[c].op \in Operations /\ UnderWay(task[c].op)
           /\ \A e \in Envs : \A i \in DOMAIN channel[e] :
                channel[e][i].op \in Operations /\ UnderWay(channel[e][i].op)
<1>1. worker.pc # "idle" => worker.op \in Operations /\ UnderWay(worker.op)
  BY OperationFacts DEF SentInv, UnderWay
<1>2. \A c \in Calls : Busy(c) => task[c].op \in Operations /\ UnderWay(task[c].op)
  BY DEF SentInv, IInv, TasksAreOfOperations, UnderWay, Busy
<1>3. ASSUME NEW e \in Envs, NEW i \in DOMAIN channel[e]
      PROVE  channel[e][i].op \in Operations /\ UnderWay(channel[e][i].op)
  <2>1. channel[e] \in Seq(Event)
    BY DEF SentInv, IInv, TypeOK
  <2>2. channel[e][i] \in Event
    BY <2>1
  <2> QED BY <2>2 DEF Event, UnderWay
<1> QED BY <1>1, <1>2, <1>3

(* Only BeginRequest brings an operation under way.                        *)
LEMMA UnderWayStep ==
    ASSUME SentInv, [Next]_vars, NEW o \in Operations, UnderWay(o)'
    PROVE  UnderWay(o) \/ BeginRequest(o)
<1>0. IInv
  BY DEF SentInv
<1>1. CASE request'[o].pc \in {"save", "queue", "enqueue"}
  BY <1>0, <1>1, RequestMoves DEF UnderWay
<1>2. CASE Ops!Queued(o)'
  BY <1>0, <1>2, QueuedStep DEF UnderWay
<1>3. ASSUME NEW e \in Envs, NEW i \in DOMAIN channel'[e], channel'[e][i].op = o PROVE UnderWay(o)
  <2>1. CASE Sends(e) /\ channel'[e][i].op = worker.op
    BY <1>3, <2>1, WorkIsUnderWay DEF Sends, Dispatching
  <2> QED BY <1>0, <1>3, <2>1, EventStep, WorkIsUnderWay
<1>4. ASSUME NEW c \in Calls, Busy(c)', task'[c].op = o PROVE UnderWay(o)
  <2>1. CASE SameWork(c)
    BY <1>4, <2>1, WorkIsUnderWay DEF SameWork
  <2>2. ASSUME NEW e \in Envs, Receives(e, c) PROVE UnderWay(o)
    <3>1. channel[e] \in Seq(Event) /\ channel[e] # <<>> /\ task'[c].op = Head(channel[e]).op
      BY <1>0, <2>2 DEF IInv, TypeOK, Receives, Receive
    <3>2. 1 \in DOMAIN channel[e] /\ task'[c].op = channel[e][1].op
      BY <3>1
    <3> QED BY <1>4, <3>2, WorkIsUnderWay
  <2> QED BY <1>0, <1>4, <2>1, <2>2, BusyStep
<1> QED BY <1>1, <1>2, <1>3, <1>4 DEF UnderWay, Busy

(* Polite clients begin a request when no other is under way.              *)
LEMMA OneAtATimeKept ==
    ASSUME Polite, SentInv, OneAtATime, [Next]_vars
    PROVE  OneAtATime'
<1> SUFFICES ASSUME NEW o \in Operations, NEW p \in Operations, UnderWay(o)', UnderWay(p)',
                    request'[o].resource = request'[p].resource
             PROVE  o = p
  BY DEF OneAtATime
<1>1. request[o].resource = request[p].resource
  BY RequestsStay DEF SentInv, IInv
<1>2. (UnderWay(o) \/ BeginRequest(o)) /\ (UnderWay(p) \/ BeginRequest(p))
  BY UnderWayStep
<1>3. ASSUME NEW x \in Operations, BeginRequest(x)
      PROVE  \A y \in Operations : request[y].resource = request[x].resource => ~UnderWay(y)
  BY <1>3 DEF BeginRequest, Polite, Settled
<1>4. ASSUME NEW x \in Operations, NEW y \in Operations, BeginRequest(x), BeginRequest(y) PROVE x = y
  BY <1>4 DEF BeginRequest, SentInv, IInv, TypeOK, Request
<1> QED BY <1>1, <1>2, <1>3, <1>4 DEF OneAtATime

(* Who shares a resource with something at work is that very operation.    *)
LEMMA Alone ==
    ASSUME SentInv, OneAtATime
    PROVE  /\ \A c \in Calls, o \in Operations :
                Busy(c) /\ UnderWay(o) /\ request[o].resource = TaskResource(c) => task[c].op = o
           /\ \A o \in Operations :
                worker.pc # "idle" /\ UnderWay(o) /\ request[o].resource = Handled => worker.op = o
           /\ \A o, p \in Operations :
                request[o].pc = "save" /\ UnderWay(p) /\ request[o].resource = request[p].resource => o = p
           /\ \A c, d \in Calls : Busy(c) /\ Busy(d) /\ TaskResource(c) = TaskResource(d) => c = d
           /\ \A c \in Calls : Busy(c) /\ worker.pc = "run" => TaskResource(c) # Handled
<1>1. /\ \A c \in Calls, o \in Operations :
           Busy(c) /\ UnderWay(o) /\ request[o].resource = TaskResource(c) => task[c].op = o
      /\ \A o \in Operations :
           worker.pc # "idle" /\ UnderWay(o) /\ request[o].resource = Handled => worker.op = o
      /\ \A o, p \in Operations :
           request[o].pc = "save" /\ UnderWay(p) /\ request[o].resource = request[p].resource => o = p
  <2>1. \A o \in Operations : request[o].pc = "save" => UnderWay(o)
    BY DEF UnderWay
  <2> QED BY <2>1, WorkIsUnderWay DEF OneAtATime, TaskResource, Handled
<1>2. ASSUME NEW c \in Calls, NEW d \in Calls, Busy(c), Busy(d), TaskResource(c) = TaskResource(d)
      PROVE  c = d
  <2>1. task[c].op = task[d].op
    BY <1>1, <1>2, WorkIsUnderWay DEF TaskResource
  <2> QED BY <1>2, <2>1 DEF SentInv, EventsAreUnique
<1>3. ASSUME NEW c \in Calls, Busy(c), worker.pc = "run", TaskResource(c) = Handled PROVE FALSE
  <2>1. task[c].op = worker.op
    BY <1>1, <1>3, WorkIsUnderWay DEF Handled
  <2> QED BY <1>3, <2>1, OperationFacts DEF SentInv, EventsAreDispatched
<1> QED BY <1>1, <1>2, <1>3

(* So a request that is idle or ended is not under way, in any state and   *)
(* after any step that keeps SentInv.                                      *)
NothingIdleUnderWay == \A o \in Operations : request[o].pc \in {"idle", "ended"} => ~UnderWay(o)

(* A request is idle before it begins and ended when it was refused.       *)
LEMMA NothingIdle == SentInv => NothingIdleUnderWay
BY NotBegun DEF NothingIdleUnderWay

(* The same after a step.                                                  *)
LEMMA NothingIdleNext == SentInv' => NothingIdleUnderWay'
BY NothingIdle, PTL

(* Nobody replaces or removes what a request under way has put.            *)
LEMMA PutsStandKept ==
    ASSUME PoliteInv, SentInv', [Next]_vars
    PROVE  PutsStand'
<1> USE DEF PoliteInv
<1>0. IInv
  BY DEF SentInv
<1> SUFFICES ASSUME NEW o \in Operations, PutUnderWay(o)' PROVE PutStands(o)'
  BY DEF PutsStand
<1> DEFINE r == request[o].resource
<1>1. /\ r \in Resources /\ request'[o].resource = r
      /\ request[o].method = "PUT" /\ request'[o].pc # "save"
  BY <1>0, RequestsStay DEF IInv, TypeOK, Request, PutUnderWay
<1>2. UnderWay(o) /\ request'[o].pc \notin {"idle", "ended"}
  <2>1. request'[o].pc \notin {"idle", "ended"}
    BY NothingIdleNext DEF NothingIdleUnderWay, PutUnderWay
  <2>2. UnderWay(o) \/ BeginRequest(o)
    BY UnderWayStep DEF PutUnderWay
  <2>3. ~BeginRequest(o)
    BY <1>0, <1>1, <2>1, RequestMoves DEF BeginRequest, PutSave, QueueOperation, EnqueueOperation
  <2> QED BY <2>1, <2>2, <2>3
<1>3. CASE request[o].pc = "save"
  <2>1. PutSave(o) /\ request'[o].pc = "queue" /\ lastPut'[r] = o
    BY <1>0, <1>1, <1>2, <1>3, RequestMoves DEF BeginRequest
  <2>2. record'[r].exists /\ record'[r].state = "None"
    <3>1. record' = [record EXCEPT ![r] = Stored(r, [Blank EXCEPT !.spec = o])]
      <4>1. ~(request' = [request EXCEPT ![o].pc = "ended", ![o].read = Blank])
        BY <1>0, <2>1 DEF IInv, TypeOK, Request
      <4> QED BY <2>1, <4>1 DEF PutSave, SaveUnchecked
    <3>2. /\ Stored(r, [Blank EXCEPT !.spec = o]).exists
          /\ Stored(r, [Blank EXCEPT !.spec = o]).state = "None"
      BY DEF Stored, Blank
    <3> QED BY <1>0, <1>1, <3>1, <3>2 DEF IInv, TypeOK
  <2> QED BY <1>1, <2>1, <2>2 DEF PutStands
<1>4. CASE request[o].pc # "save"
  <2>1. record[r].exists /\ lastPut[r] = o /\ record[r].state # "Deleting"
    BY <1>1, <1>2, <1>4 DEF PutsStand, PutUnderWay, PutStands
  <2>2. ~PutSaves(r)
    BY <1>2, <1>4, Alone DEF PutSaves
  <2>3. DispatcherSaves(r) => DispatchMethod = "PUT"
    BY <1>1, <1>2, Alone DEF DispatcherSaves, DispatchMethod
  <2>4. HealthSaves(r) => record'[r].state # "Deleting"
    BY <1>1, <2>1 DEF HealthSaves, Matches, SentInv, CopiesAreExact, IsExact
  <2>5. \A c \in Calls : ~ReportRemoves(c, r)
    BY <1>1, <1>2, Alone DEF ReportRemoves, WritesResult, SameWork, TaskMethod, PutsCarryTheirSpec
  <2>6. Keeps(r) \/ Writes(r)
    BY <1>0, <1>1, RecordWriters
  <2>7. record'[r].exists /\ lastPut'[r] = o /\ record'[r].state # "Deleting"
    BY <1>1, <2>1, <2>2, <2>3, <2>4, <2>5, <2>6
       DEF Keeps, Writes, DispatcherSaves, HealthSaves, ReportSaves, Working
  <2> QED BY <1>1, <2>7 DEF PutStands
<1> QED BY <1>3, <1>4

(* A PUT at work is the one the record holds.                              *)
LEMMA PutAtWork ==
    ASSUME PoliteInv
    PROVE  /\ worker.pc = "run" /\ DispatchMethod = "PUT" => PutStands(worker.op)
           /\ \A c \in Calls : Busy(c) /\ TaskMethod(c) = "PUT" => PutStands(task[c].op)
<1>1. ASSUME NEW o \in Operations, UnderWay(o), request[o].pc # "save", request[o].method = "PUT"
      PROVE  PutStands(o)
  BY <1>1 DEF PoliteInv, PutsStand, PutUnderWay
<1>2. SentInv
  BY DEF PoliteInv
<1>3. worker.pc = "run" => request[worker.op].pc # "save"
  BY <1>2, NotBegun, OperationFacts DEF SentInv
<1>4. \A c \in Calls : Busy(c) => request[task[c].op].pc # "save"
  BY <1>2, NotBegun, WorkIsUnderWay
<1> QED BY <1>1, <1>2, <1>3, <1>4, WorkIsUnderWay DEF DispatchMethod, TaskMethod

(* The spec of a PUT is the one the dispatcher reads, sends and an agent   *)
(* runs; nobody takes that agent's success for that of a deletion.         *)
LEMMA PutsCarryTheirSpecKept ==
    ASSUME PoliteInv, [Next]_vars
    PROVE  PutsCarryTheirSpec'
<1> USE DEF PoliteInv
<1>0. IInv
  BY DEF SentInv
<1>1. \A o \in Operations : /\ request'[o].method = request[o].method
                            /\ request'[o].resource = request[o].resource
                            /\ request[o].resource \in Resources
  BY <1>0, RequestsStay DEF IInv, TypeOK, Request
<1>2. ASSUME dispatcher'.pc # "get", DispatchMethod' = "PUT" PROVE dispatcher'.read.spec = worker'.op
  <2>0. dispatcher.pc # "get" => worker.op \in Operations /\ worker.pc = "run"
    BY <1>0, OperationFacts DEF IInv, DispatcherInRun
  <2>1. CASE worker' = worker /\ dispatcher.pc # "get" /\ dispatcher'.read.spec = dispatcher.read.spec
    <3>1. DispatchMethod = "PUT"
      BY <1>1, <1>2, <2>0, <2>1 DEF DispatchMethod
    <3> QED BY <2>1, <3>1 DEF PutsCarryTheirSpec
  <2>2. CASE /\ worker.pc = "run" /\ worker.op \in Operations /\ worker' = worker
             /\ record[Handled].exists /\ dispatcher'.read = record[Handled]
    <3>1. DispatchMethod = "PUT"
      BY <1>1, <1>2, <2>2 DEF DispatchMethod
    <3>2. record[Handled].spec = lastPut[Handled] /\ lastPut[Handled] = worker.op
      BY <1>0, <1>1, <2>2, <3>1, PutAtWork DEF IInv, SpecIsLastPut, PutStands, Handled
    <3> QED BY <2>2, <3>2
  <2> QED BY <1>0, <1>2, <2>1, <2>2, DispatcherMoves
<1>3. ASSUME NEW e \in Envs, NEW i \in DOMAIN channel'[e], request'[channel'[e][i].op].method = "PUT"
      PROVE  channel'[e][i].spec = channel'[e][i].op
  <2>1. ASSUME NEW k \in DOMAIN channel[e], channel'[e][i] = channel[e][k]
        PROVE  channel'[e][i].spec = channel'[e][i].op
    BY <1>1, <1>3, <2>1, WorkIsUnderWay DEF PutsCarryTheirSpec
  <2>2. CASE Sends(e) /\ channel'[e][i].op = worker.op /\ channel'[e][i].spec = dispatcher.read.spec
    <3>1. dispatcher.pc = "send" /\ worker.op \in Operations
      BY <2>2, WorkIsUnderWay DEF Sends, Dispatching
    <3> QED BY <1>1, <1>3, <2>2, <3>1 DEF PutsCarryTheirSpec, DispatchMethod
  <2> QED BY <1>0, <2>1, <2>2, EventStep
<1>4. ASSUME NEW c \in Calls, Busy(c)', TaskMethod(c)' = "PUT"
      PROVE  task'[c].spec = task'[c].op /\ (task'[c].pc = "write" => task'[c].read.state # "Deleting")
  <2>1. CASE SameWork(c)
    <3>1. task[c].op \in Operations /\ TaskMethod(c) = "PUT"
      BY <1>1, <1>4, <2>1, WorkIsUnderWay DEF SameWork, TaskMethod
    <3>2. task'[c].spec = task'[c].op
      BY <2>1, <3>1 DEF SameWork, PutsCarryTheirSpec
    <3>3. ASSUME task'[c].pc = "write" PROVE task'[c].read.state # "Deleting"
      <4>1. CASE task'[c] = task[c]
        BY <2>1, <3>1, <3>3, <4>1 DEF PutsCarryTheirSpec, SameWork
      <4>2. CASE GetsRecord(c)
        BY <2>1, <3>1, <4>2, PutAtWork DEF GetsRecord, SameWork, PutStands, TaskResource
      <4> QED BY <1>0, <3>3, <4>1, <4>2, TaskStep DEF Receives, Executes, WritesResult, Busy
    <3> QED BY <3>2, <3>3
  <2>2. ASSUME NEW e \in Envs, Receives(e, c)
        PROVE  task'[c].spec = task'[c].op /\ task'[c].pc # "write"
    <3>1. channel[e] \in Seq(Event) /\ channel[e] # <<>> /\ task'[c].op = Head(channel[e]).op
          /\ task'[c].spec = Head(channel[e]).spec /\ task'[c].pc = "running"
      BY <1>0, <2>2 DEF IInv, TypeOK, Receives, Receive
    <3>2. 1 \in DOMAIN channel[e] /\ task'[c].op = channel[e][1].op /\ task'[c].spec = channel[e][1].spec
      BY <3>1
    <3>3. request[channel[e][1].op].method = "PUT"
      BY <1>1, <1>4, <3>2, WorkIsUnderWay DEF TaskMethod
    <3> QED BY <3>1, <3>2, <3>3 DEF PutsCarryTheirSpec
  <2> QED BY <1>0, <1>4, <2>1, <2>2, BusyStep
<1> QED BY <1>2, <1>3, <1>4 DEF PutsCarryTheirSpec

(* What an agent sets up for a resource, while nobody else works for it.   *)
LEMMA PoliteInfra ==
    ASSUME PoliteInv, [Next]_vars, NEW e \in Envs, NEW r \in Resources
    PROVE  \/ infra'[e][r] = infra[e][r]
           \/ \E c \in Calls :
                /\ Executes(c) /\ task[c].env = e /\ TaskResource(c) = r /\ UNCHANGED <<record, lastPut>>
                /\ infra'[e][r] = IF TaskMethod(c) = "PUT" THEN task[c].op ELSE NoOp
<1>1. \A c \in Calls : Executes(c) /\ TaskMethod(c) = "PUT" => task[c].spec = task[c].op
  BY DEF Executes, SameWork, PoliteInv, PutsCarryTheirSpec
<1> QED BY <1>1, InfraStep DEF PoliteInv, SentInv

(* Between Terraform's end and the save of its result nobody else runs     *)
(* Terraform for the resource.                                             *)
LEMMA ExecutedIsLiveKept ==
    ASSUME PoliteInv, [Next]_vars
    PROVE  ExecutedIsLive'
<1> USE DEF PoliteInv
<1>0. IInv
  BY DEF SentInv
<1>1. \A o \in Operations : /\ request'[o].method = request[o].method
                            /\ request'[o].resource = request[o].resource
                            /\ request[o].resource \in Resources
  BY <1>0, RequestsStay DEF IInv, TypeOK, Request
<1> SUFFICES ASSUME NEW c \in Calls, task'[c].pc \in {"executed", "write"}, task'[c].success
             PROVE  infra'[task'[c].env][TaskResource(c)'] =
                      IF TaskMethod(c)' = "PUT" THEN task'[c].op ELSE NoOp
  BY DEF ExecutedIsLive
<1>2. SameWork(c)
  BY <1>0, BusyStep DEF Busy, Receives
<1>3. /\ TaskResource(c)' = TaskResource(c) /\ TaskMethod(c)' = TaskMethod(c) /\ task'[c].op = task[c].op
      /\ TaskResource(c) \in Resources /\ task'[c].env = task[c].env /\ task[c].env \in Envs
  BY <1>0, <1>1, <1>2, WorkIsUnderWay DEF SameWork, TaskResource, TaskMethod, IInv, TasksAreOfOperations, Busy
<1>4. CASE task'[c] = task[c] \/ GetsRecord(c)
  <2>1. infra[task[c].env][TaskResource(c)] = IF TaskMethod(c) = "PUT" THEN task[c].op ELSE NoOp
    BY <1>4 DEF GetsRecord, ExecutedIsLive
  <2>2. ASSUME NEW d \in Calls, Executes(d), TaskResource(d) = TaskResource(c) PROVE FALSE
    <3>1. c = d
      BY <1>2, <2>2, Alone DEF Executes, SameWork
    <3> QED BY <1>4, <2>2, <3>1 DEF Executes, GetsRecord
  <2> QED BY <1>3, <2>1, <2>2, PoliteInfra
<1>5. CASE Executes(c)
  <2> DEFINE target == IF TaskMethod(c) = "PUT" THEN task[c].spec ELSE NoOp
  <2>1. infra' = [infra EXCEPT ![task[c].env][TaskResource(c)] = target]
    <3>1. PICK success \in BOOLEAN :
            /\ task' = [task EXCEPT ![c].pc = "executed", ![c].success = success]
            /\ \/ infra' = [infra EXCEPT ![task[c].env][TaskResource(c)] = target]
               \/ ~success /\ UNCHANGED infra
      BY <1>5 DEF Executes, Execute
    <3>2. task \in [Calls -> Task] /\ task[c] \in Task
      BY <1>0 DEF IInv, TypeOK
    <3>3. task'[c].success = success
      BY <3>1, <3>2 DEF Task
    <3> QED BY <3>1, <3>3
  <2>2. TaskMethod(c) = "PUT" => task[c].spec = task[c].op
    BY <1>2 DEF SameWork, PutsCarryTheirSpec
  <2>3. infra \in [Envs -> [Resources -> SomeOp]]
    BY <1>0 DEF IInv, TypeOK
  <2>4. infra'[task[c].env][TaskResource(c)] = target
    BY <1>3, <2>1, <2>3
  <2> QED BY <1>3, <2>2, <2>4
<1> QED BY <1>0, <1>2, <1>4, <1>5, TaskStep DEF Busy, SameWork, Receives, Receive, WritesResult

(* No request has begun at the start.                                      *)
LEMMA PoliteInit == Init => PoliteInv
<1> SUFFICES ASSUME Init PROVE PoliteInv
  OBVIOUS
<1>1. SentInv
  BY SentInit
<1>2. \A o \in Operations : request[o].pc = "idle"
  BY DEF Init
<1>3. \A o \in Operations : ~UnderWay(o)
  BY <1>1, <1>2, NotBegun
<1>4. OneAtATime /\ PutsStand
  BY <1>3 DEF OneAtATime, PutsStand, PutUnderWay
<1>5. PutsCarryTheirSpec /\ ExecutedIsLive
  BY DEF Init, PutsCarryTheirSpec, ExecutedIsLive, IdleDispatcher, FreeTask, Busy
<1> QED BY <1>1, <1>4, <1>5 DEF PoliteInv

(* With polite clients every step keeps all of it.                         *)
LEMMA PoliteNext == Polite /\ PoliteInv /\ [Next]_vars => PoliteInv'
<1> SUFFICES ASSUME Polite, PoliteInv, [Next]_vars PROVE PoliteInv'
  OBVIOUS
<1>1. SentInv /\ SentInv' /\ IInv
  BY SentNext DEF PoliteInv, SentInv
<1>2. OneAtATime'
  BY <1>1, OneAtATimeKept DEF PoliteInv
<1>3. PutsStand' /\ PutsCarryTheirSpec' /\ ExecutedIsLive'
  BY <1>1, PutsStandKept, PutsCarryTheirSpecKept, ExecutedIsLiveKept
<1> QED BY <1>1, <1>2, <1>3 DEF PoliteInv

(* If clients wait for their requests, every resource has one actor at a   *)
(* time, a PUT under way is what its record and its agent hold, and what   *)
(* an agent reports is so - whatever crashes, gets lost or is reported     *)
(* about health, and wherever placement puts it (pkg/grpcapi/dispatcher.go,*)
(* server.go).                                                             *)
THEOREM PoliteInvariance == ASSUME Polite PROVE Spec => []PoliteInv
BY PoliteInit, PoliteNext, PTL DEF Spec

-----------------------------------------------------------------------------
(* And an application that names its environment, so that placement has no *)
(* choice and a DELETE goes where the PUT went.                            *)

OneHome == AppEnv \in Envs

(* Nothing ever happens outside of the application's environment.          *)
AtHome ==
    /\ dispatcher.pc \in {"place", "save", "send"} => dispatcher.env = AppEnv
    /\ \A c \in Calls : Busy(c) => task[c].env = AppEnv
    /\ \A e \in Envs : e # AppEnv => channel[e] = <<>> /\ \A r \in Resources : infra[e][r] = NoOp

(* What has no record is not deployed.                                     *)
AbsentIsGone == \A r \in Resources : ~record[r].exists => infra[AppEnv][r] = NoOp

HomeInv ==
    /\ PoliteInv
    /\ AtHome
    /\ AbsentIsGone

(* An application that names its environment is placed there, always.      *)
LEMMA AtHomeKept ==
    ASSUME OneHome, IInv, AtHome, [Next]_vars
    PROVE  AtHome'
<1>0. AppEnv # NoEnv
  BY ControlPlaneAssumption DEF OneHome
<1>1. dispatcher'.pc \in {"place", "save", "send"} => dispatcher'.env = AppEnv
  BY <1>0, DispatcherMoves DEF AtHome
<1>2. ASSUME NEW c \in Calls, Busy(c)' PROVE task'[c].env = AppEnv
  <2>1. CASE SameWork(c)
    BY <2>1 DEF SameWork, AtHome
  <2>2. ASSUME NEW e \in Envs, Receives(e, c) PROVE task'[c].env = AppEnv
    BY <2>2 DEF Receives, Receive, AtHome
  <2> QED BY <1>2, <2>1, <2>2, BusyStep
<1>3. ASSUME NEW e \in Envs, e # AppEnv PROVE channel'[e] = <<>>
  <2>1. ~Sends(e)
    BY <1>3 DEF Sends, Dispatching, AtHome
  <2>2. channel[e] = <<>>
    BY <1>3 DEF AtHome
  <2> QED BY <2>1, <2>2, ChannelStep
<1>4. ASSUME NEW e \in Envs, e # AppEnv, NEW r \in Resources PROVE infra'[e][r] = NoOp
  <2>1. \A c \in Calls : Executes(c) => task[c].env = AppEnv
    BY DEF Executes, SameWork, AtHome
  <2>2. infra[e][r] = NoOp
    BY <1>4 DEF AtHome
  <2> QED BY <1>4, <2>1, <2>2, InfraStep
<1> QED BY <1>1, <1>2, <1>3, <1>4 DEF AtHome

(* A record is removed only when its resource is destroyed, and nothing is *)
(* set up for a resource without a record.                                 *)
LEMMA AbsentIsGoneKept ==
    ASSUME OneHome, HomeInv, [Next]_vars
    PROVE  AbsentIsGone'
<1> USE DEF HomeInv, PoliteInv
<1>0. IInv
  BY DEF SentInv
<1> SUFFICES ASSUME NEW r \in Resources, ~record'[r].exists PROVE infra'[AppEnv][r] = NoOp
  BY DEF AbsentIsGone
<1>1. CASE Keeps(r)
  <2>1. ~record[r].exists
    BY <1>1 DEF Keeps
  <2>2. infra[AppEnv][r] = NoOp
    BY <2>1 DEF AbsentIsGone
  <2>3. ASSUME NEW c \in Calls, Executes(c), TaskResource(c) = r PROVE TaskMethod(c) # "PUT"
    BY <2>1, <2>3, PutAtWork DEF Executes, SameWork, PutStands, TaskResource
  <2> QED BY <2>2, <2>3, PoliteInfra DEF OneHome
<1>2. ASSUME NEW c \in Calls, ReportRemoves(c, r) PROVE infra'[AppEnv][r] = NoOp
  <2>1. /\ Busy(c) /\ task[c].pc = "write" /\ task[c].env = AppEnv /\ TaskResource(c) = r /\ task[c].success
        /\ task[c].read.state = "Deleting" /\ infra' = infra
    BY <1>2 DEF ReportRemoves, WritesResult, SameWork, AtHome
  <2>2. TaskMethod(c) # "PUT"
    BY <2>1 DEF PutsCarryTheirSpec
  <2> QED BY <2>1, <2>2 DEF ExecutedIsLive
<1> QED BY <1>0, <1>1, <1>2, RecordWriters DEF Writes, PutSaves, DispatcherSaves, HealthSaves, ReportSaves

(* Nothing is deployed at the start.                                       *)
LEMMA HomeInit == OneHome /\ Init => HomeInv
<1> SUFFICES ASSUME OneHome, Init PROVE HomeInv
  OBVIOUS
<1>1. AtHome /\ AbsentIsGone
  BY DEF Init, AtHome, AbsentIsGone, IdleDispatcher, FreeTask, Busy, OneHome
<1> QED BY <1>1, PoliteInit DEF HomeInv

(* With polite clients and one environment every step keeps all of it.     *)
LEMMA HomeNext == Polite /\ OneHome /\ HomeInv /\ [Next]_vars => HomeInv'
<1> SUFFICES ASSUME Polite, OneHome, HomeInv, [Next]_vars PROVE HomeInv'
  OBVIOUS
<1>1. PoliteInv /\ IInv
  BY DEF HomeInv, PoliteInv, SentInv
<1>2. PoliteInv' /\ AtHome' /\ AbsentIsGone'
  BY <1>1, PoliteNext, AtHomeKept, AbsentIsGoneKept DEF HomeInv
<1> QED BY <1>2 DEF HomeInv

(* If clients wait and the application names its environment, what has no  *)
(* record is not deployed, anywhere (pkg/grpcapi/server.go, ReportResult). *)
THEOREM HomeInvariance == ASSUME Polite, OneHome PROVE Spec => []HomeInv
BY HomeInit, HomeNext, PTL DEF Spec

(* If clients wait and the application names its environment, nothing is   *)
(* left behind: a resource without a record, for which nothing is under    *)
(* way, is live in no environment (pkg/grpcapi/server.go, ReportResult).   *)
THEOREM NoOrphans == ASSUME Polite, OneHome PROVE Spec => []NothingOrphaned
<1>1. HomeInv => NothingOrphaned
  BY DEF HomeInv, AtHome, AbsentIsGone, NothingOrphaned
<1> QED BY HomeInvariance, <1>1, PTL

-----------------------------------------------------------------------------
(* Clients that wait, in as many environments as there are, and no health  *)
(* reports: nothing writes a record between the dispatcher's save and the  *)
(* report of the result.                                                   *)

Quiet == "health" \notin Faults

NoReports == \A r \in Resources : reporter[r].pc = "idle"

(* The record says what is being done to the resource, and where.          *)
InWork(r, method, e) ==
    record[r].exists /\ record[r].state = Working(method) /\ record[r].env = e

(* It says so from the dispatcher's save to the save of the result.        *)
NothingBetween ==
    /\ dispatcher.pc # "get" => record[Handled].exists /\ dispatcher.read = record[Handled]
    /\ dispatcher.pc = "send" => InWork(Handled, DispatchMethod, dispatcher.env)
    /\ \A e \in Envs : \A i \in DOMAIN channel[e] :
         InWork(request[channel[e][i].op].resource, request[channel[e][i].op].method, e)
    /\ \A c \in Calls :
         /\ task[c].pc \in {"running", "executed", "write"} => InWork(TaskResource(c), TaskMethod(c), task[c].env)
         /\ task[c].pc = "write" => task[c].read = record[TaskResource(c)]

(* SucceededIsLive, also while something is under way for the resource.    *)
SucceededStays ==
    \A r \in Resources :
        record[r].exists /\ record[r].state = "Succeeded" =>
          record[r].env \in Envs /\ infra[record[r].env][r] = record[r].spec

QuietInv ==
    /\ PoliteInv
    /\ NoReports
    /\ NothingBetween
    /\ SucceededStays

(* Whoever writes the record of a resource that is worked on works for the *)
(* same operation.                                                         *)
LEMMA WritersAlone ==
    ASSUME QuietInv, [Next]_vars,
           NEW o \in Operations, UnderWay(o), request[o].pc # "save",
           NEW r \in Resources, request[o].resource = r
    PROVE  \/ Keeps(r)
           \/ DispatcherSaves(r) /\ worker.op = o
           \/ \E c \in Calls : (ReportSaves(c, r) \/ ReportRemoves(c, r)) /\ task[c].op = o
<1>1. SentInv /\ OneAtATime /\ IInv /\ NoReports
  BY DEF QuietInv, PoliteInv, SentInv
<1>2. ~PutSaves(r)
  BY <1>1, Alone DEF PutSaves
<1>3. DispatcherSaves(r) => worker.op = o
  BY <1>1, Alone DEF DispatcherSaves
<1>4. ~HealthSaves(r)
  BY <1>1 DEF NoReports, HealthSaves
<1>5. \A c \in Calls : ReportSaves(c, r) \/ ReportRemoves(c, r) => task[c].op = o
  BY <1>1, Alone DEF ReportSaves, ReportRemoves, WritesResult, SameWork
<1> QED BY <1>1, <1>2, <1>3, <1>4, <1>5, RecordWriters DEF Writes

(* The record of an event on its way to an agent is left alone.            *)
LEMMA EventsRecordKept ==
    ASSUME QuietInv, [Next]_vars, NEW e \in Envs, NEW i \in DOMAIN channel[e]
    PROVE  Keeps(request[channel[e][i].op].resource)
<1> DEFINE o == channel[e][i].op
<1>1. SentInv /\ IInv
  BY DEF QuietInv, PoliteInv, SentInv
<1>2. o \in Operations /\ UnderWay(o) /\ request[o].pc # "save"
  BY <1>1, WorkIsUnderWay, NotBegun
<1>3. request[o].resource \in Resources
  BY <1>1, <1>2 DEF IInv, TypeOK, Request
<1>4. worker.pc = "run" => worker.op # o
  BY <1>1, OperationFacts DEF SentInv, EventsAreDispatched
<1>5. \A c \in Calls : Busy(c) => task[c].op # o
  BY <1>1 DEF SentInv, EventsAreUnique
<1> QED BY <1>2, <1>3, <1>4, <1>5, WritersAlone
        DEF DispatcherSaves, ReportSaves, ReportRemoves, WritesResult, SameWork

(* So is the record a goroutine works on, until it writes its result.      *)
LEMMA TasksRecordKept ==
    ASSUME QuietInv, [Next]_vars, NEW c \in Calls, Busy(c), ~WritesResult(c)
    PROVE  Keeps(TaskResource(c))
<1> DEFINE o == task[c].op
<1>1. SentInv /\ IInv
  BY DEF QuietInv, PoliteInv, SentInv
<1>2. o \in Operations /\ UnderWay(o) /\ request[o].pc # "save"
  BY <1>1, WorkIsUnderWay, NotBegun
<1>3. TaskResource(c) \in Resources /\ request[o].resource = TaskResource(c)
  BY <1>1, <1>2 DEF IInv, TypeOK, Request, TaskResource
<1>4. worker.pc = "run" => worker.op # o
  BY <1>1, OperationFacts DEF SentInv, EventsAreDispatched
<1>5. \A d \in Calls : Busy(d) /\ task[d].op = o => d = c
  BY <1>1 DEF SentInv, EventsAreUnique
<1> QED BY <1>2, <1>3, <1>4, <1>5, WritersAlone
        DEF DispatcherSaves, ReportSaves, ReportRemoves, WritesResult, SameWork

(* Without health reports none is under way.                               *)
LEMMA NoReportsKept ==
    ASSUME Quiet, IInv, NoReports, [Next]_vars
    PROVE  NoReports'
<1> SUFFICES ASSUME NEW r \in Resources PROVE reporter'[r].pc = "idle"
  BY DEF NoReports
<1>1. \A x \in Resources : ~CheckHealth(x) /\ ~ReportStatusGet(x) /\ ~ReportStatusSave(x)
  BY DEF Quiet, NoReports, CheckHealth, ReportStatusGet, ReportStatusSave
<1>2. UNCHANGED reporter
  BY <1>1
     DEF Next, vars, restVars, PutApplication, DeleteApplication, WorkerOutside, VisibilityExpires,
         DispatcherStep, DispatchGet, DispatchApp, DispatchPlace, DispatchSave, DispatchSend,
         RequestStep, BeginRequest, PutSave, QueueOperation, EnqueueOperation,
         ReportStep, ReportResultGet, ReportResultWrite, ReportResultUpdateGet,
         ReportResultUpdateSave, Disconnect, Reconnect, Crash, Receive, Execute, LoseReport
<1> QED BY <1>2 DEF NoReports

(* From the dispatcher's save to the agent's result the record says what   *)
(* is being done, and the copy of the result is current.                   *)
LEMMA NothingBetweenKept ==
    ASSUME QuietInv, [Next]_vars
    PROVE  NothingBetween'
<1>0. SentInv /\ IInv /\ NothingBetween
  BY DEF QuietInv, PoliteInv, SentInv
<1>1. \A o \in Operations : /\ request'[o].method = request[o].method
                            /\ request'[o].resource = request[o].resource
                            /\ request[o].resource \in Resources
  BY <1>0, RequestsStay DEF IInv, TypeOK, Request
<1>2. \A r \in Resources : Keeps(r) => record'[r] = record[r]
  BY DEF Keeps
<1>3. ASSUME dispatcher'.pc # "get"
      PROVE  /\ (record[Handled].exists /\ dispatcher.read = record[Handled])'
             /\ dispatcher'.pc = "send" => InWork(Handled, DispatchMethod, dispatcher.env)'
  <2>1. dispatcher.pc # "get" => worker.op \in Operations /\ worker.pc = "run" /\ Handled \in Resources
    BY <1>0, <1>1, OperationFacts DEF IInv, DispatcherInRun, Handled
  <2>2. CASE dispatcher' = dispatcher /\ worker' = worker
    <3>1. /\ worker.op \in Operations /\ UnderWay(worker.op) /\ request[worker.op].pc # "save"
          /\ Handled \in Resources /\ request[worker.op].resource = Handled
      BY <1>0, <1>3, <2>1, <2>2, WorkIsUnderWay, NotBegun, OperationFacts DEF Handled
    <3>2. \A c \in Calls : Busy(c) => task[c].op # worker.op
      BY <1>0, <1>3, <2>1, <2>2, OperationFacts DEF SentInv, EventsAreDispatched
    <3>3. Keeps(Handled)
      BY <2>2, <3>1, <3>2, WritersAlone DEF DispatcherSaves, ReportSaves, ReportRemoves, WritesResult, SameWork
    <3>4. Handled' = Handled /\ DispatchMethod' = DispatchMethod /\ record'[Handled] = record[Handled]
      BY <1>1, <1>2, <2>2, <3>1, <3>3 DEF Handled, DispatchMethod
    <3> QED BY <1>0, <1>3, <2>2, <3>4 DEF NothingBetween, InWork
  <2>3. CASE /\ worker.pc = "run" /\ worker.op \in Operations /\ UNCHANGED <<worker, record>>
             /\ dispatcher'.pc = "app" /\ record[Handled].exists /\ dispatcher'.read = record[Handled]
    BY <1>1, <2>3 DEF Handled
  <2>4. CASE /\ UNCHANGED <<worker, record>> /\ dispatcher.pc \in {"app", "place"}
             /\ dispatcher'.pc \in {"place", "save"} /\ dispatcher'.read = dispatcher.read
    BY <1>0, <1>1, <2>1, <2>4 DEF NothingBetween, Handled
  <2>5. CASE /\ UNCHANGED worker /\ dispatcher.pc = "save" /\ dispatcher'.pc = "send"
             /\ Matches(Handled, dispatcher.read) =>
                   /\ record'[Handled].exists /\ dispatcher'.read = record'[Handled]
                   /\ record'[Handled].state = Working(DispatchMethod)
                   /\ record'[Handled].env = dispatcher.env
             /\ dispatcher'.env = dispatcher.env
    <3>1. Matches(Handled, dispatcher.read)
      BY <1>0, <2>5 DEF NothingBetween, Matches
    <3>2. Handled' = Handled /\ DispatchMethod' = DispatchMethod
      BY <1>1, <2>1, <2>5 DEF Handled, DispatchMethod
    <3> QED BY <2>5, <3>1, <3>2 DEF InWork
  <2> QED BY <1>0, <1>3, <2>2, <2>3, <2>4, <2>5, DispatcherMoves
<1>4. ASSUME NEW e \in Envs, NEW i \in DOMAIN channel'[e]
      PROVE  InWork(request[channel[e][i].op].resource, request[channel[e][i].op].method, e)'
  <2>1. ASSUME NEW k \in DOMAIN channel[e], channel'[e][i] = channel[e][k]
        PROVE  InWork(request[channel[e][i].op].resource, request[channel[e][i].op].method, e)'
    <3> DEFINE o == channel[e][k].op
    <3>1. o \in Operations
      BY <1>0, WorkIsUnderWay
    <3>2. record'[request[o].resource] = record[request[o].resource]
      BY <1>1, <1>2, <3>1, EventsRecordKept
    <3>3. InWork(request[o].resource, request[o].method, e)
      BY <1>0 DEF NothingBetween
    <3> QED BY <1>1, <2>1, <3>1, <3>2, <3>3 DEF InWork
  <2>2. CASE Sends(e) /\ channel'[e][i].op = worker.op
    <3>1. /\ dispatcher.pc = "send" /\ worker.op \in Operations /\ UNCHANGED record
          /\ InWork(Handled, DispatchMethod, e)
      BY <1>0, <2>2, WorkIsUnderWay DEF Sends, Dispatching, NothingBetween
    <3> QED BY <1>1, <2>2, <3>1 DEF InWork, Handled, DispatchMethod
  <2> QED BY <1>0, <2>1, <2>2, EventStep
<1>5. ASSUME NEW c \in Calls, task'[c].pc \in {"running", "executed", "write"}
      PROVE  /\ InWork(TaskResource(c), TaskMethod(c), task[c].env)'
             /\ task'[c].pc = "write" => task'[c].read = record'[TaskResource(c)']
  <2>1. CASE task'[c] = task[c] \/ Executes(c) \/ GetsRecord(c)
    <3>1. Busy(c) /\ task[c].pc \in {"running", "executed", "write"} /\ task'[c].op = task[c].op
          /\ task'[c].env = task[c].env
          /\ task[c].op \in Operations /\ ~WritesResult(c)
      BY <1>0, <1>5, <2>1, WorkIsUnderWay DEF Busy, Executes, GetsRecord, SameWork, WritesResult
    <3>2. TaskResource(c) \in Resources /\ TaskResource(c)' = TaskResource(c) /\ TaskMethod(c)' = TaskMethod(c)
      BY <1>1, <3>1 DEF TaskResource, TaskMethod
    <3>3. record'[TaskResource(c)] = record[TaskResource(c)]
      BY <1>2, <3>1, <3>2, TasksRecordKept
    <3>4. InWork(TaskResource(c), TaskMethod(c), task[c].env)
      BY <1>0, <3>1 DEF NothingBetween
    <3>5. task'[c].pc = "write" => task'[c].read = record[TaskResource(c)]
      BY <1>0, <2>1 DEF NothingBetween, Executes, GetsRecord
    <3> QED BY <3>1, <3>2, <3>3, <3>4, <3>5 DEF InWork
  <2>2. ASSUME NEW e \in Envs, Receives(e, c)
        PROVE  InWork(TaskResource(c), TaskMethod(c), task[c].env)' /\ task'[c].pc = "running"
    <3>1. /\ channel[e] \in Seq(Event) /\ channel[e] # <<>> /\ task'[c].op = Head(channel[e]).op
          /\ task'[c].pc = "running" /\ task'[c].env = e /\ UNCHANGED record
      BY <1>0, <2>2 DEF IInv, TypeOK, Receives, Receive
    <3>2. 1 \in DOMAIN channel[e] /\ task'[c].op = channel[e][1].op
      BY <3>1
    <3>3. channel[e][1].op \in Operations
      BY <1>0, <3>2, WorkIsUnderWay
    <3>4. InWork(request[channel[e][1].op].resource, request[channel[e][1].op].method, e)
      BY <1>0, <3>2 DEF NothingBetween
    <3> QED BY <1>1, <3>1, <3>2, <3>3, <3>4 DEF InWork, TaskResource, TaskMethod
  <2> QED BY <1>0, <1>5, <2>1, <2>2, TaskStep DEF WritesResult, Busy
<1> QED BY <1>3, <1>4, <1>5 DEF NothingBetween

(* Terraform runs only for a record that says Deploying or Deleting, and   *)
(* Succeeded is written with what was run.                                 *)
LEMMA SucceededStaysKept ==
    ASSUME QuietInv, [Next]_vars
    PROVE  SucceededStays'
<1>0. PoliteInv /\ SentInv /\ IInv /\ NothingBetween /\ NoReports
  BY DEF QuietInv, PoliteInv, SentInv
<1> SUFFICES ASSUME NEW r \in Resources, record'[r].exists, record'[r].state = "Succeeded"
             PROVE  record'[r].env \in Envs /\ infra'[record'[r].env][r] = record'[r].spec
  BY DEF SucceededStays
<1>1. CASE Keeps(r)
  <2>1. record'[r] = record[r] /\ record[r].env \in Envs /\ infra[record[r].env][r] = record[r].spec
    BY <1>1 DEF Keeps, QuietInv, SucceededStays
  <2>2. ASSUME NEW c \in Calls, Executes(c), TaskResource(c) = r PROVE FALSE
    BY <1>0, <2>1, <2>2 DEF Executes, NothingBetween, InWork, Working
  <2> QED BY <1>0, <2>1, <2>2, PoliteInfra
<1>2. ASSUME NEW c \in Calls, ReportSaves(c, r)
      PROVE  record'[r].env \in Envs /\ infra'[record'[r].env][r] = record'[r].spec
  <2>1. /\ Busy(c) /\ task[c].pc = "write" /\ TaskResource(c) = r /\ task[c].success
        /\ task[c].read.state # "Deleting" /\ infra' = infra
        /\ record'[r].env = task[c].read.env /\ record'[r].spec = task[c].read.spec
    BY <1>2 DEF ReportSaves, WritesResult, SameWork
  <2>2. task[c].read = record[r] /\ InWork(r, TaskMethod(c), task[c].env) /\ task[c].env \in Envs
    BY <1>0, <2>1 DEF NothingBetween, IInv, TasksAreOfOperations, Busy
  <2>3. TaskMethod(c) = "PUT"
    BY <2>1, <2>2 DEF InWork, Working
  <2>4. infra[task[c].env][r] = task[c].op
    BY <1>0, <2>1, <2>3 DEF PoliteInv, ExecutedIsLive
  <2>5. record[r].spec = lastPut[r] /\ lastPut[r] = task[c].op
    BY <1>0, <2>1, <2>2, <2>3, PutAtWork DEF IInv, SpecIsLastPut, InWork, PutStands, TaskResource
  <2> QED BY <2>1, <2>2, <2>4, <2>5 DEF InWork
<1> QED BY <1>0, <1>1, <1>2, RecordWriters
        DEF Writes, PutSaves, DispatcherSaves, HealthSaves, ReportRemoves, NoReports, Working

(* No record, event or report at the start.                                *)
LEMMA QuietInit == Init => QuietInv
<1> SUFFICES ASSUME Init PROVE QuietInv
  OBVIOUS
<1>1. PoliteInv
  BY PoliteInit
<1>2. NoReports /\ NothingBetween /\ SucceededStays
  BY DEF Init, NoReports, NothingBetween, SucceededStays, IdleReporter, IdleDispatcher, FreeTask, Blank
<1> QED BY <1>1, <1>2 DEF QuietInv

(* With polite clients and no health reports every step keeps all of it.   *)
LEMMA QuietNext == Polite /\ Quiet /\ QuietInv /\ [Next]_vars => QuietInv'
<1> SUFFICES ASSUME Polite, Quiet, QuietInv, [Next]_vars PROVE QuietInv'
  OBVIOUS
<1>1. PoliteInv /\ IInv /\ NoReports
  BY DEF QuietInv, PoliteInv, SentInv
<1>2. PoliteInv'
  BY <1>1, PoliteNext
<1>3. NoReports' /\ NothingBetween' /\ SucceededStays'
  BY <1>1, NoReportsKept, NothingBetweenKept, SucceededStaysKept
<1> QED BY <1>2, <1>3 DEF QuietInv

(* If clients wait and nobody reports health, the record of a resource     *)
(* follows its request from the dispatcher to the report                   *)
(* (dispatcher.go:134, server.go:240-261).                                 *)
THEOREM QuietInvariance == ASSUME Polite, Quiet PROVE Spec => []QuietInv
BY QuietInit, QuietNext, PTL DEF Spec

(* If clients wait and nobody reports health, a record that says Succeeded *)
(* tells the truth: the spec it holds is live in the environment it names, *)
(* whichever that is (pkg/grpcapi/server.go, ReportResult).                *)
THEOREM SucceededTellsTheTruth == ASSUME Polite, Quiet PROVE Spec => []SucceededIsLive
<1>1. QuietInv => SucceededIsLive
  BY DEF QuietInv, SucceededStays, SucceededIsLive
<1> QED BY QuietInvariance, <1>1, PTL
=============================================================================
