-------------------------- MODULE AsyncOperations --------------------------
(***************************************************************************)
(* The asynchronous operation machinery of ryobid: the StatusManager       *)
(* (pkg/api/async/statusmanager.go), the in-memory queue                   *)
(* (pkg/components/queue/inmemory.go), the single Worker                   *)
(* (pkg/api/async/worker.go) and the part of EnvironmentServer.ReportResult*)
(* (pkg/grpcapi/server.go) that writes an operation status.                *)
(*                                                                         *)
(* A status record is written by two parties that do not wait for each     *)
(* other: the worker, and the gRPC goroutine of a ReportResult call.  Both *)
(* go through StatusManager.Update, a database Get followed by a Save that *)
(* carries the ETag of the Get; each is a step of its own here.  What a    *)
(* controller does is abstracted to its outcome (see ControlPlane for the  *)
(* ResourceDispatcher).  The database draws a fresh UUID as ETag at every  *)
(* Save; the model counts the Saves of a record instead.                   *)
(***************************************************************************)
EXTENDS Integers, Sequences

CONSTANTS
    Operations,   (* ids of async operations                                *)
    Registered,   (* those whose type and method have a controller          *)
    Calls,        (* ReportResult calls; each is received at most once      *)
    NoOp          (* "no operation" for an idle worker or call              *)

ASSUME OperationsAssumption ==
    /\ Registered \subseteq Operations
    /\ NoOp \notin Operations

VARIABLES
    status,       (* operation id -> status record in the database          *)
    enqueueing,   (* ids whose status is saved and whose Enqueue is pending *)
    messages,     (* the queue's slice, oldest first                        *)
    worker,       (* the worker goroutine                                   *)
    call,         (* the ReportResult goroutines                            *)
    runs,         (* history: how often each operation's controller ran     *)
    dispatched,   (* history: operations whose event is, or was, in a       *)
                  (* channel that an agent's watch stream is served from    *)
    dropped       (* history: operations whose event no channel had room for*)

vars == <<status, enqueueing, messages, worker, call, runs, dispatched, dropped>>

(* v1.ProvisioningState.  Canceled is terminal too, but nothing writes it;  *)
(* "None" stands for an id without a status record.                        *)
TerminalStates     == {"Succeeded", "Failed"}
ProvisioningStates == {"None", "Accepted", "Provisioning"} \cup TerminalStates

StatusRecord == [state : ProvisioningStates, error : BOOLEAN, etag : Nat]
Message      == [op : Operations, visible : BOOLEAN]

(* The program counter of Worker.processNext; "dead" after a panic.  "set" *)
(* and "save" are the two halves of the final StatusManager.Update.        *)
WorkerPC  == {"idle", "start", "startSave", "run", "set", "save", "complete", "dead"}
Worker    == [pc : WorkerPC, op : Operations \cup {NoOp},
              verdict : TerminalStates, etag : Nat]
IdleWorker == [pc |-> "idle", op |-> NoOp, verdict |-> "Failed", etag |-> 0]
CallPC    == {"idle", "read", "saving", "done", "dropped"}
Call      == [pc : CallPC, op : Operations \cup {NoOp},
              verdict : TerminalStates, etag : Nat]

TypeOK ==
    /\ status     \in [Operations -> StatusRecord]
    /\ enqueueing \subseteq Operations
    /\ messages   \in Seq(Message)
    /\ worker     \in Worker
    /\ call       \in [Calls -> Call]
    /\ runs       \in [Operations -> Nat]
    /\ dispatched \subseteq Operations
    /\ dropped    \subseteq Operations

Init ==
    /\ status     = [o \in Operations |-> [state |-> "None", error |-> FALSE, etag |-> 0]]
    /\ enqueueing = {}
    /\ messages   = <<>>
    /\ worker     = IdleWorker
    /\ call       = [c \in Calls |-> [pc |-> "idle", op |-> NoOp,
                                      verdict |-> "Failed", etag |-> 0]]
    /\ runs       = [o \in Operations |-> 0]
    /\ dispatched = {}
    /\ dropped    = {}

(* A status record as StatusManager.Update saves it: Error is kept unless  *)
(* the update brings one, and the Save draws a new ETag.                   *)
Updated(s, state) ==
    [state |-> state,
     error |-> IF state = "Failed" THEN TRUE ELSE s.error,
     etag  |-> s.etag + 1]

(* The messages that remain when the i-th is cut out of the slice.         *)
Without(s, i) ==
    [j \in 1..(Len(s) - 1) |-> IF j < i THEN s[j] ELSE s[j + 1]]

-----------------------------------------------------------------------------
(* QueueAsyncOperation, in the goroutine of an HTTP request: the status is *)
(* saved, without an ETag, before the message is enqueued.                 *)
SaveAccepted(o) ==
    /\ status[o].state = "None"
    /\ status' = [status EXCEPT ![o] = [state |-> "Accepted", error |-> FALSE,
                                        etag |-> status[o].etag + 1]]
    /\ enqueueing' = enqueueing \cup {o}
    /\ UNCHANGED <<messages, worker, call, runs, dispatched, dropped>>

MutantEnqueueTwice(o) ==
    /\ o \in enqueueing
    /\ enqueueing' = enqueueing \ {o}
    /\ messages' = messages \o [k \in 1..2 |-> [op |-> o, visible |-> TRUE]]
    /\ UNCHANGED <<status, worker, call, runs, dispatched, dropped>>

Enqueue(o) ==
    /\ o \in enqueueing
    /\ enqueueing' = enqueueing \ {o}
    /\ messages' = Append(messages, [op |-> o, visible |-> TRUE])
    /\ UNCHANGED <<status, worker, call, runs, dispatched, dropped>>

(* Thirty seconds after a Dequeue the message is visible again, whether or *)
(* not it is still being processed.                                        *)
VisibilityExpires(i) ==
    /\ ~messages[i].visible
    /\ messages' = [messages EXCEPT ![i].visible = TRUE]
    /\ UNCHANGED <<status, enqueueing, worker, call, runs, dispatched, dropped>>

-----------------------------------------------------------------------------
MutantDequeueRemoves(i) ==
    /\ worker.pc = "idle"
    /\ messages[i].visible
    /\ messages' = Without(messages, i)
    /\ worker' = [worker EXCEPT !.pc = "start", !.op = messages[i].op]
    /\ UNCHANGED <<status, enqueueing, call, runs, dispatched, dropped>>

(* processNext takes the first visible message.                            *)
Dequeue(i) ==
    /\ worker.pc = "idle"
    /\ messages[i].visible
    /\ \A j \in 1..(i - 1) : ~messages[j].visible
    /\ messages' = [messages EXCEPT ![i].visible = FALSE]
    /\ worker' = [worker EXCEPT !.pc = "start", !.op = messages[i].op]
    /\ UNCHANGED <<status, enqueueing, call, runs, dispatched, dropped>>

MutantStartSaveSkipped ==
    /\ worker.pc = "startSave"
    /\ worker' = [worker EXCEPT !.pc = "run", !.etag = 0]
    /\ UNCHANGED <<status, enqueueing, messages, call, runs, dispatched, dropped>>

(* Update(Provisioning): the Get, then the Save guarded by the ETag.  Its  *)
(* error is dropped, so the worker goes on either way.                     *)
StartGet ==
    /\ worker.pc = "start"
    /\ worker' = [worker EXCEPT !.pc = "startSave", !.etag = status[worker.op].etag]
    /\ UNCHANGED <<status, enqueueing, messages, call, runs, dispatched, dropped>>

StartSave ==
    /\ worker.pc = "startSave"
    /\ status' = IF status[worker.op].etag = worker.etag
                 THEN [status EXCEPT ![worker.op] = Updated(@, "Provisioning")]
                 ELSE status
    /\ worker' = [worker EXCEPT !.pc = "run", !.etag = 0]
    /\ UNCHANGED <<enqueueing, messages, call, runs, dispatched, dropped>>

MutantNoControllerReturnsEarly ==
    /\ worker.pc = "run"
    /\ worker.op \notin Registered
    /\ worker' = IdleWorker
    /\ UNCHANGED <<status, enqueueing, messages, call, runs, dispatched, dropped>>

MutantNoControllerSucceeds ==
    /\ worker.pc = "run"
    /\ worker.op \notin Registered
    /\ worker' = [worker EXCEPT !.pc = "set", !.verdict = "Succeeded"]
    /\ UNCHANGED <<status, enqueueing, messages, call, runs, dispatched, dropped>>

MutantNoControllerCancels ==
    /\ worker.pc = "run"
    /\ worker.op \notin Registered
    /\ worker' = [worker EXCEPT !.pc = "set", !.verdict = "Canceled"]
    /\ UNCHANGED <<status, enqueueing, messages, call, runs, dispatched, dropped>>

(* The registry has no controller for the operation.                       *)
NoController ==
    /\ worker.pc = "run"
    /\ worker.op \notin Registered
    /\ worker' = [worker EXCEPT !.pc = "set", !.verdict = "Failed"]
    /\ UNCHANGED <<status, enqueueing, messages, call, runs, dispatched, dropped>>

Ran == runs' = [runs EXCEPT ![worker.op] = @ + 1]

(* controller.Run returned an empty result: the worker will write          *)
(* Succeeded without waiting for anybody.                                  *)
ControllerReturns ==
    /\ worker.pc = "run"
    /\ worker.op \in Registered
    /\ worker' = [worker EXCEPT !.pc = "set", !.verdict = "Succeeded"]
    /\ Ran
    /\ UNCHANGED <<status, enqueueing, messages, call>>

(* It did so with the event in the channel of an agent that watches,       *)
ControllerDispatches ==
    /\ ControllerReturns
    /\ dispatched' = dispatched \cup {worker.op}
    /\ UNCHANGED dropped

(* or with every such channel full: DispatchResourceEvent logs a warning,  *)
(* drops the event and returns nil all the same.                           *)
ControllerDrops ==
    /\ ControllerReturns
    /\ dropped' = dropped \cup {worker.op}
    /\ UNCHANGED dispatched

(* controller.Run returned an error, or a result that carries one.         *)
ControllerFails ==
    /\ worker.pc = "run"
    /\ worker.op \in Registered
    /\ worker' = [worker EXCEPT !.pc = "set", !.verdict = "Failed"]
    /\ Ran
    /\ UNCHANGED <<status, enqueueing, messages, call, dispatched, dropped>>

(* controller.Run panicked, possibly with the event in a channel.  The     *)
(* hosting layer recovers the panic and the worker never runs again.       *)
ControllerPanics ==
    /\ worker.pc = "run"
    /\ worker.op \in Registered
    /\ worker' = [worker EXCEPT !.pc = "dead"]
    /\ dispatched' \in {dispatched, dispatched \cup {worker.op}}
    /\ Ran
    /\ UNCHANGED <<status, enqueueing, messages, call, dropped>>

(* The final Update, again a Get and a guarded Save with a dropped error.  *)
FinalGet ==
    /\ worker.pc = "set"
    /\ worker' = [worker EXCEPT !.pc = "save", !.etag = status[worker.op].etag]
    /\ UNCHANGED <<status, enqueueing, messages, call, runs, dispatched, dropped>>

FinalSave ==
    /\ worker.pc = "save"
    /\ status' = IF status[worker.op].etag = worker.etag
                 THEN [status EXCEPT ![worker.op] = Updated(@, worker.verdict)]
                 ELSE status
    /\ worker' = [worker EXCEPT !.pc = "complete", !.etag = 0]
    /\ UNCHANGED <<enqueueing, messages, call, runs, dispatched, dropped>>

MutantCompleteKeepsMessage(i) ==
    /\ worker.pc = "complete"
    /\ messages[i].op = worker.op
    /\ worker' = IdleWorker
    /\ UNCHANGED <<status, enqueueing, messages, call, runs, dispatched, dropped>>

(* queue.Complete removes the message by its id.                           *)
Complete(i) ==
    /\ worker.pc = "complete"
    /\ messages[i].op = worker.op
    /\ messages' = Without(messages, i)
    /\ worker' = IdleWorker
    /\ UNCHANGED <<status, enqueueing, call, runs, dispatched, dropped>>

-----------------------------------------------------------------------------
(* ReportResult, once the resource is written: Update(Succeeded | Failed). *)
(* An agent reports an operation it received; each watcher of the          *)
(* environment receives it, so several calls may report the same one.      *)
ReportArrives(c, o, verdict) ==
    /\ call[c].pc = "idle"
    /\ o \in dispatched
    /\ call' = [call EXCEPT ![c] = [pc |-> "read", op |-> o,
                                    verdict |-> verdict, etag |-> 0]]
    /\ UNCHANGED <<status, enqueueing, messages, worker, runs, dispatched, dropped>>

ReportGet(c) ==
    /\ call[c].pc = "read"
    /\ call' = [call EXCEPT ![c].pc = "saving", ![c].etag = status[call[c].op].etag]
    /\ UNCHANGED <<status, enqueueing, messages, worker, runs, dispatched, dropped>>

ReportSave(c) ==
    /\ call[c].pc = "saving"
    /\ status' = IF status[call[c].op].etag = call[c].etag
                 THEN [status EXCEPT ![call[c].op] = Updated(@, call[c].verdict)]
                 ELSE status
    /\ call' = [call EXCEPT ![c].pc = "done", ![c].etag = 0]
    /\ UNCHANGED <<enqueueing, messages, worker, runs, dispatched, dropped>>

(* The resource is gone: the report is acknowledged and the operation left *)
(* as it is.                                                               *)
ReportDropped(c) ==
    /\ call[c].pc = "read"
    /\ call' = [call EXCEPT ![c].pc = "dropped"]
    /\ UNCHANGED <<status, enqueueing, messages, worker, runs, dispatched, dropped>>

-----------------------------------------------------------------------------
WorkerStep ==
    \/ \E i \in DOMAIN messages : Dequeue(i) \/ Complete(i)
    \/ StartGet \/ StartSave
    \/ NoController \/ ControllerDispatches \/ ControllerDrops
    \/ ControllerFails \/ ControllerPanics
    \/ FinalGet \/ FinalSave

RequestStep(o) == SaveAccepted(o) \/ Enqueue(o)

CallStep(c) ==
    \/ \E o \in Operations, verdict \in TerminalStates : ReportArrives(c, o, verdict)
    \/ ReportGet(c) \/ ReportSave(c) \/ ReportDropped(c)

Next ==
    \/ WorkerStep
    \/ \E o \in Operations : RequestStep(o)
    \/ \E i \in DOMAIN messages : VisibilityExpires(i)
    \/ \E c \in Calls : CallStep(c)

Spec == Init /\ [][Next]_vars

(* The worker polls on a ticker, and a goroutine that has saved a status   *)
(* goes on to enqueue it.  Clients and agents need not do anything.        *)
Fairness ==
    /\ WF_vars(WorkerStep)
    /\ \A o \in Operations : WF_vars(Enqueue(o))

FairSpec == Spec /\ Fairness

-----------------------------------------------------------------------------
Queued(o) == \E i \in DOMAIN messages : messages[i].op = o

Terminal(o) == status[o].state \in TerminalStates

(* No accepted operation is lost: until its status is terminal, its        *)
(* message is about to be enqueued or is in the queue - although every     *)
(* error of a status update is ignored by the worker.                      *)
UnfinishedIsQueued ==
    \A o \in Operations :
        status[o].state \in {"Accepted", "Provisioning"} => o \in enqueueing \/ Queued(o)

(* A controller runs at most once per operation, although the message is   *)
(* visible again after thirty seconds of processing.                       *)
RunAtMostOnce == \A o \in Operations : runs[o] <= 1

(* A client that reads Failed also reads why.  One that reads Succeeded    *)
(* polls an operation whose own controller ran and offered its event to an *)
(* agent's channel: no writer saves the verdict it holds for another       *)
(* operation.  The event may have been dropped there, so Succeeded does    *)
(* not mean that an agent has it, or ever will.                            *)
VerdictIsGrounded ==
    \A o \in Operations :
        /\ status[o].state = "Failed" => status[o].error
        /\ status[o].state = "Succeeded" => o \in dispatched \cup dropped

(* Nobody reopens an operation a client may have seen finished: no writer  *)
(* holding an old read can put it back to Accepted or Provisioning.        *)
NeverReopened ==
    [][\A o \in Operations : Terminal(o) => Terminal(o)']_vars

(* Seen by a client, the machinery behaves as OperationStatus.             *)
Abstract == INSTANCE OperationStatus
              WITH state <- [o \in Operations |-> status[o].state]
RefinesOperationStatus == Abstract!Spec

(* Every accepted operation is concluded, whatever the agents do, as long  *)
(* as no controller panics.                                                *)
EventuallyConcluded ==
    \A o \in Operations :
        status[o].state = "Accepted" ~> (Terminal(o) \/ worker.pc = "dead")
=============================================================================
