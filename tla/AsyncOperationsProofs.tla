----------------------- MODULE AsyncOperationsProofs -----------------------
(***************************************************************************)
(* Proofs about AsyncOperations for any number of operations and reports.  *)
(* The invariant UnfinishedIsQueued says nothing of who may write a status *)
(* record, so it is not inductive; IInv adds where in the pipeline an      *)
(* operation can be for each of its states, and that only the worker and   *)
(* the reports of a dispatched operation write its status.                 *)
(***************************************************************************)
EXTENDS AsyncOperations, TLAPS

Started(o) == status[o].state \in {"Provisioning"} \cup TerminalStates

(* An operation nobody has worked on yet.                                  *)
Fresh(o) ==
    /\ status[o].state = "Accepted"
    /\ o \notin dispatched
    /\ runs[o] = 0

QueuedOnce ==
    \A i, j \in DOMAIN messages : messages[i].op = messages[j].op => i = j

WorkerHoldsMessage ==
    IF worker.pc = "idle" THEN worker.op = NoOp
                          ELSE worker.op \in Operations /\ Queued(worker.op)

(* Where an operation is when the worker does not hold it.                 *)
Elsewhere(o) ==
    \/ /\ status[o].state = "None"
       /\ o \notin dispatched /\ runs[o] = 0
       /\ o \notin enqueueing /\ ~Queued(o)
    \/ Fresh(o) /\ o \in enqueueing /\ ~Queued(o)
    \/ Fresh(o) /\ o \notin enqueueing /\ Queued(o)
    \/ /\ Terminal(o) /\ runs[o] <= 1
       /\ o \notin enqueueing /\ ~Queued(o)

(* The state of the operation the worker holds, at each program counter.   *)
Held(o) ==
    /\ o \notin enqueueing
    /\ worker.pc \in {"start", "startSave"} => Fresh(o)
    /\ worker.pc = "startSave" => worker.etag = status[o].etag
    /\ worker.pc = "run" =>
         status[o].state = "Provisioning" /\ o \notin dispatched /\ runs[o] = 0
    /\ worker.pc \in {"set", "save", "complete", "dead"} => Started(o) /\ runs[o] <= 1
    /\ worker.pc \in {"set", "save"} /\ worker.verdict = "Succeeded" =>
         o \in dispatched \cup dropped
    /\ worker.pc = "save" => worker.etag = status[o].etag \/ Terminal(o)
    /\ worker.pc = "complete" => Terminal(o)

Grounded(o) ==
    /\ o \in dispatched => Started(o)
    /\ status[o].state = "Failed" => status[o].error
    /\ status[o].state = "Succeeded" => o \in dispatched \cup dropped

CallsAreGrounded ==
    \A c \in Calls : call[c].pc \in {"read", "saving"} => call[c].op \in dispatched

IInv ==
    /\ TypeOK
    /\ QueuedOnce
    /\ WorkerHoldsMessage
    /\ \A o \in Operations : worker.op # o => Elsewhere(o)
    /\ \A o \in Operations : worker.op = o => Held(o)
    /\ \A o \in Operations : Grounded(o)
    /\ CallsAreGrounded

-----------------------------------------------------------------------------
(* How the queue's contents change.                                        *)

(* Appending a message keeps the type of the queue and adds one operation. *)
LEMMA AppendLemma ==
    ASSUME messages \in Seq(Message), NEW o \in Operations,
           messages' = Append(messages, [op |-> o, visible |-> TRUE])
    PROVE  /\ messages' \in Seq(Message)
           /\ \A x \in Operations : Queued(x)' <=> Queued(x) \/ x = o
           /\ QueuedOnce /\ ~Queued(o) => QueuedOnce'
<1>1. /\ Len(messages') = Len(messages) + 1
      /\ messages'[Len(messages) + 1] = [op |-> o, visible |-> TRUE]
      /\ \A i \in DOMAIN messages : messages'[i] = messages[i]
      /\ DOMAIN messages' = DOMAIN messages \cup {Len(messages) + 1}
  OBVIOUS
<1>2. messages' \in Seq(Message)
  BY DEF Message
<1>3. \A x \in Operations : Queued(x)' <=> Queued(x) \/ x = o
  BY <1>1 DEF Queued
<1>4. QueuedOnce /\ ~Queued(o) => QueuedOnce'
  BY <1>1 DEF Queued, QueuedOnce
<1>5. QED
  BY <1>2, <1>3, <1>4

(* Making a message visible or invisible moves no operation.               *)
LEMMA VisibleLemma ==
    ASSUME messages \in Seq(Message), NEW i \in DOMAIN messages, NEW b \in BOOLEAN,
           messages' = [messages EXCEPT ![i].visible = b]
    PROVE  /\ messages' \in Seq(Message)
           /\ \A x \in Operations : Queued(x)' <=> Queued(x)
           /\ QueuedOnce => QueuedOnce'
<1>1. /\ DOMAIN messages' = DOMAIN messages
      /\ \A j \in DOMAIN messages : messages'[j].op = messages[j].op
  BY DEF Message
<1>2. messages' \in Seq(Message)
  <2>1. \A j \in DOMAIN messages : messages[j] \in Message
    OBVIOUS
  <2>2. [messages[i] EXCEPT !.visible = b] \in Message
    BY <2>1 DEF Message
  <2>3. messages' = [messages EXCEPT ![i] = [messages[i] EXCEPT !.visible = b]]
    OBVIOUS
  <2>4. QED
    BY <2>2, <2>3
<1>3. \A x \in Operations : Queued(x)' <=> Queued(x)
  BY <1>1 DEF Queued
<1>4. QueuedOnce => QueuedOnce'
  BY <1>1 DEF QueuedOnce
<1>5. QED
  BY <1>2, <1>3, <1>4

(* Removing a message removes exactly its operation, for each operation    *)
(* has at most one message.                                                *)
LEMMA WithoutLemma ==
    ASSUME messages \in Seq(Message), NEW i \in DOMAIN messages, QueuedOnce,
           messages' = Without(messages, i)
    PROVE  /\ messages' \in Seq(Message)
           /\ \A x \in Operations : Queued(x)' <=> Queued(x) /\ x # messages[i].op
           /\ QueuedOnce'
<1>1. /\ DOMAIN messages' = 1..(Len(messages) - 1)
      /\ \A j \in 1..(Len(messages) - 1) :
            messages'[j] = IF j < i THEN messages[j] ELSE messages[j + 1]
      /\ Len(messages) \in Nat /\ DOMAIN messages = 1..Len(messages) /\ i \in 1..Len(messages)
  BY DEF Without
<1>2. messages' \in Seq(Message)
  <2>1. \A j \in 1..(Len(messages) - 1) : messages'[j] \in Message
    BY <1>1
  <2>2. messages' = [j \in 1..(Len(messages) - 1) |-> messages'[j]]
    BY <1>1 DEF Without
  <2>3. Len(messages) - 1 \in Nat
    BY <1>1
  <2>4. QED
    BY <2>1, <2>2, <2>3
<1>3. ASSUME NEW x \in Operations
      PROVE  Queued(x)' <=> Queued(x) /\ x # messages[i].op
  <2>1. ASSUME Queued(x)'
        PROVE  Queued(x) /\ x # messages[i].op
    <3>1. PICK j \in 1..(Len(messages) - 1) : messages'[j].op = x
      BY <1>1, <2>1 DEF Queued
    <3>2. PICK k \in 1..Len(messages) : messages[k].op = x /\ k # i
      <4>1. CASE j < i
        BY <4>1, <3>1, <1>1
      <4>2. CASE ~(j < i)
        BY <4>2, <3>1, <1>1
      <4>3. QED
        BY <4>1, <4>2
    <3>3. QED
      BY <1>1, <3>2 DEF Queued, QueuedOnce
  <2>2. ASSUME Queued(x), x # messages[i].op
        PROVE  Queued(x)'
    <3>1. PICK k \in 1..Len(messages) : messages[k].op = x
      BY <1>1, <2>2 DEF Queued
    <3>2. k # i
      BY <3>1, <2>2
    <3>3. PICK j \in 1..(Len(messages) - 1) : messages'[j] = messages[k]
      <4>1. CASE k < i
        BY <4>1, <1>1
      <4>2. CASE k > i
        <5>1. k - 1 \in 1..(Len(messages) - 1) /\ ~(k - 1 < i) /\ (k - 1) + 1 = k
          BY <4>2, <1>1
        <5>2. QED
          BY <5>1, <1>1
      <4>3. QED
        BY <4>1, <4>2, <3>2, <1>1
    <3>4. QED
      BY <1>1, <3>1, <3>3 DEF Queued
  <2>3. QED
    BY <2>1, <2>2
<1>4. QueuedOnce'
  <2>1. SUFFICES ASSUME NEW j \in 1..(Len(messages) - 1), NEW k \in 1..(Len(messages) - 1),
                        messages'[j].op = messages'[k].op
                 PROVE  j = k
    BY <1>1 DEF QueuedOnce
  <2>2. QED
    BY <1>1, <2>1 DEF QueuedOnce
<1>5. QED
  BY <1>2, <1>3, <1>4

(* What StatusManager.Update saves is a status record with the given state *)
(* that has an error if that state is Failed.                              *)
LEMMA UpdatedLemma ==
    ASSUME NEW s \in StatusRecord, NEW st \in ProvisioningStates
    PROVE  /\ Updated(s, st) \in StatusRecord
           /\ Updated(s, st).state = st
           /\ st = "Failed" => Updated(s, st).error
<1>1. s.error \in BOOLEAN /\ s.etag + 1 \in Nat
  BY DEF StatusRecord
<1>2. CASE st = "Failed"
  <2>1. Updated(s, st) = [state |-> st, error |-> TRUE, etag |-> s.etag + 1]
    BY <1>2 DEF Updated
  <2>2. QED
    BY <1>1, <2>1 DEF StatusRecord
<1>3. CASE st # "Failed"
  <2>1. Updated(s, st) = [state |-> st, error |-> s.error, etag |-> s.etag + 1]
    BY <1>3 DEF Updated
  <2>2. QED
    BY <1>1, <1>3, <2>1 DEF StatusRecord
<1>4. QED
  BY <1>2, <1>3

-----------------------------------------------------------------------------
(* IInv holds initially: no status record, an empty queue, an idle worker. *)
LEMMA InitIInv == Init => IInv
<1> SUFFICES ASSUME Init PROVE IInv
  OBVIOUS
<1> USE OperationsAssumption DEF Init, IdleWorker
<1>1. TypeOK
  BY DEF TypeOK, StatusRecord, ProvisioningStates, TerminalStates, Worker, WorkerPC,
         Call, CallPC, Message
<1>2. QueuedOnce /\ WorkerHoldsMessage /\ CallsAreGrounded
  BY DEF QueuedOnce, WorkerHoldsMessage, CallsAreGrounded
<1>3. \A o \in Operations : Elsewhere(o) /\ Grounded(o)
  <2>1. DOMAIN messages = {}
    OBVIOUS
  <2>2. QED
    BY <2>1 DEF Elsewhere, Queued, Grounded
<1>4. \A o \in Operations : worker.op = o => Held(o)
  OBVIOUS
<1>5. QED
  BY <1>1, <1>2, <1>3, <1>4 DEF IInv

(* IInv is preserved, one step per action.                                 *)
LEMMA NextIInv == IInv /\ [Next]_vars => IInv'
<1> SUFFICES ASSUME IInv, [Next]_vars PROVE IInv'
  OBVIOUS
<1> USE OperationsAssumption
<1> USE DEF IInv, TypeOK, StatusRecord, ProvisioningStates, TerminalStates, Worker,
            WorkerPC, Call, CallPC, IdleWorker
<1> DEFINE QueueKept == /\ messages' \in Seq(Message)
                        /\ \A x \in Operations : Queued(x)' <=> Queued(x)
                        /\ QueuedOnce'
<1>0. messages' = messages => QueueKept
  BY DEF Queued, QueuedOnce
<1>1. ASSUME NEW o \in Operations, SaveAccepted(o)
      PROVE  IInv'
  <2>1. QueueKept
    BY <1>0, <1>1 DEF SaveAccepted
  <2>2. Elsewhere(o) /\ worker.op # o
    BY <1>1 DEF SaveAccepted, Held, Fresh, Started, WorkerHoldsMessage
  <2>3. TypeOK'
    BY <1>1, <2>1, <2>2 DEF SaveAccepted
  <2>4. \A x \in Operations : (worker.op # x => Elsewhere(x))'
    BY <1>1, <2>1, <2>2 DEF SaveAccepted, Elsewhere, Held, Grounded, Fresh, Started, Terminal
  <2>5. \A x \in Operations : (worker.op = x => Held(x))'
    BY <1>1, <2>1, <2>2 DEF SaveAccepted, Elsewhere, Held, Grounded, Fresh, Started, Terminal
  <2>6. \A x \in Operations : Grounded(x)'
    BY <1>1, <2>1, <2>2 DEF SaveAccepted, Elsewhere, Held, Grounded, Fresh, Started
  <2>7. WorkerHoldsMessage'
    BY <1>1, <2>1, <2>2 DEF SaveAccepted, WorkerHoldsMessage
  <2>8. CallsAreGrounded'
    BY <1>1, <2>1, <2>2 DEF SaveAccepted, CallsAreGrounded
  <2>9. QED
    BY <2>1, <2>3, <2>4, <2>5, <2>6, <2>7, <2>8
<1>2. ASSUME NEW o \in Operations, Enqueue(o)
      PROVE  IInv'
  <2>1. /\ messages' \in Seq(Message)
        /\ \A x \in Operations : Queued(x)' <=> Queued(x) \/ x = o
        /\ QueuedOnce'
    <3>1. ~Queued(o)
      BY <1>2 DEF Enqueue, Elsewhere, Held
    <3>2. QED
      BY <1>2, <3>1, AppendLemma DEF Enqueue
  <2>2. Fresh(o) /\ worker.op # o
    BY <1>2 DEF Enqueue, Elsewhere, Held
  <2>3. TypeOK'
    BY <1>2, <2>1, <2>2 DEF Enqueue
  <2>4. \A x \in Operations : (worker.op # x => Elsewhere(x))'
    BY <1>2, <2>1, <2>2 DEF Enqueue, Elsewhere, Held, Grounded, Fresh, Started, Terminal
  <2>5. \A x \in Operations : (worker.op = x => Held(x))'
    BY <1>2, <2>1, <2>2 DEF Enqueue, Elsewhere, Held, Grounded, Fresh, Started, Terminal
  <2>6. \A x \in Operations : Grounded(x)'
    BY <1>2, <2>1, <2>2 DEF Enqueue, Elsewhere, Held, Grounded, Fresh, Started
  <2>7. WorkerHoldsMessage'
    BY <1>2, <2>1, <2>2 DEF Enqueue, WorkerHoldsMessage
  <2>8. CallsAreGrounded'
    BY <1>2, <2>1, <2>2 DEF Enqueue, CallsAreGrounded
  <2>9. QED
    BY <2>1, <2>3, <2>4, <2>5, <2>6, <2>7, <2>8
<1>3. ASSUME NEW i \in DOMAIN messages, VisibilityExpires(i)
      PROVE  IInv'
  <2>1. QueueKept
    BY <1>3, VisibleLemma DEF VisibilityExpires
  <2>3. TypeOK'
    BY <1>3, <2>1 DEF VisibilityExpires
  <2>4. \A x \in Operations : (worker.op # x => Elsewhere(x))'
    BY <1>3, <2>1 DEF VisibilityExpires, Elsewhere, Held, Grounded, Fresh, Started, Terminal
  <2>5. \A x \in Operations : (worker.op = x => Held(x))'
    BY <1>3, <2>1 DEF VisibilityExpires, Elsewhere, Held, Grounded, Fresh, Started, Terminal
  <2>6. \A x \in Operations : Grounded(x)'
    BY <1>3, <2>1 DEF VisibilityExpires, Elsewhere, Held, Grounded, Fresh, Started
  <2>7. WorkerHoldsMessage'
    BY <1>3, <2>1 DEF VisibilityExpires, WorkerHoldsMessage
  <2>8. CallsAreGrounded'
    BY <1>3, <2>1 DEF VisibilityExpires, CallsAreGrounded
  <2>9. QED
    BY <2>1, <2>3, <2>4, <2>5, <2>6, <2>7, <2>8
<1>4. ASSUME NEW i \in DOMAIN messages, Dequeue(i)
      PROVE  IInv'
  <2>1. QueueKept
    BY <1>4, VisibleLemma DEF Dequeue
  <2>2. /\ worker.op = NoOp /\ worker.pc = "idle"
        /\ worker'.op \in Operations /\ Queued(worker'.op) /\ Elsewhere(worker'.op)
        /\ worker' = [worker EXCEPT !.pc = "start", !.op = worker'.op]
    <3>1. worker.op = NoOp /\ worker.pc = "idle"
      BY <1>4 DEF Dequeue, WorkerHoldsMessage
    <3>2. messages[i].op \in Operations /\ Queued(messages[i].op)
      <4>1. messages[i] \in Message
        OBVIOUS
      <4>2. QED
        BY <4>1 DEF Message, Queued
    <3>3. worker' = [worker EXCEPT !.pc = "start", !.op = messages[i].op]
      BY <1>4 DEF Dequeue
    <3>4. QED
      BY <3>1, <3>2, <3>3
  <2>3. TypeOK'
    BY <1>4, <2>1, <2>2 DEF Dequeue
  <2>4. \A x \in Operations : (worker.op # x => Elsewhere(x))'
    BY <1>4, <2>1, <2>2 DEF Dequeue, Elsewhere, Held, Grounded, Fresh, Started, Terminal
  <2>5. \A x \in Operations : (worker.op = x => Held(x))'
    BY <1>4, <2>1, <2>2 DEF Dequeue, Elsewhere, Held, Grounded, Fresh, Started, Terminal
  <2>6. \A x \in Operations : Grounded(x)'
    BY <1>4, <2>1, <2>2 DEF Dequeue, Elsewhere, Held, Grounded, Fresh, Started
  <2>7. WorkerHoldsMessage'
    BY <1>4, <2>1, <2>2 DEF Dequeue, WorkerHoldsMessage
  <2>8. CallsAreGrounded'
    BY <1>4, <2>1, <2>2 DEF Dequeue, CallsAreGrounded
  <2>9. QED
    BY <2>1, <2>3, <2>4, <2>5, <2>6, <2>7, <2>8
<1>5. ASSUME NEW i \in DOMAIN messages, Complete(i)
      PROVE  IInv'
  <2>1. /\ messages' \in Seq(Message)
        /\ \A x \in Operations : Queued(x)' <=> Queued(x) /\ x # worker.op
        /\ QueuedOnce'
    BY <1>5, WithoutLemma DEF Complete
  <2>2. worker.op \in Operations /\ Held(worker.op)
    BY <1>5 DEF Complete, WorkerHoldsMessage
  <2>3. TypeOK'
    BY <1>5, <2>1, <2>2 DEF Complete
  <2>4. \A x \in Operations : (worker.op # x => Elsewhere(x))'
    BY <1>5, <2>1, <2>2 DEF Complete, Elsewhere, Held, Grounded, Fresh, Started, Terminal
  <2>5. \A x \in Operations : (worker.op = x => Held(x))'
    BY <1>5, <2>1, <2>2 DEF Complete, Elsewhere, Held, Grounded, Fresh, Started, Terminal
  <2>6. \A x \in Operations : Grounded(x)'
    BY <1>5, <2>1, <2>2 DEF Complete, Elsewhere, Held, Grounded, Fresh, Started
  <2>7. WorkerHoldsMessage'
    BY <1>5, <2>1, <2>2 DEF Complete, WorkerHoldsMessage
  <2>8. CallsAreGrounded'
    BY <1>5, <2>1, <2>2 DEF Complete, CallsAreGrounded
  <2>9. QED
    BY <2>1, <2>3, <2>4, <2>5, <2>6, <2>7, <2>8
<1>6. CASE StartGet
  <2>1. QueueKept
    BY <1>0, <1>6 DEF StartGet
  <2>2. worker.op \in Operations /\ Held(worker.op)
    BY <1>6 DEF StartGet, WorkerHoldsMessage
  <2>3. TypeOK'
    BY <1>6, <2>1, <2>2 DEF StartGet
  <2>4. \A x \in Operations : (worker.op # x => Elsewhere(x))'
    BY <1>6, <2>1, <2>2 DEF StartGet, Elsewhere, Held, Grounded, Fresh, Started, Terminal
  <2>5. \A x \in Operations : (worker.op = x => Held(x))'
    BY <1>6, <2>1, <2>2 DEF StartGet, Elsewhere, Held, Grounded, Fresh, Started, Terminal
  <2>6. \A x \in Operations : Grounded(x)'
    BY <1>6, <2>1, <2>2 DEF StartGet, Elsewhere, Held, Grounded, Fresh, Started
  <2>7. WorkerHoldsMessage'
    BY <1>6, <2>1, <2>2 DEF StartGet, WorkerHoldsMessage
  <2>8. CallsAreGrounded'
    BY <1>6, <2>1, <2>2 DEF StartGet, CallsAreGrounded
  <2>9. QED
    BY <2>1, <2>3, <2>4, <2>5, <2>6, <2>7, <2>8
<1>7. CASE StartSave
  <2>1. QueueKept
    BY <1>0, <1>7 DEF StartSave
  <2>2. worker.op \in Operations /\ Held(worker.op)
    BY <1>7 DEF StartSave, WorkerHoldsMessage
  <2>3. TypeOK'
    <3>1. Updated(status[worker.op], "Provisioning") \in StatusRecord
      BY <2>2, UpdatedLemma
    <3>2. status' \in [Operations -> StatusRecord]
      BY <1>7, <2>2, <3>1 DEF StartSave
    <3>3. QED
      BY <1>7, <2>1, <2>2, <3>2 DEF StartSave
  <2>4. \A x \in Operations : (worker.op # x => Elsewhere(x))'
    BY <1>7, <2>1, <2>2 DEF StartSave, Updated, Elsewhere, Held, Grounded, Fresh, Started, Terminal
  <2>5. \A x \in Operations : (worker.op = x => Held(x))'
    BY <1>7, <2>1, <2>2 DEF StartSave, Updated, Elsewhere, Held, Grounded, Fresh, Started, Terminal
  <2>6. ASSUME NEW x \in Operations PROVE Grounded(x)'
    <3>1. CASE x = worker.op /\ status'[x] = Updated(status[x], "Provisioning")
      BY <1>7, <2>2, <3>1 DEF StartSave, Updated, Held, Grounded, Started
    <3>2. CASE status'[x] = status[x]
      BY <1>7, <3>2 DEF StartSave, Grounded, Started
    <3>3. QED
      BY <1>7, <2>2, <3>1, <3>2 DEF StartSave
  <2>7. WorkerHoldsMessage'
    BY <1>7, <2>1, <2>2 DEF StartSave, Updated, WorkerHoldsMessage
  <2>8. CallsAreGrounded'
    BY <1>7, <2>1, <2>2 DEF StartSave, Updated, CallsAreGrounded
  <2>9. QED
    BY <2>1, <2>3, <2>4, <2>5, <2>6, <2>7, <2>8
<1>8. CASE NoController
  <2>1. QueueKept
    BY <1>0, <1>8 DEF NoController
  <2>2. worker.op \in Operations /\ Held(worker.op)
    BY <1>8 DEF NoController, WorkerHoldsMessage
  <2>3. TypeOK'
    BY <1>8, <2>1, <2>2 DEF NoController
  <2>4. \A x \in Operations : (worker.op # x => Elsewhere(x))'
    BY <1>8, <2>1, <2>2 DEF NoController, Elsewhere, Held, Grounded, Fresh, Started, Terminal
  <2>5. \A x \in Operations : (worker.op = x => Held(x))'
    BY <1>8, <2>1, <2>2 DEF NoController, Elsewhere, Held, Grounded, Fresh, Started, Terminal
  <2>6. \A x \in Operations : Grounded(x)'
    BY <1>8, <2>1, <2>2 DEF NoController, Elsewhere, Held, Grounded, Fresh, Started
  <2>7. WorkerHoldsMessage'
    BY <1>8, <2>1, <2>2 DEF NoController, WorkerHoldsMessage
  <2>8. CallsAreGrounded'
    BY <1>8, <2>1, <2>2 DEF NoController, CallsAreGrounded
  <2>9. QED
    BY <2>1, <2>3, <2>4, <2>5, <2>6, <2>7, <2>8
<1>9. CASE ControllerDispatches \/ ControllerDrops
  <2>1. /\ worker.pc = "run"
        /\ worker' = [worker EXCEPT !.pc = "set", !.verdict = "Succeeded"]
        /\ runs' = [runs EXCEPT ![worker.op] = @ + 1]
        /\ UNCHANGED <<status, enqueueing, messages, call>>
        /\ \/ dispatched' = dispatched \cup {worker.op} /\ dropped' = dropped
           \/ dispatched' = dispatched /\ dropped' = dropped \cup {worker.op}
    BY <1>9 DEF ControllerDispatches, ControllerDrops, ControllerReturns, Ran
  <2>2. QueueKept
    BY <1>0, <2>1
  <2>3. worker.op \in Operations /\ Held(worker.op)
    BY <2>1 DEF WorkerHoldsMessage
  <2>4. TypeOK'
    <3>1. runs' \in [Operations -> Nat]
      BY <2>1, <2>3
    <3>2. QED
      BY <2>1, <2>2, <2>3, <3>1
  <2>5. worker'.op = worker.op /\ worker'.pc = "set"
    BY <2>1
  <2>6. ASSUME NEW x \in Operations, worker'.op # x PROVE Elsewhere(x)'
    <3>1. Elsewhere(x) /\ x # worker.op
      BY <2>5, <2>6
    <3>2. /\ runs'[x] = runs[x] /\ (x \in dispatched' <=> x \in dispatched)
          /\ status'[x] = status[x] /\ enqueueing' = enqueueing
      BY <2>1, <3>1
    <3>3. QED
      BY <2>2, <3>1, <3>2 DEF Elsewhere, Fresh, Terminal
  <2>7. ASSUME NEW x \in Operations, worker'.op = x PROVE Held(x)'
    <3>1. Held(x) /\ x = worker.op
      BY <2>5, <2>7
    <3>2. runs'[x] = 1 /\ x \in (dispatched \cup dropped)'
      BY <2>1, <3>1 DEF Held
    <3>3. QED
      BY <2>1, <2>5, <3>1, <3>2 DEF Held, Started
  <2>8. \A x \in Operations : Grounded(x)'
    BY <2>1, <2>3 DEF Held, Grounded, Started
  <2>9. WorkerHoldsMessage'
    BY <2>2, <2>3, <2>5 DEF WorkerHoldsMessage
  <2>10. CallsAreGrounded'
    BY <2>1 DEF CallsAreGrounded
  <2>11. QED
    BY <2>2, <2>4, <2>6, <2>7, <2>8, <2>9, <2>10
<1>10. CASE ControllerFails
  <2>1. QueueKept
    BY <1>0, <1>10 DEF ControllerFails
  <2>2. worker.op \in Operations /\ Held(worker.op)
    BY <1>10 DEF ControllerFails, WorkerHoldsMessage
  <2>3. TypeOK'
    <3>1. runs' \in [Operations -> Nat]
      BY <1>10, <2>2 DEF ControllerFails, Ran
    <3>2. QED
      BY <1>10, <2>1, <2>2, <3>1 DEF ControllerFails
  <2>4. \A x \in Operations : (worker.op # x => Elsewhere(x))'
    BY <1>10, <2>1, <2>2 DEF ControllerFails, Ran, Elsewhere, Held, Grounded, Fresh, Started, Terminal
  <2>5. \A x \in Operations : (worker.op = x => Held(x))'
    BY <1>10, <2>1, <2>2 DEF ControllerFails, Ran, Elsewhere, Held, Grounded, Fresh, Started, Terminal
  <2>6. \A x \in Operations : Grounded(x)'
    BY <1>10, <2>1, <2>2 DEF ControllerFails, Ran, Elsewhere, Held, Grounded, Fresh, Started
  <2>7. WorkerHoldsMessage'
    BY <1>10, <2>1, <2>2 DEF ControllerFails, Ran, WorkerHoldsMessage
  <2>8. CallsAreGrounded'
    BY <1>10, <2>1, <2>2 DEF ControllerFails, Ran, CallsAreGrounded
  <2>9. QED
    BY <2>1, <2>3, <2>4, <2>5, <2>6, <2>7, <2>8
<1>11. CASE ControllerPanics
  <2>1. QueueKept
    BY <1>0, <1>11 DEF ControllerPanics
  <2>2. worker.op \in Operations /\ Held(worker.op)
    BY <1>11 DEF ControllerPanics, WorkerHoldsMessage
  <2>3. TypeOK'
    <3>1. runs' \in [Operations -> Nat]
      BY <1>11, <2>2 DEF ControllerPanics, Ran
    <3>2. QED
      BY <1>11, <2>1, <2>2, <3>1 DEF ControllerPanics
  <2>4. \A x \in Operations : (worker.op # x => Elsewhere(x))'
    BY <1>11, <2>1, <2>2 DEF ControllerPanics, Ran, Elsewhere, Held, Grounded, Fresh, Started, Terminal
  <2>5. \A x \in Operations : (worker.op = x => Held(x))'
    BY <1>11, <2>1, <2>2 DEF ControllerPanics, Ran, Elsewhere, Held, Grounded, Fresh, Started, Terminal
  <2>6. \A x \in Operations : Grounded(x)'
    BY <1>11, <2>1, <2>2 DEF ControllerPanics, Ran, Elsewhere, Held, Grounded, Fresh, Started
  <2>7. WorkerHoldsMessage'
    BY <1>11, <2>1, <2>2 DEF ControllerPanics, Ran, WorkerHoldsMessage
  <2>8. CallsAreGrounded'
    BY <1>11, <2>1, <2>2 DEF ControllerPanics, Ran, CallsAreGrounded
  <2>9. QED
    BY <2>1, <2>3, <2>4, <2>5, <2>6, <2>7, <2>8
<1>12. CASE FinalGet
  <2>1. QueueKept
    BY <1>0, <1>12 DEF FinalGet
  <2>2. worker.op \in Operations /\ Held(worker.op)
    BY <1>12 DEF FinalGet, WorkerHoldsMessage
  <2>3. TypeOK'
    BY <1>12, <2>1, <2>2 DEF FinalGet
  <2>4. \A x \in Operations : (worker.op # x => Elsewhere(x))'
    BY <1>12, <2>1, <2>2 DEF FinalGet, Elsewhere, Held, Grounded, Fresh, Started, Terminal
  <2>5. \A x \in Operations : (worker.op = x => Held(x))'
    BY <1>12, <2>1, <2>2 DEF FinalGet, Elsewhere, Held, Grounded, Fresh, Started, Terminal
  <2>6. \A x \in Operations : Grounded(x)'
    BY <1>12, <2>1, <2>2 DEF FinalGet, Elsewhere, Held, Grounded, Fresh, Started
  <2>7. WorkerHoldsMessage'
    BY <1>12, <2>1, <2>2 DEF FinalGet, WorkerHoldsMessage
  <2>8. CallsAreGrounded'
    BY <1>12, <2>1, <2>2 DEF FinalGet, CallsAreGrounded
  <2>9. QED
    BY <2>1, <2>3, <2>4, <2>5, <2>6, <2>7, <2>8
<1>13. CASE FinalSave
  <2>1. QueueKept
    BY <1>0, <1>13 DEF FinalSave
  <2>2. worker.op \in Operations /\ Held(worker.op)
    BY <1>13 DEF FinalSave, WorkerHoldsMessage
  <2>3. TypeOK'
    <3>1. Updated(status[worker.op], worker.verdict) \in StatusRecord
      BY <2>2, UpdatedLemma
    <3>2. status' \in [Operations -> StatusRecord]
      BY <1>13, <2>2, <3>1 DEF FinalSave
    <3>3. QED
      BY <1>13, <2>1, <2>2, <3>2 DEF FinalSave
  <2>4. \A x \in Operations : (worker.op # x => Elsewhere(x))'
    BY <1>13, <2>1, <2>2 DEF FinalSave, Updated, Elsewhere, Held, Grounded, Fresh, Started, Terminal
  <2>5. \A x \in Operations : (worker.op = x => Held(x))'
    BY <1>13, <2>1, <2>2 DEF FinalSave, Updated, Elsewhere, Held, Grounded, Fresh, Started, Terminal
  <2>6. ASSUME NEW x \in Operations PROVE Grounded(x)'
    <3>1. CASE x = worker.op /\ status'[x] = Updated(status[x], worker.verdict)
      <4>1. /\ status'[x].state = worker.verdict
            /\ worker.verdict = "Failed" => status'[x].error
        BY <2>2, <3>1, UpdatedLemma
      <4>2. x \in dispatched' => Started(x)'
        BY <4>1 DEF Started
      <4>3. worker.verdict = "Succeeded" => x \in (dispatched \cup dropped)'
        BY <1>13, <2>2, <3>1 DEF FinalSave, Held
      <4>4. QED
        BY <4>1, <4>2, <4>3 DEF Grounded
    <3>2. CASE status'[x] = status[x]
      BY <1>13, <3>2 DEF FinalSave, Grounded, Started
    <3>3. QED
      BY <1>13, <2>2, <3>1, <3>2 DEF FinalSave
  <2>7. WorkerHoldsMessage'
    BY <1>13, <2>1, <2>2 DEF FinalSave, Updated, WorkerHoldsMessage
  <2>8. CallsAreGrounded'
    BY <1>13, <2>1, <2>2 DEF FinalSave, Updated, CallsAreGrounded
  <2>9. QED
    BY <2>1, <2>3, <2>4, <2>5, <2>6, <2>7, <2>8
<1>14. ASSUME NEW c \in Calls, NEW o \in Operations, NEW v \in TerminalStates,
              ReportArrives(c, o, v)
      PROVE  IInv'
  <2>1. QueueKept
    BY <1>0, <1>14 DEF ReportArrives
  <2>3. TypeOK'
    BY <1>14, <2>1 DEF ReportArrives
  <2>4. \A x \in Operations : (worker.op # x => Elsewhere(x))'
    BY <1>14, <2>1 DEF ReportArrives, Elsewhere, Held, Grounded, Fresh, Started, Terminal
  <2>5. \A x \in Operations : (worker.op = x => Held(x))'
    BY <1>14, <2>1 DEF ReportArrives, Elsewhere, Held, Grounded, Fresh, Started, Terminal
  <2>6. \A x \in Operations : Grounded(x)'
    BY <1>14, <2>1 DEF ReportArrives, Elsewhere, Held, Grounded, Fresh, Started
  <2>7. WorkerHoldsMessage'
    BY <1>14, <2>1 DEF ReportArrives, WorkerHoldsMessage
  <2>8. CallsAreGrounded'
    BY <1>14, <2>1 DEF ReportArrives, CallsAreGrounded
  <2>9. QED
    BY <2>1, <2>3, <2>4, <2>5, <2>6, <2>7, <2>8
<1>15. ASSUME NEW c \in Calls, ReportGet(c)
      PROVE  IInv'
  <2>1. QueueKept
    BY <1>0, <1>15 DEF ReportGet
  <2>2. call[c].op \in Operations /\ call[c].op \in dispatched /\ Grounded(call[c].op)
    BY <1>15 DEF ReportGet, CallsAreGrounded
  <2>3. TypeOK'
    BY <1>15, <2>1, <2>2 DEF ReportGet
  <2>4. \A x \in Operations : (worker.op # x => Elsewhere(x))'
    BY <1>15, <2>1, <2>2 DEF ReportGet, Elsewhere, Held, Grounded, Fresh, Started, Terminal
  <2>5. \A x \in Operations : (worker.op = x => Held(x))'
    BY <1>15, <2>1, <2>2 DEF ReportGet, Elsewhere, Held, Grounded, Fresh, Started, Terminal
  <2>6. \A x \in Operations : Grounded(x)'
    BY <1>15, <2>1, <2>2 DEF ReportGet, Elsewhere, Held, Grounded, Fresh, Started
  <2>7. WorkerHoldsMessage'
    BY <1>15, <2>1, <2>2 DEF ReportGet, WorkerHoldsMessage
  <2>8. CallsAreGrounded'
    BY <1>15, <2>1, <2>2 DEF ReportGet, CallsAreGrounded
  <2>9. QED
    BY <2>1, <2>3, <2>4, <2>5, <2>6, <2>7, <2>8
<1>16. ASSUME NEW c \in Calls, ReportSave(c)
      PROVE  IInv'
  <2>1. QueueKept
    BY <1>0, <1>16 DEF ReportSave
  <2>2. call[c].op \in Operations /\ call[c].op \in dispatched /\ Grounded(call[c].op)
    BY <1>16 DEF ReportSave, CallsAreGrounded
  <2>3. TypeOK'
    <3>1. Updated(status[call[c].op], call[c].verdict) \in StatusRecord
      BY <2>2, UpdatedLemma
    <3>2. status' \in [Operations -> StatusRecord]
      BY <1>16, <2>2, <3>1 DEF ReportSave
    <3>3. call' \in [Calls -> Call]
      BY <1>16 DEF ReportSave
    <3>4. QED
      BY <1>16, <2>1, <2>2, <3>2, <3>3 DEF ReportSave
  <2>4. \A x \in Operations : (worker.op # x => Elsewhere(x))'
    BY <1>16, <2>1, <2>2 DEF ReportSave, Updated, Elsewhere, Held, Grounded, Fresh, Started, Terminal
  <2>5. \A x \in Operations : (worker.op = x => Held(x))'
    BY <1>16, <2>1, <2>2 DEF ReportSave, Updated, Elsewhere, Held, Grounded, Fresh, Started, Terminal
  <2>6. ASSUME NEW x \in Operations PROVE Grounded(x)'
    <3>1. CASE x = call[c].op /\ status'[x] = Updated(status[x], call[c].verdict)
      <4>1. /\ status'[x].state = call[c].verdict
            /\ call[c].verdict = "Failed" => status'[x].error
        BY <2>2, <3>1, UpdatedLemma
      <4>2. x \in dispatched' => Started(x)'
        BY <4>1 DEF Started
      <4>3. call[c].verdict = "Succeeded" => x \in dispatched'
        BY <1>16, <2>2, <3>1 DEF ReportSave, Held
      <4>4. QED
        BY <4>1, <4>2, <4>3 DEF Grounded
    <3>2. CASE status'[x] = status[x]
      BY <1>16, <3>2 DEF ReportSave, Grounded, Started
    <3>3. QED
      BY <1>16, <2>2, <3>1, <3>2 DEF ReportSave
  <2>7. WorkerHoldsMessage'
    BY <1>16, <2>1, <2>2 DEF ReportSave, Updated, WorkerHoldsMessage
  <2>8. CallsAreGrounded'
    BY <1>16, <2>1, <2>2 DEF ReportSave, Updated, CallsAreGrounded
  <2>9. QED
    BY <2>1, <2>3, <2>4, <2>5, <2>6, <2>7, <2>8
<1>17. ASSUME NEW c \in Calls, ReportDropped(c)
      PROVE  IInv'
  <2>1. QueueKept
    BY <1>0, <1>17 DEF ReportDropped
  <2>2. call[c].op \in Operations /\ call[c].op \in dispatched /\ Grounded(call[c].op)
    BY <1>17 DEF ReportDropped, CallsAreGrounded
  <2>3. TypeOK'
    BY <1>17, <2>1, <2>2 DEF ReportDropped
  <2>4. \A x \in Operations : (worker.op # x => Elsewhere(x))'
    BY <1>17, <2>1, <2>2 DEF ReportDropped, Elsewhere, Held, Grounded, Fresh, Started, Terminal
  <2>5. \A x \in Operations : (worker.op = x => Held(x))'
    BY <1>17, <2>1, <2>2 DEF ReportDropped, Elsewhere, Held, Grounded, Fresh, Started, Terminal
  <2>6. \A x \in Operations : Grounded(x)'
    BY <1>17, <2>1, <2>2 DEF ReportDropped, Elsewhere, Held, Grounded, Fresh, Started
  <2>7. WorkerHoldsMessage'
    BY <1>17, <2>1, <2>2 DEF ReportDropped, WorkerHoldsMessage
  <2>8. CallsAreGrounded'
    BY <1>17, <2>1, <2>2 DEF ReportDropped, CallsAreGrounded
  <2>9. QED
    BY <2>1, <2>3, <2>4, <2>5, <2>6, <2>7, <2>8
<1>18. CASE UNCHANGED vars
  <2>1. QueueKept
    BY <1>0, <1>18 DEF vars
  <2>3. TypeOK'
    BY <1>18, <2>1 DEF vars
  <2>4. \A x \in Operations : (worker.op # x => Elsewhere(x))'
    BY <1>18, <2>1 DEF vars, Elsewhere, Held, Grounded, Fresh, Started, Terminal
  <2>5. \A x \in Operations : (worker.op = x => Held(x))'
    BY <1>18, <2>1 DEF vars, Elsewhere, Held, Grounded, Fresh, Started, Terminal
  <2>6. \A x \in Operations : Grounded(x)'
    BY <1>18, <2>1 DEF vars, Elsewhere, Held, Grounded, Fresh, Started
  <2>7. WorkerHoldsMessage'
    BY <1>18, <2>1 DEF vars, WorkerHoldsMessage
  <2>8. CallsAreGrounded'
    BY <1>18, <2>1 DEF vars, CallsAreGrounded
  <2>9. QED
    BY <2>1, <2>3, <2>4, <2>5, <2>6, <2>7, <2>8
<1>19. QED
  BY <1>1, <1>2, <1>3, <1>4, <1>5, <1>6, <1>7, <1>8, <1>9, <1>10, <1>11, <1>12, <1>13, <1>14, <1>15, <1>16, <1>17, <1>18
     DEF Next, WorkerStep, RequestStep, CallStep

(* Every reachable state satisfies the inductive invariant.                *)
THEOREM Invariance == Spec => []IInv
<1>1. QED
  BY InitIInv, NextIInv, PTL DEF Spec

(* Type correctness of the operation machinery.                            *)
THEOREM TypeCorrect == Spec => []TypeOK
<1>1. IInv => TypeOK
  BY DEF IInv
<1>2. QED
  BY Invariance, <1>1, PTL

(* No accepted operation is lost: its message stays in the queue, or is    *)
(* about to get there, until the status is terminal.                       *)
THEOREM NoOperationLost == Spec => []UnfinishedIsQueued
<1>1. IInv => UnfinishedIsQueued
  BY OperationsAssumption DEF IInv, UnfinishedIsQueued, WorkerHoldsMessage, Elsewhere, Fresh, Terminal, TerminalStates
<1>2. QED
  BY Invariance, <1>1, PTL

(* The controller of an operation runs at most once, although the queue    *)
(* shows the message again after the visibility timeout.                   *)
THEOREM AtMostOnce == Spec => []RunAtMostOnce
<1>1. ASSUME IInv, NEW o \in Operations PROVE runs[o] <= 1
  <2>1. CASE worker.op = o
    <3>1. Held(o) /\ worker.pc # "idle" /\ worker.pc \in WorkerPC
      BY <1>1, <2>1, OperationsAssumption DEF IInv, WorkerHoldsMessage, TypeOK, Worker
    <3>2. QED
      BY <3>1 DEF Held, Fresh, WorkerPC
  <2>2. CASE worker.op # o
    BY <1>1, <2>2 DEF IInv, Elsewhere, Fresh
  <2>3. QED
    BY <2>1, <2>2
<1>2. IInv => RunAtMostOnce
  BY <1>1 DEF RunAtMostOnce
<1>3. QED
  BY Invariance, <1>2, PTL

(* A verdict a client reads is grounded in what happened: Failed comes     *)
(* with an error, and Succeeded is of an operation whose own controller    *)
(* ran to its end and offered the event to a channel, which may have had   *)
(* no room for it.                                                         *)
THEOREM VerdictGrounded == Spec => []VerdictIsGrounded
<1>1. IInv => VerdictIsGrounded
  BY DEF IInv, VerdictIsGrounded, Grounded
<1>2. QED
  BY Invariance, <1>1, PTL

(* No step takes an operation out of its terminal state, for every Save    *)
(* that an Update of the worker or of a report makes in such a state       *)
(* carries a verdict.                                                      *)
THEOREM NeverReopens == Spec => NeverReopened
<1>1. ASSUME IInv, [Next]_vars, NEW o \in Operations, Terminal(o)
      PROVE  Terminal(o)'
  <2>1. CASE status' = status
    BY <1>1, <2>1 DEF Terminal
  <2>2. ASSUME NEW x \in Operations, SaveAccepted(x)
        PROVE  Terminal(o)'
    BY <1>1, <2>2 DEF IInv, TypeOK, SaveAccepted, Terminal, TerminalStates
  <2>3. CASE StartSave
    <3>1. worker.op # o
      BY <1>1, <2>3 DEF IInv, Held, Fresh, StartSave, Terminal, TerminalStates
    <3>2. QED
      BY <1>1, <2>3, <3>1 DEF IInv, TypeOK, StartSave, Terminal
  <2>4. CASE FinalSave
    BY <1>1, <2>4 DEF IInv, TypeOK, Worker, FinalSave, Updated, Terminal
  <2>5. ASSUME NEW c \in Calls, ReportSave(c)
        PROVE  Terminal(o)'
    BY <1>1, <2>5 DEF IInv, TypeOK, Call, ReportSave, Updated, Terminal
  <2>6. QED
    BY <1>1, <2>1, <2>2, <2>3, <2>4, <2>5
       DEF Next, WorkerStep, RequestStep, CallStep, Enqueue, VisibilityExpires, Dequeue,
           StartGet, NoController, ControllerDispatches, ControllerDrops, ControllerReturns,
           ControllerFails, ControllerPanics, FinalGet, Complete, ReportArrives, ReportGet, ReportDropped, vars
<1>2. IInv /\ [Next]_vars => [\A o \in Operations : Terminal(o) => Terminal(o)']_vars
  BY <1>1
<1>3. QED
  BY Invariance, <1>2, PTL DEF Spec, NeverReopened

-----------------------------------------------------------------------------
(* The status a client polls behaves as OperationStatus says.              *)
THEOREM RefinesStatus == Spec => RefinesOperationStatus
<1> DEFINE abs == [o \in Operations |-> status[o].state]
<1>1. Init => Abstract!Init
  BY DEF Init, Abstract!Init
<1>2. ASSUME IInv, [Next]_vars
      PROVE  [Abstract!Next]_abs
  <2> USE <1>1, OperationsAssumption
  <2> USE DEF IInv, TypeOK, StatusRecord
  <2>1. CASE status' = status
    BY <2>1
  <2>2. ASSUME NEW o \in Operations, NEW s \in StatusRecord,
               status' = [status EXCEPT ![o] = s]
        PROVE  abs' = [abs EXCEPT ![o] = s.state]
    BY <1>2, <2>2
  <2>3. ASSUME NEW o \in Operations, SaveAccepted(o)
        PROVE  Abstract!Next
    BY <1>2, <2>2, <2>3 DEF SaveAccepted, Abstract!Next, Abstract!Accept, ProvisioningStates
  <2>4. ASSUME NEW o \in Operations, NEW v \in TerminalStates, Started(o),
               status' = [status EXCEPT ![o] = Updated(@, v)]
        PROVE  Abstract!Next
    <3>1. Updated(status[o], v) \in StatusRecord /\ Updated(status[o], v).state = v
      BY <1>2, UpdatedLemma DEF ProvisioningStates
    <3>2. status' = [status EXCEPT ![o] = Updated(status[o], v)]
      BY <2>4
    <3>3. abs' = [abs EXCEPT ![o] = v]
      BY <2>2, <3>1, <3>2
    <3>4. Abstract!Conclude(o)
      BY <2>4, <3>3 DEF Abstract!Conclude, Started, TerminalStates, Abstract!TerminalStates
    <3>5. QED
      BY <3>4 DEF Abstract!Next
  <2>5. CASE StartSave
    <3>1. worker.op \in Operations /\ status[worker.op].state = "Accepted"
      BY <1>2, <2>5 DEF StartSave, WorkerHoldsMessage, Held, Fresh
    <3>2. Updated(status[worker.op], "Provisioning") \in StatusRecord
          /\ Updated(status[worker.op], "Provisioning").state = "Provisioning"
      BY <1>2, <3>1 DEF Updated, ProvisioningStates
    <3>3. CASE status' = [status EXCEPT ![worker.op] = Updated(status[worker.op], "Provisioning")]
      <4>1. abs' = [abs EXCEPT ![worker.op] = "Provisioning"]
        BY <2>2, <3>1, <3>2, <3>3
      <4>2. PICK o \in Operations : o = worker.op
        BY <3>1
      <4>3. Abstract!Provision(o)
        BY <3>1, <4>1, <4>2 DEF Abstract!Provision
      <4>4. Abstract!Next
        BY <4>3 DEF Abstract!Next
      <4>5. QED
        BY <4>4
    <3>4. QED
      BY <2>1, <2>5, <3>3 DEF StartSave
  <2>6. CASE FinalSave
    <3>1. worker.op \in Operations /\ Started(worker.op) /\ worker.verdict \in TerminalStates
      BY <1>2, <2>6 DEF FinalSave, WorkerHoldsMessage, Held, Worker
    <3>2. QED
      BY <2>1, <2>4, <2>6, <3>1 DEF FinalSave
  <2>7. ASSUME NEW c \in Calls, ReportSave(c)
        PROVE  [Abstract!Next]_abs
    <3>1. call[c].op \in Operations /\ Started(call[c].op) /\ call[c].verdict \in TerminalStates
      BY <1>2, <2>7, OperationsAssumption DEF ReportSave, CallsAreGrounded, Grounded, Call
    <3>2. QED
      BY <2>1, <2>4, <2>7, <3>1 DEF ReportSave
  <2>8. QED
    BY <1>2, <2>1, <2>3, <2>5, <2>6, <2>7
       DEF Next, WorkerStep, RequestStep, CallStep, Enqueue, VisibilityExpires, Dequeue,
           StartGet, NoController, ControllerDispatches, ControllerDrops, ControllerReturns,
           ControllerFails, ControllerPanics, FinalGet, Complete, ReportArrives, ReportGet, ReportDropped, vars
<1>3. QED
  BY Invariance, <1>1, <1>2, PTL DEF Spec, RefinesOperationStatus, Abstract!Spec
=============================================================================
