---------------------------- MODULE ClientProofs ----------------------------
(***************************************************************************)
(* Proofs about Client for any number of requests, resources, environments *)
(* and agents, and whatever faults are allowed.                            *)
(*                                                                         *)
(* Whatever the CLI does is, to ryobid and the agents, something that      *)
(* ControlPlane allows or nothing at all, so what is proved there holds    *)
(* with the CLI too.  The rest is the bookkeeping of a command: the        *)
(* requests it has counted as accepted are, and a deploy that is not       *)
(* through has one for every resource it need not ask for any more.        *)
(* What a wait then reads is true if other clients are polite: the record  *)
(* a deploy polls can say Succeeded only of the deploy's own request       *)
(* (MineAreServed).                                                        *)
(***************************************************************************)
EXTENDS Client, ControlPlaneProofs

(* The PUT of a resource, accepted and queued for the worker.              *)
AcceptedPut(r, o) ==
    /\ o \in Operations /\ request[o].resource = r
    /\ request[o].method = "PUT" /\ request[o].pc = "accepted"

CliTyped ==
    /\ cli \in Cli
    /\ cli.cmd = "none" => cli = NoCommand
    /\ cli.pc = "answer" <=> cli.op # NoOp

(* The request being made is of the command's method.                      *)
AsksRight == cli.pc = "answer" => cli.op \in Operations /\ request[cli.op].method = Method

MineAccepted == \A r \in Resources : cli.mine[r] # NoOp => AcceptedPut(r, cli.mine[r])

(* What a deploy does not ask for any more, it has asked for.              *)
AskedForRest ==
    cli.cmd = "deploy" =>
        /\ cli.pc # "list"
        /\ cli.pc \in {"requests", "answer"} =>
             \A r \in Resources :
                \/ r \in cli.todo \/ cli.mine[r] # NoOp
                \/ cli.pc = "answer" /\ request[cli.op].resource = r

CliIInv == IInv /\ CliTyped /\ AsksRight /\ MineAccepted /\ AskedForRest

-----------------------------------------------------------------------------
(* A step of the CLI or of the control plane is a step of ControlPlane.    *)
LEMMA StepOfControlPlane == ASSUME [CliNext]_allVars PROVE [Next]_vars
<1>1. ASSUME NEW o \in Operations, SendsRequest(o) PROVE Next
  BY <1>1 DEF SendsRequest, Next, RequestStep
<1>2. CASE CliStep
  <2>1. CASE PutsApplication
    BY <2>1 DEF PutsApplication, Next
  <2>2. CASE Ends
    BY <2>2 DEF Ends, Next
  <2>3. CASE ListsResources \/ IsAccepted \/ IsRefused
             \/ \E cmd \in Commands, wait \in BOOLEAN : Invoke(cmd, wait)
    BY <2>3 DEF ListsResources, IsAccepted, IsRefused, Invoke
  <2>4. CASE \E r \in Resources : Polls(r) \/ TimesOut(r)
    BY <2>4 DEF Polls, TimesOut
  <2>5. CASE \E o \in Operations : PutsResource(o) \/ DeletesResource(o)
    BY <1>1, <2>5 DEF PutsResource, DeletesResource
  <2> QED BY <1>2, <2>1, <2>2, <2>3, <2>4, <2>5 DEF CliStep
<1>3. CASE ServerStep
  BY <1>3 DEF ServerStep, Next, RequestStep
<1>4. CASE UNCHANGED allVars
  BY <1>4 DEF allVars
<1> QED BY <1>2, <1>3, <1>4 DEF CliNext

(* Whatever the CLI makes ryobid and the agents do is what ControlPlane    *)
(* allows: a client that makes its requests one after another, polls and   *)
(* gives up adds no behaviour (cmd/ryobi/main.go).                         *)
THEOREM UsesControlPlane == CliSpec => Spec
<1>1. CliInit => Init
  BY DEF CliInit
<1>2. [CliNext]_allVars => [Next]_vars
  BY StepOfControlPlane
<1> QED BY <1>1, <1>2, PTL DEF CliSpec, Spec

(* So no status writer undoes an update the CLI has made.                  *)
THEOREM NoUpdateOfTheCliLost == CliSpec => []SpecIsLastPut
BY UsesControlPlane, NoUpdateLost, PTL

-----------------------------------------------------------------------------
(* The bookkeeping of a command.                                           *)

(* An accepted request stays accepted.                                     *)
LEMMA AcceptedStays ==
    ASSUME TypeOK, [Next]_vars, NEW o \in Operations, request[o].pc = "accepted"
    PROVE  request'[o].pc = "accepted"
<1>1. ASSUME NEW p \in Operations, RequestStep(p) PROVE request'[o].pc = "accepted"
  <2>1. request[p].pc # "accepted" /\ p # o
    BY <1>1 DEF RequestStep, BeginRequest, PutSave, QueueOperation, EnqueueOperation
  <2>2. request'[o] = request[o]
    BY <1>1, <2>1 DEF RequestStep, BeginRequest, PutSave, QueueOperation, EnqueueOperation,
                      TypeOK
  <2> QED BY <2>2
<1>2. CASE UNCHANGED request
  BY <1>2
<1>3. CASE PutApplication \/ DeleteApplication \/ WorkerOutside \/ VisibilityExpires
  BY <1>3 DEF PutApplication, DeleteApplication, WorkerOutside, VisibilityExpires, restVars
<1>4. CASE DispatcherStep
  BY <1>4 DEF DispatcherStep, DispatchGet, DispatchApp, DispatchPlace, DispatchSave, DispatchSend
<1>5. CASE \E e \in Envs : Disconnect(e) \/ Reconnect(e) \/ Crash(e)
  BY <1>5 DEF Disconnect, Reconnect, Crash
<1>6. CASE \E e \in Envs, c \in Calls : Receive(e, c)
  BY <1>6 DEF Receive
<1>7. CASE \E c \in Calls : Execute(c) \/ LoseReport(c) \/ ReportStep(c)
  BY <1>7 DEF Execute, LoseReport, ReportStep, ReportResultGet, ReportResultWrite,
              ReportResultUpdateGet, ReportResultUpdateSave, restVars
<1>8. CASE \E r \in Resources : CheckHealth(r) \/ ReportStatusGet(r) \/ ReportStatusSave(r)
  BY <1>8 DEF CheckHealth, ReportStatusGet, ReportStatusSave
<1> QED BY <1>1, <1>2, <1>3, <1>4, <1>5, <1>6, <1>7, <1>8 DEF Next, vars, restVars

(* Between commands there is nothing to keep.                              *)
LEMMA NoCommandKept ==
    ASSUME cli' = NoCommand
    PROVE  CliTyped' /\ AsksRight' /\ MineAccepted' /\ AskedForRest'
<1>1. NoCommand \in Cli
  BY DEF NoCommand, Cli, SomeOp
<1>2. CliTyped'
  BY <1>1 DEF CliTyped, NoCommand
<1>3. AsksRight' /\ MineAccepted' /\ AskedForRest'
  BY DEF AsksRight, MineAccepted, AskedForRest, NoCommand
<1> QED BY <1>2, <1>3

(* While the command stays as it is, its requests keep what they ask for.  *)
LEMMA ServerKept ==
    ASSUME CliIInv, [Next]_vars, UNCHANGED cli
    PROVE  CliTyped' /\ AsksRight' /\ MineAccepted' /\ AskedForRest'
<1>1. \A o \in Operations : /\ request'[o].resource = request[o].resource
                            /\ request'[o].method = request[o].method
                            /\ request[o].pc = "accepted" => request'[o].pc = "accepted"
  BY RequestsStay, AcceptedStays DEF CliIInv, IInv
<1>2. CliTyped' /\ AsksRight'
  BY <1>1 DEF CliIInv, CliTyped, AsksRight, Method
<1>3. MineAccepted'
  BY <1>1 DEF CliIInv, MineAccepted, AcceptedPut
<1>4. AskedForRest'
  BY <1>1 DEF CliIInv, AskedForRest, AsksRight
<1> QED BY <1>2, <1>3, <1>4

LEMMA CliKept ==
    ASSUME CliIInv, CliStep
    PROVE  CliTyped' /\ AsksRight' /\ MineAccepted' /\ AskedForRest'
<1> DEFINE Goal == CliTyped' /\ AsksRight' /\ MineAccepted' /\ AskedForRest'
<1> USE DEF Commands, DeployCommands, DeleteCommands
<1>1. [Next]_vars
  BY StepOfControlPlane DEF CliNext
<1>2. \A o \in Operations : /\ request'[o].resource = request[o].resource
                            /\ request'[o].method = request[o].method
                            /\ request[o].pc = "accepted" => request'[o].pc = "accepted"
                            /\ request[o].resource \in Resources
  BY <1>1, RequestsStay, AcceptedStays DEF CliIInv, IInv, TypeOK, Request
<1>3. /\ cli \in Cli /\ (cli.cmd = "none" => cli = NoCommand)
      /\ cli.pc = "answer" <=> cli.op # NoOp
      /\ NoCommand \in Cli
  BY DEF CliIInv, CliTyped, NoCommand, Cli, SomeOp
<1>4. \A r \in Resources : cli.mine[r] # NoOp =>
        /\ cli.mine[r] \in Operations /\ request'[cli.mine[r]].resource = r
        /\ request'[cli.mine[r]].method = "PUT" /\ request'[cli.mine[r]].pc = "accepted"
  BY <1>2 DEF CliIInv, MineAccepted, AcceptedPut
<1>5. CASE cli' = NoCommand
  BY <1>5, NoCommandKept
<1>6. ASSUME NEW cmd \in Commands, NEW wait \in BOOLEAN, Invoke(cmd, wait) PROVE Goal
  <2>1. /\ cli' \in Cli /\ cli'.cmd = cmd /\ cli'.op = NoOp
        /\ cli'.pc \in {"list", "app", "requests"} /\ \A r \in Resources : cli'.mine[r] = NoOp
        /\ cli'.cmd = "deploy" => cli'.pc = "app"
    <3>1. cli'.mine = NoCommand.mine
      BY <1>6 DEF Invoke, NoCommand
    <3>2. \A r \in Resources : NoCommand.mine[r] = NoOp
      BY DEF NoCommand
    <3>3. \A pc \in {"list", "app", "requests"} :
            /\ [NoCommand EXCEPT !.cmd = cmd, !.wait = wait, !.pc = pc] \in Cli
            /\ \A r \in Resources :
                 [NoCommand EXCEPT !.cmd = cmd, !.pc = pc, !.todo = {r}] \in Cli
      BY <1>3 DEF Cli
    <3>4. ASSUME cmd # "resourceDelete" PROVE cli' \in Cli
      <4>1. PICK pc \in {"list", "app"} :
              cli' = [NoCommand EXCEPT !.cmd = cmd, !.wait = wait, !.pc = pc]
        BY <1>6, <3>4 DEF Invoke
      <4> QED BY <3>3, <4>1
    <3>5. ASSUME cmd = "resourceDelete" PROVE cli' \in Cli
      <4>1. PICK r \in Resources :
              cli' = [NoCommand EXCEPT !.cmd = cmd, !.pc = "requests", !.todo = {r}]
        BY <1>6, <3>5 DEF Invoke
      <4> QED BY <3>3, <4>1
    <3>6. cli' \in Cli
      BY <3>4, <3>5
    <3> QED BY <1>6, <3>1, <3>2, <3>6 DEF Invoke, NoCommand
  <2> QED BY <2>1 DEF CliTyped, AsksRight, MineAccepted, AcceptedPut, AskedForRest
<1>7. CASE PutsApplication
  <2>1. CASE cli' = [cli EXCEPT !.pc = "requests", !.todo = Resources]
    <3>1. /\ cli' \in Cli /\ cli'.cmd = cli.cmd /\ cli'.op = cli.op /\ cli'.mine = cli.mine
          /\ cli'.pc = "requests" /\ cli'.todo = Resources /\ cli.pc = "app"
      BY <1>3, <1>7, <2>1 DEF PutsApplication, Cli
    <3>2. cli'.op = NoOp /\ cli'.cmd # "none"
      BY <1>3, <3>1 DEF NoCommand
    <3> QED BY <1>4, <3>1, <3>2 DEF CliTyped, AsksRight, MineAccepted, AcceptedPut, AskedForRest
  <2> QED BY <1>5, <1>7, <2>1 DEF PutsApplication, GivesUp
<1>8. CASE ListsResources
  <2>1. CASE cli' = [cli EXCEPT !.pc = "requests", !.todo = Listed, !.polled = Listed]
    <3>1. /\ cli' \in Cli /\ cli'.cmd = cli.cmd /\ cli'.op = cli.op /\ cli'.mine = cli.mine
          /\ cli'.pc = "requests" /\ cli.pc = "list"
      BY <1>3, <1>8, <2>1 DEF ListsResources, Listed, Cli
    <3>2. cli'.op = NoOp /\ cli'.cmd # "none" /\ cli'.cmd # "deploy"
      BY <1>3, <3>1 DEF NoCommand, CliIInv, AskedForRest
    <3> QED BY <1>4, <3>1, <3>2 DEF CliTyped, AsksRight, MineAccepted, AcceptedPut, AskedForRest
  <2> QED BY <1>5, <1>8, <2>1 DEF ListsResources, GivesUp
<1>9. ASSUME NEW o \in Operations, SendsRequest(o) PROVE Goal
  <2> DEFINE k == request[o].resource
  <2>1. /\ cli.pc = "requests" /\ request[o].method = Method /\ o # NoOp
        /\ cli' = [cli EXCEPT !.pc = "answer", !.op = o, !.todo = @ \ {k}]
    BY <1>9, ControlPlaneAssumption DEF SendsRequest
  <2>2. /\ cli' \in Cli /\ cli'.cmd = cli.cmd /\ cli'.op = o /\ cli'.mine = cli.mine
        /\ cli'.pc = "answer" /\ cli'.todo = cli.todo \ {k}
    BY <1>3, <2>1 DEF Cli, SomeOp
  <2>3. cli'.cmd # "none"
    BY <1>3, <2>1, <2>2 DEF NoCommand
  <2>4. CliTyped' /\ AsksRight'
    BY <1>2, <2>1, <2>2, <2>3 DEF CliTyped, AsksRight, Method
  <2>5. MineAccepted'
    BY <1>4, <2>2 DEF MineAccepted, AcceptedPut
  <2>6. AskedForRest'
    BY <1>2, <2>1, <2>2 DEF AskedForRest, CliIInv
  <2> QED BY <2>4, <2>5, <2>6
<1>10. CASE IsAccepted
  <2> DEFINE k == request[cli.op].resource
  <2>1. /\ cli.pc = "answer" /\ request[cli.op].pc = "accepted" /\ UNCHANGED request
        /\ cli' = [cli EXCEPT !.pc = "requests", !.op = NoOp,
                     !.mine[k] = IF Method = "PUT" THEN cli.op ELSE @,
                     !.polled = IF Method = "PUT" THEN @ \cup {k} ELSE @]
    BY <1>10 DEF IsAccepted, vars, restVars
  <2>2. cli.op \in Operations /\ request[cli.op].method = Method /\ k \in Resources
    BY <1>2, <2>1 DEF CliIInv, AsksRight
  <2>3. /\ cli'.cmd = cli.cmd /\ cli'.op = NoOp /\ cli'.pc = "requests" /\ cli'.todo = cli.todo
        /\ cli'.mine = [cli.mine EXCEPT ![k] = IF Method = "PUT" THEN cli.op ELSE @]
        /\ cli'.polled = IF Method = "PUT" THEN cli.polled \cup {k} ELSE cli.polled
        /\ cli' \in Cli
    <3>1. /\ [cli.mine EXCEPT ![k] = IF Method = "PUT" THEN cli.op ELSE @] \in [Resources -> SomeOp]
          /\ (IF Method = "PUT" THEN cli.polled \cup {k} ELSE cli.polled) \in SUBSET Resources
      BY <1>3, <2>2 DEF Cli, SomeOp
    <3>2. cli' = [cli EXCEPT !.pc = "requests", !.op = NoOp,
                    !.mine = [cli.mine EXCEPT ![k] = IF Method = "PUT" THEN cli.op ELSE @],
                    !.polled = IF Method = "PUT" THEN cli.polled \cup {k} ELSE cli.polled]
      BY <1>3, <2>1 DEF Cli
    <3> HIDE DEF k
    <3> QED BY <1>3, <3>1, <3>2 DEF Cli, SomeOp
  <2>4. cli'.cmd # "none"
    BY <1>3, <2>1, <2>3 DEF NoCommand
  <2>5. CliTyped' /\ AsksRight'
    BY <2>3, <2>4 DEF CliTyped, AsksRight
  <2>6. \A r \in Resources : cli'.mine[r] = IF r = k /\ Method = "PUT" THEN cli.op ELSE cli.mine[r]
    BY <1>3, <2>3 DEF Cli
  <2>7. MineAccepted'
    BY <1>4, <2>1, <2>2, <2>6 DEF MineAccepted, AcceptedPut
  <2>8. AskedForRest'
    <3>1. cli.op # NoOp /\ (cli.cmd = "deploy" => Method = "PUT")
      BY <1>3, <2>1 DEF Method
    <3> QED BY <2>1, <2>3, <2>6, <3>1 DEF AskedForRest, CliIInv
  <2> QED BY <2>5, <2>7, <2>8
<1>11. CASE IsRefused
  <2>1. CASE /\ cli' = [cli EXCEPT !.pc = "requests", !.op = NoOp] /\ cli.pc = "answer"
             /\ cli.cmd # "deploy"
    <3>1. /\ cli' \in Cli /\ cli'.cmd = cli.cmd /\ cli'.op = NoOp /\ cli'.mine = cli.mine
          /\ cli'.pc = "requests"
      BY <1>3, <2>1 DEF Cli, SomeOp
    <3>2. cli'.cmd # "none"
      BY <1>3, <2>1, <3>1 DEF NoCommand
    <3> QED BY <1>4, <2>1, <3>1, <3>2 DEF CliTyped, AsksRight, MineAccepted, AcceptedPut, AskedForRest
  <2> QED BY <1>5, <1>11, <2>1 DEF IsRefused, Method
<1>12. ASSUME NEW r \in Resources, Polls(r) \/ TimesOut(r) PROVE Goal
  <2>1. /\ cli'.cmd = cli.cmd /\ cli'.op = cli.op /\ cli'.mine = cli.mine /\ cli'.todo = cli.todo
        /\ cli'.pc = cli.pc /\ cli' \in Cli /\ cli.pc = "requests" /\ UNCHANGED request
    <3>1. UNCHANGED request /\ cli.pc = "requests"
      BY <1>12 DEF Polls, TimesOut, Waits, vars, restVars
    <3>2. CASE Polls(r)
      <4>1. cli' = [cli EXCEPT !.polled = @ \ {r}, !.failed = @ \/ SaysFailed(r)]
        BY <3>2 DEF Polls
      <4> QED BY <1>3, <3>1, <4>1 DEF Cli
    <3>3. CASE TimesOut(r)
      BY <1>3, <3>1, <3>3 DEF TimesOut, Cli
    <3> QED BY <1>12, <3>2, <3>3
  <2>2. cli'.cmd # "none"
    BY <1>3, <2>1 DEF NoCommand
  <2>3. CliTyped' /\ AsksRight' /\ MineAccepted'
    BY <1>3, <1>4, <2>1, <2>2 DEF CliTyped, AsksRight, MineAccepted, AcceptedPut
  <2>4. AskedForRest'
    BY <2>1 DEF AskedForRest, CliIInv
  <2> QED BY <2>3, <2>4
<1>13. CASE Ends
  BY <1>5, <1>13 DEF Ends
<1> QED BY <1>6, <1>7, <1>8, <1>9, <1>10, <1>11, <1>12, <1>13
        DEF CliStep, PutsResource, DeletesResource

LEMMA CliInitIInv == CliInit => CliIInv
<1> SUFFICES ASSUME CliInit PROVE CliIInv
  OBVIOUS
<1>1. IInv
  BY InitIInv DEF CliInit
<1>2. NoCommand \in Cli
  BY DEF NoCommand, Cli, SomeOp
<1> QED BY <1>1, <1>2 DEF CliInit, CliIInv, CliTyped, AsksRight, MineAccepted, AskedForRest,
                           NoCommand

LEMMA CliNextIInv == CliIInv /\ [CliNext]_allVars => CliIInv'
<1> SUFFICES ASSUME CliIInv, [CliNext]_allVars PROVE CliIInv'
  OBVIOUS
<1>1. [Next]_vars /\ IInv'
  BY StepOfControlPlane, NextIInv DEF CliIInv
<1> QED BY <1>1, ServerKept, CliKept DEF CliNext, allVars, CliIInv

(* The bookkeeping is right in every state.                                *)
THEOREM CliInvariant == CliSpec => []CliIInv
BY CliInitIInv, CliNextIInv, PTL DEF CliSpec

(* Every variable keeps its type, those of a command included.             *)
THEOREM CliTypeCorrect == CliSpec => []CliTypeOK
<1>1. CliIInv => CliTypeOK
  BY DEF CliIInv, IInv, CliTyped, CliTypeOK
<1> QED BY <1>1, CliInvariant, PTL

(* A deploy that ends without an error has a PUT of every resource that    *)
(* was accepted, whatever answers got lost: it does not count on one that  *)
(* was refused (cmd/ryobi/main.go, the deploy command).                    *)
DeployAskedForAll ==
    [][Ends /\ cli.cmd = "deploy" =>
         \A r \in Resources : AcceptedPut(r, cli.mine[r])]_allVars

THEOREM DeployIsComplete == CliSpec => DeployAskedForAll
<1>1. CliIInv /\ [CliNext]_allVars =>
        [Ends /\ cli.cmd = "deploy" => \A r \in Resources : AcceptedPut(r, cli.mine[r])]_allVars
  BY DEF CliIInv, Ends, AskedForRest, MineAccepted
<1> QED BY <1>1, CliInvariant, PTL DEF CliSpec, DeployAskedForAll

-----------------------------------------------------------------------------
(* The waits tell the truth, if the users are polite: what                 *)
(* ControlPlaneProofs shows of them is used here.                          *)

(* The spec of o is deployed for r.                                        *)
IsLive(r, o) == \E e \in Envs : infra[e][r] = o

(* Nobody else works for the resource of the PUT o, and a state that says  *)
(* Succeeded is the state of o.                                            *)
Served(o) ==
    LET r == request[o].resource IN
    /\ \A p \in Operations : UnderWay(p) /\ request[p].resource = r => p = o
    /\ record[r].exists /\ record[r].state = "Succeeded" => IsLive(r, o)

(* What a deploy was accepted for stays served, is not asked for again, and*)
(* is live once it has been polled.                                        *)
MineAreServed ==
    cli.cmd = "deploy" =>
      /\ cli.pc = "app" => \A r \in Resources : cli.mine[r] = NoOp
      /\ cli.pc = "answer" =>
           /\ request[cli.op].resource \notin cli.todo
           /\ request[cli.op].pc \in {"queue", "enqueue", "accepted"} => Served(cli.op)
      /\ \A r \in Resources : cli.mine[r] # NoOp =>
           /\ r \notin cli.todo
           /\ Served(cli.mine[r])
           /\ cli.wait /\ ~cli.failed => r \in cli.polled \/ IsLive(r, cli.mine[r])

CliPoliteInv == CliIInv /\ PoliteInv /\ MineAreServed

(* Unless another request for its resource begins, a served PUT stays so,  *)
(* and what is live of it stays live.                                      *)
LEMMA ServedKept ==
    ASSUME PoliteInv, PoliteInv', [Next]_vars,
           NEW o \in Operations, request[o].method = "PUT", Served(o),
           \A p \in Operations : BeginRequest(p) => request[p].resource # request[o].resource
    PROVE  /\ Served(o)'
           /\ IsLive(request[o].resource, o) => \E e \in Envs : infra'[e][request[o].resource] = o
<1> DEFINE r == request[o].resource
<1>1. SentInv /\ IInv
  BY DEF PoliteInv, SentInv
<1>2. r \in Resources /\ \A p \in Operations : request'[p].resource = request[p].resource
  BY <1>1, RequestsStay DEF IInv, TypeOK, Request
<1>3. ASSUME NEW p \in Operations, UnderWay(p)', request'[p].resource = r PROVE p = o
  BY <1>1, <1>2, <1>3, UnderWayStep DEF Served
<1>4. \A c \in Calls : Busy(c) /\ TaskResource(c) = r => task[c].op = o /\ TaskMethod(c) = "PUT"
  BY <1>1, WorkIsUnderWay DEF Served, TaskResource, TaskMethod
<1>5. IsLive(r, o) => \E e \in Envs : infra'[e][r] = o
  BY <1>2, <1>4, PoliteInfra DEF IsLive, Executes, SameWork
<1>6. ASSUME record'[r].exists, record'[r].state = "Succeeded" PROVE \E e \in Envs : infra'[e][r] = o
  <2>1. CASE Keeps(r) \/ HealthSaves(r)
    <3>1. record[r].exists /\ record[r].state = "Succeeded"
      BY <1>1, <1>2, <1>6, <2>1 DEF Keeps, HealthSaves, Matches, SentInv, CopiesAreExact, IsExact
    <3> QED BY <1>5, <3>1 DEF Served
  <2>2. ASSUME NEW c \in Calls, ReportSaves(c, r) PROVE \E e \in Envs : infra'[e][r] = o
    <3>1. /\ Busy(c) /\ task[c].pc = "write" /\ TaskResource(c) = r /\ task[c].success
          /\ infra' = infra
      BY <1>6, <2>2 DEF ReportSaves, WritesResult, SameWork
    <3>2. task[c].env \in Envs
      BY <1>1, <3>1 DEF IInv, TasksAreOfOperations, Busy
    <3> QED BY <1>4, <3>1, <3>2 DEF PoliteInv, ExecutedIsLive
  <2> QED BY <1>1, <1>2, <1>6, <2>1, <2>2, RecordWriters
          DEF Writes, PutSaves, DispatcherSaves, ReportRemoves, Working
<1> QED BY <1>2, <1>3, <1>5, <1>6 DEF Served, IsLive

(* A PUT that has just been saved is served.                               *)
LEMMA ServedWhenSaved ==
    ASSUME PoliteInv, PoliteInv', [Next]_vars,
           NEW o \in Operations, request[o].pc = "save", request'[o].pc = "queue"
    PROVE  Served(o)'
<1> DEFINE r == request[o].resource
<1>1. SentInv /\ IInv
  BY DEF PoliteInv, SentInv
<1>2. r \in Resources /\ request'[o].resource = r
  BY <1>1, RequestsStay DEF IInv, TypeOK, Request
<1>3. PutSave(o)
  BY <1>1, RequestMoves DEF BeginRequest
<1>4. \A p \in Operations : UnderWay(p)' /\ request'[p].resource = request'[o].resource => p = o
  <2>1. UnderWay(o)'
    BY DEF UnderWay
  <2> QED BY <2>1 DEF PoliteInv, OneAtATime
<1>5. record'[r].state = "None"
  <2>1. record' = [record EXCEPT ![r] = Stored(r, [Blank EXCEPT !.spec = o])]
    <3>1. ~(request' = [request EXCEPT ![o].pc = "ended", ![o].read = Blank])
      BY <1>1 DEF IInv, TypeOK, Request
    <3> QED BY <1>3, <3>1 DEF PutSave, SaveUnchecked
  <2>2. Stored(r, [Blank EXCEPT !.spec = o]).state = "None"
    BY DEF Stored, Blank
  <2> QED BY <1>1, <1>2, <2>1, <2>2 DEF IInv, TypeOK
<1> QED BY <1>2, <1>4, <1>5 DEF Served

(* Two requests do not begin at once.                                      *)
LEMMA BeginsOne ==
    ASSUME TypeOK, NEW x \in Operations, NEW y \in Operations, BeginRequest(x), BeginRequest(y)
    PROVE  x = y
BY DEF BeginRequest, TypeOK, Request

(* No request begins but by the CLI.                                       *)
LEMMA ServerBeginsNone ==
    ASSUME TypeOK, ServerStep, NEW p \in Operations
    PROVE  ~BeginRequest(p)
<1> SUFFICES ASSUME BeginRequest(p) PROVE FALSE
  OBVIOUS
<1>1. request[p].pc = "idle" /\ request'[p].pc # "idle"
  BY DEF BeginRequest, TypeOK, Request
<1>2. ASSUME NEW o \in Operations, PutSave(o) \/ QueueOperation(o) \/ EnqueueOperation(o) PROVE FALSE
  BY <1>1, <1>2 DEF PutSave, QueueOperation, EnqueueOperation, TypeOK, Request
<1> QED
  BY <1>1, <1>2
     DEF ServerStep, restVars, WorkerOutside, VisibilityExpires,
         DispatcherStep, DispatchGet, DispatchApp, DispatchPlace, DispatchSave, DispatchSend,
         ReportStep, ReportResultGet, ReportResultWrite, ReportResultUpdateGet,
         ReportResultUpdateSave, Disconnect, Reconnect, Crash, Receive, Execute, LoseReport,
         CheckHealth, ReportStatusGet, ReportStatusSave

(* What a deploy counts on stays so, as long as it asks for nothing twice. *)
LEMMA MineStayServed ==
    ASSUME CliPoliteInv, PoliteInv', [Next]_vars, cli.cmd = "deploy",
           \A p \in Operations : BeginRequest(p) => cli.pc = "requests" /\ request[p].resource \in cli.todo
    PROVE  \A o \in Operations :
             /\ \A r \in Resources : cli.mine[r] = o =>
                  /\ r \notin cli.todo /\ Served(o)'
                  /\ IsLive(r, o) => \E e \in Envs : infra'[e][r] = o
             /\ cli.pc = "answer" /\ cli.op = o /\ request'[o].pc \in {"queue", "enqueue", "accepted"}
                  => Served(o)'
<1>1. PoliteInv /\ IInv /\ MineAreServed /\ CliIInv
  BY DEF CliPoliteInv, CliIInv
<1>2. ASSUME NEW o \in Operations, NEW r \in Resources, cli.mine[r] = o
      PROVE  /\ r \notin cli.todo /\ Served(o)'
             /\ IsLive(r, o) => \E e \in Envs : infra'[e][r] = o
  <2>0. o # NoOp
    BY ControlPlaneAssumption
  <2>1. request[o].resource = r /\ request[o].method = "PUT"
    BY <1>1, <1>2, <2>0 DEF CliIInv, MineAccepted, AcceptedPut
  <2>2. r \notin cli.todo /\ Served(o)
    BY <1>1, <1>2, <2>0 DEF MineAreServed
  <2> QED BY <1>1, <2>1, <2>2, ServedKept
<1>3. ASSUME NEW o \in Operations, cli.pc = "answer", cli.op = o,
             request'[o].pc \in {"queue", "enqueue", "accepted"}
      PROVE  Served(o)'
  <2>1. request[o].method = "PUT"
    BY <1>1, <1>3 DEF CliIInv, AsksRight, Method, DeployCommands
  <2>2. \A p \in Operations : ~BeginRequest(p)
    BY <1>3
  <2>3. CASE request[o].pc \in {"queue", "enqueue", "accepted"}
    <3>1. Served(o)
      BY <1>1, <1>3, <2>3 DEF MineAreServed
    <3> QED BY <1>1, <2>1, <2>2, <3>1, ServedKept
  <2>4. CASE request[o].pc = "save" /\ request'[o].pc = "queue"
    BY <1>1, <2>4, ServedWhenSaved
  <2> QED BY <1>1, <1>3, <2>2, <2>3, <2>4, RequestMoves
<1> QED BY <1>2, <1>3

(* Every step of the CLI and of the server keeps that.                     *)
LEMMA MineAreServedKept ==
    ASSUME CliPoliteInv, PoliteInv', [CliNext]_allVars
    PROVE  MineAreServed'
<1>0. /\ PoliteInv /\ IInv /\ TypeOK /\ MineAreServed /\ CliIInv /\ [Next]_vars
      /\ cli \in Cli /\ (cli.cmd = "none" => cli = NoCommand)
  BY StepOfControlPlane DEF CliPoliteInv, CliIInv, IInv, CliTyped
<1>1. CASE cli' = NoCommand
  BY <1>1 DEF MineAreServed, NoCommand
<1>2. CASE UNCHANGED cli /\ \A p \in Operations : ~BeginRequest(p)
  <2> SUFFICES ASSUME cli.cmd = "deploy" PROVE MineAreServed'
    BY <1>2 DEF MineAreServed
  <2>1. cli.pc = "answer" => cli.op \in Operations
    BY <1>0 DEF CliIInv, AsksRight
  <2>2. cli.pc = "answer" => request'[cli.op].resource = request[cli.op].resource
    BY <1>0, <2>1, RequestsStay
  <2>3. \A r \in Resources : cli.mine[r] # NoOp => cli.mine[r] \in Operations
    BY <1>0 DEF CliIInv, MineAccepted, AcceptedPut
  <2>4. \A o \in Operations :
          /\ \A r \in Resources : cli.mine[r] = o => r \notin cli.todo /\ Served(o)'
          /\ cli.pc = "answer" /\ cli.op = o /\ request'[o].pc \in {"queue", "enqueue", "accepted"}
               => Served(o)'
    BY <1>0, <1>2, MineStayServed
  <2>5. cli.pc = "answer" /\ request'[cli'.op].pc \in {"queue", "enqueue", "accepted"} => Served(cli.op)'
    BY <1>0, <1>2, <2>1, <2>4 DEF Served
  <2>6. \A r \in Resources : cli.mine[r] # NoOp => r \notin cli.todo /\ Served(cli.mine[r])'
    BY <1>0, <1>2, <2>3, <2>4 DEF Served
  <2>7. \A r \in Resources : cli.mine[r] # NoOp /\ cli.wait /\ ~cli.failed =>
          r \in cli.polled \/ \E e \in Envs : infra'[e][r] = cli.mine[r]
    BY <1>0, <1>2, <2>3, MineStayServed DEF MineAreServed
  <2> QED BY <1>0, <1>2, <2>2, <2>5, <2>6, <2>7 DEF MineAreServed, IsLive
<1>3. ASSUME NEW cmd \in Commands, NEW wait \in BOOLEAN, Invoke(cmd, wait) PROVE MineAreServed'
  <2>1. /\ cli'.cmd = cmd /\ cli'.mine = NoCommand.mine /\ cli'.pc \in {"list", "app", "requests"}
    BY <1>3 DEF Invoke, NoCommand
  <2>2. \A r \in Resources : NoCommand.mine[r] = NoOp
    BY DEF NoCommand
  <2> QED BY <2>1, <2>2 DEF MineAreServed
<1>4. CASE PutsApplication /\ cli' = [cli EXCEPT !.pc = "requests", !.todo = Resources]
  <2>1. cli'.cmd = cli.cmd /\ cli'.mine = cli.mine /\ cli'.pc = "requests" /\ cli.pc = "app"
    BY <1>0, <1>4 DEF PutsApplication, Cli
  <2> QED BY <1>0, <2>1 DEF MineAreServed
<1>5. CASE ListsResources
  <2>1. cli.cmd # "deploy"
    BY <1>0, <1>5 DEF ListsResources, CliIInv, AskedForRest
  <2>2. CASE cli' = [cli EXCEPT !.pc = "requests", !.todo = Listed, !.polled = Listed]
    <3>1. cli'.cmd = cli.cmd
      BY <1>0, <2>2 DEF Cli
    <3> QED BY <2>1, <3>1 DEF MineAreServed
  <2> QED BY <1>1, <1>5, <2>2 DEF ListsResources, GivesUp
<1>6. ASSUME NEW o \in Operations, SendsRequest(o) PROVE MineAreServed'
  <2> DEFINE k == request[o].resource
  <2>1. /\ cli.pc = "requests" /\ k \in cli.todo /\ BeginRequest(o) /\ request[o].method = Method
        /\ cli' = [cli EXCEPT !.pc = "answer", !.op = o, !.todo = @ \ {k}]
    BY <1>6 DEF SendsRequest
  <2>2. /\ cli'.cmd = cli.cmd /\ cli'.op = o /\ cli'.mine = cli.mine /\ cli'.pc = "answer"
        /\ cli'.todo = cli.todo \ {k} /\ cli'.wait = cli.wait /\ cli'.failed = cli.failed
        /\ cli'.polled = cli.polled
    BY <1>0, <2>1 DEF Cli
  <2> SUFFICES ASSUME cli.cmd = "deploy" PROVE MineAreServed'
    BY <2>2 DEF MineAreServed
  <2>3. \A p \in Operations : BeginRequest(p) => cli.pc = "requests" /\ request[p].resource \in cli.todo
    BY <1>0, <2>1, BeginsOne
  <2>4. request'[o].resource = k /\ request'[o].pc = "save" /\ k \notin cli'.todo
    BY <1>0, <2>1, <2>2 DEF BeginRequest, TypeOK, Request, Method, DeployCommands
  <2>5. \A r \in Resources : cli.mine[r] # NoOp => cli.mine[r] \in Operations
    BY <1>0 DEF CliIInv, MineAccepted, AcceptedPut
  <2>6. \A r \in Resources, x \in Operations : cli'.mine[r] = x => r \notin cli'.todo /\ Served(x)'
    BY <1>0, <2>2, <2>3, MineStayServed
  <2>7. \A r \in Resources : cli'.mine[r] # NoOp /\ cli'.wait /\ ~cli'.failed =>
          r \in cli'.polled \/ \E e \in Envs : infra'[e][r] = cli'.mine[r]
    BY <1>0, <2>2, <2>3, <2>5, MineStayServed DEF MineAreServed
  <2>8. \A r \in Resources : cli'.mine[r] # NoOp => Served(cli.mine[r])'
    BY <2>2, <2>5, <2>6 DEF Served
  <2> QED BY <2>2, <2>4, <2>5, <2>6, <2>7, <2>8 DEF MineAreServed, IsLive
<1>7. CASE IsAccepted
  <2> DEFINE k == request[cli.op].resource
  <2>1. /\ cli.pc = "answer" /\ request[cli.op].pc = "accepted" /\ UNCHANGED vars
        /\ cli' = [cli EXCEPT !.pc = "requests", !.op = NoOp,
                     !.mine[k] = IF Method = "PUT" THEN cli.op ELSE @,
                     !.polled = IF Method = "PUT" THEN @ \cup {k} ELSE @]
    BY <1>7 DEF IsAccepted
  <2>2. /\ cli'.cmd = cli.cmd /\ cli'.pc = "requests" /\ cli'.todo = cli.todo
        /\ cli'.wait = cli.wait /\ cli'.failed = cli.failed
        /\ cli'.mine = [cli.mine EXCEPT ![k] = IF Method = "PUT" THEN cli.op ELSE @]
        /\ cli'.polled = IF Method = "PUT" THEN cli.polled \cup {k} ELSE cli.polled
    BY <1>0, <2>1 DEF Cli
  <2> SUFFICES ASSUME cli.cmd = "deploy" PROVE MineAreServed'
    BY <2>2 DEF MineAreServed
  <2>3. Method = "PUT" /\ cli.op \in Operations /\ k \in Resources
    BY <1>0, <2>1 DEF Method, DeployCommands, CliIInv, AsksRight, TypeOK, Request
  <2>4. \A r \in Resources : cli'.mine[r] = IF r = k THEN cli.op ELSE cli.mine[r]
    BY <1>0, <2>2, <2>3 DEF Cli
  <2>5. \A p \in Operations : ~BeginRequest(p)
    BY <1>0, <2>1 DEF vars, restVars, BeginRequest, TypeOK, Request
  <2>6. \A o \in Operations : /\ o = cli.op => Served(o)'
                              /\ \A r \in Resources : cli.mine[r] = o => r \notin cli.todo /\ Served(o)'
    BY <1>0, <2>1, <2>5, MineStayServed DEF vars, restVars
  <2>7. k \notin cli.todo /\ UNCHANGED infra
    BY <1>0, <2>1 DEF MineAreServed, vars, restVars
  <2>8. \A r \in Resources : cli.mine[r] # NoOp =>
          /\ cli.mine[r] \in Operations
          /\ cli.wait /\ ~cli.failed => r \in cli.polled \/ IsLive(r, cli.mine[r])
    BY <1>0 DEF MineAreServed, CliIInv, MineAccepted, AcceptedPut
  <2>9. ASSUME NEW r \in Resources, cli'.mine[r] # NoOp
        PROVE  /\ r \notin cli'.todo
               /\ \A o \in Operations : o = cli'.mine[r] => Served(o)'
               /\ cli'.mine[r] \in Operations
               /\ cli'.wait /\ ~cli'.failed => r \in cli'.polled \/ \E e \in Envs : infra'[e][r] = cli'.mine[r]
    <3>1. CASE r = k
      BY <2>2, <2>3, <2>4, <2>6, <2>7, <3>1
    <3>2. CASE r # k
      BY <2>2, <2>3, <2>4, <2>6, <2>7, <2>8, <2>9, <3>2 DEF IsLive
    <3> QED BY <3>1, <3>2
  <2>10. \A r \in Resources : cli'.mine[r] # NoOp => Served(cli.mine[r])'
    BY <2>9 DEF Served
  <2> QED BY <2>2, <2>9, <2>10 DEF MineAreServed, IsLive
<1>8. CASE IsRefused /\ cli' = [cli EXCEPT !.pc = "requests", !.op = NoOp]
  <2>1. /\ cli.pc = "answer" /\ cli'.cmd = cli.cmd /\ cli'.pc = "requests" /\ cli'.mine = cli.mine
        /\ cli.cmd # "deploy"
    <3>1. cli.op # NoOp /\ cli'.op = NoOp /\ cli.pc = "answer" /\ cli'.cmd = cli.cmd
      BY <1>0, <1>8 DEF IsRefused, Cli, CliIInv, CliTyped
    <3>2. cli.cmd = "deploy" => cli' = NoCommand
      BY <1>8 DEF IsRefused, Method, DeployCommands
    <3>3. NoCommand.cmd # "deploy"
      BY DEF NoCommand
    <3> QED BY <1>0, <1>8, <3>1, <3>2, <3>3 DEF Cli
  <2> QED BY <2>1 DEF MineAreServed
<1>9. ASSUME NEW x \in Resources, Polls(x) \/ TimesOut(x) PROVE MineAreServed'
  <2>1. /\ cli'.cmd = cli.cmd /\ cli'.pc = cli.pc /\ cli.pc = "requests" /\ cli'.mine = cli.mine
        /\ cli'.todo = cli.todo /\ cli'.wait = cli.wait /\ cli'.polled = cli.polled \ {x}
        /\ UNCHANGED vars
        /\ ~cli'.failed => ~cli.failed
             /\ (cli.cmd = "deploy" => record[x].exists /\ record[x].state = "Succeeded")
    <3>1. CASE Polls(x)
      <4>1. /\ cli' = [cli EXCEPT !.polled = @ \ {x}, !.failed = @ \/ SaysFailed(x)]
            /\ cli.cmd = "deploy" => WaitForResource(x)
            /\ UNCHANGED vars /\ cli.pc = "requests"
        BY <3>1 DEF Polls, Waits, Method, DeployCommands
      <4>2. /\ cli'.cmd = cli.cmd /\ cli'.pc = cli.pc /\ cli'.mine = cli.mine
            /\ cli'.todo = cli.todo /\ cli'.wait = cli.wait /\ cli'.polled = cli.polled \ {x}
            /\ cli'.failed = (cli.failed \/ SaysFailed(x))
        BY <1>0, <4>1 DEF Cli
      <4> QED BY <4>1, <4>2 DEF WaitForResource, SaysFailed, Found
    <3>2. CASE TimesOut(x)
      BY <1>0, <3>2 DEF TimesOut, Waits, Cli
    <3> QED BY <1>9, <3>1, <3>2
  <2> SUFFICES ASSUME cli.cmd = "deploy" PROVE MineAreServed'
    BY <2>1 DEF MineAreServed
  <2>2. \A p \in Operations : ~BeginRequest(p)
    BY <1>0, <2>1 DEF vars, restVars, BeginRequest, TypeOK, Request
  <2>3. \A r \in Resources : cli.mine[r] # NoOp => r \notin cli.todo /\ Served(cli.mine[r])'
    <3>1. \A r \in Resources : cli.mine[r] # NoOp => cli.mine[r] \in Operations
      BY <1>0 DEF CliIInv, MineAccepted, AcceptedPut
    <3>2. \A r \in Resources, o \in Operations : cli.mine[r] = o => r \notin cli.todo /\ Served(o)'
      BY <1>0, <2>2, MineStayServed
    <3> QED BY <2>1, <3>1, <3>2 DEF Served
  <2>4. \A r \in Resources : cli.mine[r] # NoOp /\ cli'.wait /\ ~cli'.failed =>
          r \in cli'.polled \/ \E e \in Envs : infra'[e][r] = cli.mine[r]
    <3> SUFFICES ASSUME NEW r \in Resources, cli.mine[r] # NoOp, cli'.wait, ~cli'.failed, r \notin cli'.polled
                 PROVE  \E e \in Envs : infra'[e][r] = cli.mine[r]
      OBVIOUS
    <3>1. UNCHANGED infra
      BY <2>1 DEF vars, restVars
    <3>2. AcceptedPut(r, cli.mine[r]) /\ Served(cli.mine[r])
      BY <1>0 DEF CliIInv, MineAccepted, MineAreServed
    <3>3. CASE r = x
      BY <2>1, <3>1, <3>2, <3>3 DEF Served, AcceptedPut, IsLive
    <3>4. CASE r # x
      BY <1>0, <2>1, <3>1, <3>4 DEF MineAreServed, IsLive
    <3> QED BY <3>3, <3>4
  <2> QED BY <2>1, <2>3, <2>4 DEF MineAreServed, IsLive
<1>10. CASE CliStep
  <2>1. CASE Ends \/ PutsApplication
    BY <1>1, <1>4, <2>1 DEF Ends, PutsApplication, GivesUp
  <2>2. CASE IsRefused
    BY <1>1, <1>8, <2>2 DEF IsRefused
  <2> QED BY <1>3, <1>5, <1>6, <1>7, <1>9, <1>10, <2>1, <2>2 DEF CliStep, PutsResource, DeletesResource
<1>11. CASE ServerStep /\ UNCHANGED cli
  BY <1>0, <1>2, <1>11, ServerBeginsNone
<1>12. CASE UNCHANGED allVars
  <2>1. \A p \in Operations : ~BeginRequest(p)
    BY <1>0, <1>12 DEF allVars, vars, restVars, BeginRequest, TypeOK, Request
  <2> QED BY <1>2, <1>12, <2>1 DEF allVars
<1> QED BY <1>10, <1>11, <1>12 DEF CliNext

(* No command has begun at the start.                                      *)
LEMMA CliPoliteInit == CliInit => CliPoliteInv
BY CliInitIInv, PoliteInit DEF CliInit, CliPoliteInv, MineAreServed, NoCommand

(* Every step of the CLI and of the server keeps all of it.                *)
LEMMA CliPoliteNext == Polite /\ CliPoliteInv /\ [CliNext]_allVars => CliPoliteInv'
<1> SUFFICES ASSUME Polite, CliPoliteInv, [CliNext]_allVars PROVE CliPoliteInv'
  OBVIOUS
<1>1. CliIInv' /\ PoliteInv'
  BY CliNextIInv, StepOfControlPlane, PoliteNext DEF CliPoliteInv
<1>2. MineAreServed'
  BY <1>1, MineAreServedKept
<1> QED BY <1>1, <1>2 DEF CliPoliteInv

(* A deploy of the CLI is served as long as it runs: if all other clients  *)
(* wait as it does, nobody works for what it has asked for but its own     *)
(* operations.                                                             *)
THEOREM CliPoliteInvariance == ASSUME Polite PROVE CliSpec => []CliPoliteInv
BY CliPoliteInit, CliPoliteNext, PTL DEF CliSpec

(* A deploy that waits and reports success has what it asked for live:     *)
(* every resource of the manifest, with the spec of this very deploy       *)
(* (cmd/ryobi/main.go, WaitForResource) - if the other clients wait, health*)
(* reports and the choice of environments notwithstanding.                 *)
THEOREM SaidDeployedMeansLive == ASSUME Polite PROVE CliSpec => SaidDeployedIsLive
<1>1. CliPoliteInv /\ [CliNext]_allVars =>
        [ Ends /\ cli.cmd = "deploy" /\ cli.wait /\ ~cli.failed =>
            \A r \in Resources :
              /\ cli.mine[r] # NoOp
              /\ \E e \in Envs : infra[e][r] = cli.mine[r] ]_allVars
  BY DEF CliPoliteInv, CliIInv, AskedForRest, MineAreServed, Ends, IsLive
<1> QED BY <1>1, CliPoliteInvariance, PTL DEF CliSpec, SaidDeployedIsLive

(* A resource the CLI does not find any more is gone (cmd/ryobi/main.go,   *)
(* WaitForResourceDeletion), if the other clients wait and the application *)
(* names its environment.                                                  *)
THEOREM NotFoundMeansGone == ASSUME Polite, OneHome PROVE CliSpec => NotFoundIsGone
<1>1. HomeInv /\ [CliNext]_allVars =>
        [ \A r \in Resources :
            ( /\ cli.cmd = "appDelete" /\ cli'.cmd = "appDelete"
              /\ r \in cli.polled \ cli'.polled /\ ~cli'.failed
              /\ ~record[r].exists )
              => \A e \in Envs : infra[e][r] = NoOp ]_allVars
  BY DEF HomeInv, AbsentIsGone, AtHome
<1> QED BY <1>1, UsesControlPlane, HomeInvariance, PTL DEF CliSpec, NotFoundIsGone
=============================================================================
