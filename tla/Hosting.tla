------------------------------ MODULE Hosting ------------------------------
(***************************************************************************)
(* The life of the program ryobid: hosting.Host runs the services, each in *)
(* a goroutine, collects their endings from a channel and gives up on      *)
(* those that do not end within a timeout after the signal.  The services  *)
(* are the HTTP server, the gRPC server, whose graceful stop waits for the *)
(* agents' streams, and the worker, which a panicking controller ends.     *)
(* main ends the process at the signal; a program that waits for the       *)
(* channel RunAsync returns is the other kind of caller modelled.          *)
(***************************************************************************)
EXTENDS Integers, Sequences, FiniteSets

CONSTANTS
    Services,      (* Host.Services                                         *)
    Grpc, Worker,  (* the gRPC service and the worker, if among them        *)
    Names,         (* what Service.Name returns                             *)
    Namings        (* the names services may have: ryobid's are distinct    *)

ASSUME HostingAssumption ==
    /\ IsFiniteSet(Services)
    /\ Namings \subseteq [Services -> Names]

VARIABLES
    nameOf,        (* service -> name                                       *)
    caller,        (* does main wait for the host to stop?                  *)
    process,       (* the program                                           *)
    signaled,      (* ctx is done                                           *)
    service,       (* the services' goroutines                              *)
    failed,        (* services whose Run returned an error or panicked      *)
    streams,       (* is a WatchResources call being served?                *)
    host,          (* the goroutine in Host.Run                             *)
    running,       (* names the loop of Run waits for                       *)
    messages,      (* buffered channel of endings                           *)
    serviceErrors, (* buffered channel of failures, for the caller          *)
    timeout,       (* the goroutine that waits for ctx and then some time   *)
    result         (* what Run returned                                     *)

vars == <<nameOf, caller, process, signaled, service, failed, streams, host,
          running, messages, serviceErrors, timeout, result>>

Message == [name : Names, err : BOOLEAN]

TypeOK ==
    /\ nameOf   \in Namings
    /\ caller   \in {"exits", "waits"}
    /\ process  \in {"up", "exited", "crashed"}
    /\ signaled \in BOOLEAN
    /\ service  \in [Services -> {"unborn", "runs", "stopping", "sends", "ended"}]
    /\ failed   \subseteq Services
    /\ streams  \in BOOLEAN
    /\ host     \in {"checks", "loops", "returned"}
    /\ running  \subseteq Names
    /\ messages \in Seq(Message) /\ Len(messages) <= Cardinality(Services)
    /\ serviceErrors \in Seq(Names) /\ Len(serviceErrors) <= Cardinality(Services)
    /\ timeout  \in {"unborn", "waits", "sent"}
    /\ result   \in {"none", "nil", "noService", "duplicate", "timeout"}

Init ==
    /\ nameOf   \in Namings
    /\ caller   \in {"exits", "waits"}
    /\ process  = "up"
    /\ signaled = FALSE
    /\ service  = [s \in Services |-> "unborn"]
    /\ failed   = {}
    /\ streams  = FALSE
    /\ host     = "checks"
    /\ running  = {}
    /\ messages = <<>>
    /\ serviceErrors = <<>>
    /\ timeout  = "unborn"
    /\ result   = "none"

hostVars == <<host, running, messages, serviceErrors, timeout, result>>
given    == <<nameOf, caller>>

(* Return of Run: both channels are closed by its deferred calls.          *)
Returns(r) == host' = "returned" /\ result' = r

MutantHostStarts ==
    /\ process = "up" /\ host = "checks"
    /\ IF Services = {} THEN Returns("noService") /\ UNCHANGED <<running, service, timeout>>
       ELSE /\ host' = "loops"
            /\ running' = {nameOf[s] : s \in Services}
            /\ service' = [s \in Services |-> "runs"]
            /\ timeout' = "waits"
            /\ UNCHANGED result
    /\ UNCHANGED <<given, process, signaled, failed, streams, messages, serviceErrors>>

(* Run up to its loop: checks, then a goroutine for each service and one   *)
(* for the timeout.  Nothing here waits.                                   *)
HostStarts ==
    /\ process = "up" /\ host = "checks"
    /\ IF Services = {} THEN Returns("noService") /\ UNCHANGED <<running, service, timeout>>
       ELSE IF \E s, t \in Services : s # t /\ nameOf[s] = nameOf[t]
       THEN Returns("duplicate") /\ UNCHANGED <<running, service, timeout>>
       ELSE /\ host' = "loops"
            /\ running' = {nameOf[s] : s \in Services}
            /\ service' = [s \in Services |-> "runs"]
            /\ timeout' = "waits"
            /\ UNCHANGED result
    /\ UNCHANGED <<given, process, signaled, failed, streams, messages, serviceErrors>>

-----------------------------------------------------------------------------
(* Service.Run.  A server may fail to listen or to serve; the worker fails *)
(* when a controller panics, which the goroutine's recover makes a failure.*)
ServiceFails(s) ==
    /\ process = "up" /\ service[s] = "runs"
    /\ service' = [service EXCEPT ![s] = "sends"]
    /\ failed' = failed \cup {s}
    /\ UNCHANGED <<given, process, signaled, streams, hostVars>>

(* After the signal the HTTP server is closed and the worker leaves its    *)
(* loop; the gRPC server stops to accept and waits for running calls.      *)
(* What they return, nil or the error of ctx, runService makes nil.        *)
GracefulStop ==
    /\ process = "up" /\ Grpc \in Services /\ service[Grpc] = "runs"
    /\ signaled
    /\ service' = [service EXCEPT ![Grpc] = "stopping"]
    /\ UNCHANGED <<given, process, signaled, failed, streams, hostVars>>

ServiceStops(s) ==
    /\ process = "up" /\ signaled
    /\ IF s = Grpc THEN service[s] = "stopping" /\ ~streams ELSE service[s] = "runs"
    /\ service' = [service EXCEPT ![s] = "sends"]
    /\ UNCHANGED <<given, process, signaled, failed, streams, hostVars>>

(* Agents open and end their streams.                                      *)
AgentWatches ==
    /\ process = "up" /\ Grpc \in Services /\ service[Grpc] = "runs"
    /\ ~streams
    /\ streams' = TRUE
    /\ UNCHANGED <<given, process, signaled, service, failed, hostVars>>

AgentLeaves ==
    /\ process = "up" /\ streams
    /\ streams' = FALSE
    /\ UNCHANGED <<given, process, signaled, service, failed, hostVars>>

MutantServiceSendsTwice(s) ==
    LET ending == [name |-> nameOf[s], err |-> s \in failed] IN
    /\ process = "up" /\ service[s] = "sends"
    /\ IF host = "returned"
       THEN process' = "crashed" /\ UNCHANGED <<service, messages>>
       ELSE /\ service' = [service EXCEPT ![s] = "ended"]
            /\ messages' = IF s \in failed THEN messages \o <<ending, ending>>
                                           ELSE Append(messages, ending)
            /\ UNCHANGED process
    /\ UNCHANGED <<given, signaled, failed, streams, host, running,
                   serviceErrors, timeout, result>>

MutantServicePanicsSilently(s) ==
    LET ending == [name |-> nameOf[s], err |-> s \in failed] IN
    /\ process = "up" /\ service[s] = "sends"
    /\ IF host = "returned"
       THEN process' = "crashed" /\ UNCHANGED <<service, messages>>
       ELSE /\ service' = [service EXCEPT ![s] = "ended"]
            /\ messages' = IF s = Worker /\ s \in failed THEN messages
                                           ELSE Append(messages, ending)
            /\ UNCHANGED process
    /\ UNCHANGED <<given, signaled, failed, streams, host, running,
                   serviceErrors, timeout, result>>

(* The goroutine's send.  Once Run has returned the channel is closed: the *)
(* send panics, the recover sends again, and that panic ends the process.  *)
ServiceSends(s) ==
    /\ process = "up" /\ service[s] = "sends"
    /\ IF host = "returned"
       THEN process' = "crashed" /\ UNCHANGED <<service, messages>>
       ELSE /\ service' = [service EXCEPT ![s] = "ended"]
            /\ messages' = Append(messages, [name |-> nameOf[s], err |-> s \in failed])
            /\ UNCHANGED process
    /\ UNCHANGED <<given, signaled, failed, streams, host, running,
                   serviceErrors, timeout, result>>

-----------------------------------------------------------------------------
MutantHostReceives ==
    LET message == Head(messages) IN
    /\ process = "up" /\ host = "loops"
    /\ running # {} /\ messages # <<>>
    /\ messages' = Tail(messages)
    /\ running' = running \ {message.name}
    /\ serviceErrors' = IF message.err /\ ~signaled THEN Append(serviceErrors, message.name)
                                                   ELSE serviceErrors
    /\ UNCHANGED <<given, process, signaled, service, failed, streams, host,
                   timeout, result>>

(* An iteration of the loop.  With both channels ready Go picks either.    *)
HostReceives ==
    LET message == Head(messages) IN
    /\ process = "up" /\ host = "loops"
    /\ running # {} /\ messages # <<>>
    /\ message.err => Len(serviceErrors) < Cardinality(Services)
    /\ messages' = Tail(messages)
    /\ running' = running \ {message.name}
    /\ serviceErrors' = IF message.err THEN Append(serviceErrors, message.name)
                                       ELSE serviceErrors
    /\ UNCHANGED <<given, process, signaled, service, failed, streams, host,
                   timeout, result>>

MutantHostWaitsOn ==
    /\ process = "up" /\ host = "loops"
    /\ running = {} /\ Returns("nil")
    /\ UNCHANGED <<given, process, signaled, service, failed, streams, running,
                   messages, serviceErrors, timeout>>

HostReturns ==
    /\ process = "up" /\ host = "loops"
    /\ \/ running = {} /\ Returns("nil")
       \/ running # {} /\ timeout = "sent" /\ Returns("timeout")
    /\ UNCHANGED <<given, process, signaled, service, failed, streams, running,
                   messages, serviceErrors, timeout>>

(* ShutdownTimeout after the signal.                                       *)
TimeoutSends ==
    /\ process = "up"
    /\ timeout = "waits" /\ signaled
    /\ timeout' = "sent"
    /\ UNCHANGED <<given, process, signaled, service, failed, streams, host,
                   running, messages, serviceErrors, result>>

-----------------------------------------------------------------------------
(* SIGINT or SIGTERM.                                                      *)
Signal ==
    /\ process = "up" /\ ~signaled
    /\ signaled' = TRUE
    /\ UNCHANGED <<given, process, service, failed, streams, hostVars>>

(* ryobid's main drops both channels and returns at the signal; another    *)
(* caller reads the first, on which RunAsync sends what Run returned.      *)
MainReturns ==
    /\ process = "up"
    /\ IF caller = "exits" THEN signaled ELSE host = "returned"
    /\ process' = "exited"
    /\ UNCHANGED <<given, signaled, service, failed, streams, hostVars>>

Next ==
    \/ HostStarts \/ HostReceives \/ HostReturns \/ TimeoutSends
    \/ \E s \in Services : ServiceFails(s) \/ ServiceStops(s) \/ ServiceSends(s)
    \/ GracefulStop \/ AgentWatches \/ AgentLeaves
    \/ Signal \/ MainReturns

Spec == Init /\ [][Next]_vars

(* Goroutines are scheduled and the timer fires.  Services need not stop,  *)
(* agents need not leave, and nobody need send a signal.                   *)
Fairness ==
    /\ WF_vars(HostStarts \/ HostReceives \/ HostReturns)
    /\ WF_vars(TimeoutSends) /\ WF_vars(MainReturns)
    /\ \A s \in Services : WF_vars(ServiceSends(s))

FairSpec == Spec /\ Fairness

-----------------------------------------------------------------------------
(* What Run returns says nothing of failures: it returns nil also when     *)
(* services failed, although its doc comment promises an error then.  nil  *)
(* does mean that nobody is left to send on the closed channel, and that   *)
(* the channel of errors, which the caller may read or drop, names all     *)
(* that failed and nobody else - those that failed after the signal, too.  *)
NilMeansAllTold ==
    result = "nil" =>
      /\ \A s \in Services : service[s] = "ended"
      /\ messages = <<>>
      /\ { serviceErrors[i] : i \in DOMAIN serviceErrors } = { nameOf[s] : s \in failed }

(* Until Run returns, a failure that was sent is waiting for the loop or   *)
(* was handed to the caller, exactly once, and no other name was.          *)
FailuresAreHandedOn ==
    host = "loops" =>
      \A s \in Services :
        Cardinality({i \in DOMAIN messages : messages[i] = [name |-> nameOf[s], err |-> TRUE]})
        + Cardinality({i \in DOMAIN serviceErrors : serviceErrors[i] = nameOf[s]})
          = IF s \in failed /\ service[s] = "ended" THEN 1 ELSE 0

(* The process is only ever brought down by a service that ends after Run  *)
(* has given it up.                                                        *)
CrashesOnlyAfterTimeout == process = "crashed" => result = "timeout" /\ signaled

(* After the signal the host stops even if agents keep their streams open  *)
(* or the worker hangs, unless the process is gone before.                 *)
SignalEndsTheHost == signaled /\ host = "loops" ~> host = "returned" \/ process # "up"

(* Run also returns when all services are over, whatever ended them.       *)
AllEndedEndsTheHost ==
    host = "loops" /\ (\A s \in Services : service[s] \in {"sends", "ended"})
      ~> host = "returned" \/ process # "up"
=============================================================================
