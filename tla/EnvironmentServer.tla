------------------------- MODULE EnvironmentServer -------------------------
(***************************************************************************)
(* The registration and event streams of one environment: the handlers     *)
(* Register, Unregister, WatchResources and DispatchResourceEvent of       *)
(* pkg/grpcapi/server.go, and the main loop of the agents that call them   *)
(* (cmd/ryobi-env/main.go).  Environments do not interact, so one name is  *)
(* enough; several agents may run under it, as a rolling update does.      *)
(*                                                                         *)
(* The watchers of the environment are a Go slice.  It is edited in place  *)
(* under a mutex, but DispatchResourceEvent copies only its header under   *)
(* the mutex and then reads the elements without it.  So backing arrays    *)
(* are part of the state here, and the dispatch loop takes a step per      *)
(* element.  An edit of a backing array is one step: what the loop reads   *)
(* is an element before or after the edit.                                 *)
(*                                                                         *)
(* A channel is identified with the WatchResources call it belongs to.     *)
(* Events are numbered in the order the worker dispatches them.            *)
(***************************************************************************)
EXTENDS Integers, Sequences

CONSTANTS
    Agents,       (* ryobi-env processes of the environment                 *)
    Streams,      (* WatchResources calls, numbered in the order of opening *)
    Nobody,       (* no agent, no stream                                    *)
    Arrays,       (* backing arrays; three are enough, see Collected        *)
    Management,   (* management.enabled of the agents' configuration        *)
    Capacity,     (* buffer of a channel, 64 in the code                    *)
    MaxEvents,    (* bound: events dispatched                               *)
    MaxBreaks     (* bound: watch streams broken by the network             *)

ASSUME EnvironmentServerAssumption ==
    /\ Nobody \notin Agents \cup Streams
    /\ Streams \subseteq Nat
    /\ Management \in BOOLEAN
    /\ Capacity \in Nat \ {0}
    /\ {MaxEvents, MaxBreaks} \subseteq Nat

VARIABLES
    agent,        (* the agents' main loops                                 *)
    registering,  (* Register handlers, one per agent                       *)
    unregistering,(* Unregister handlers                                    *)
    stored,       (* is the environment in the database?                    *)
    registered,   (* is it in the server's map?                             *)
    watchers,     (* slice of channels in the server's map                  *)
    array,        (* backing arrays; <<>> if not allocated                  *)
    stream,       (* WatchResources handlers and their channels             *)
    worker,       (* DispatchResourceEvent, in the worker goroutine         *)
    breaks        (* broken streams so far                                  *)

vars == <<agent, registering, unregistering, stored, registered, watchers,
          array, stream, worker, breaks>>

Maybe(S) == S \cup {Nobody}

AgentPC  == {"new", "starting", "watch", "watching", "sleeping", "registering",
             "stopping", "gone"}
Agent    == [pc : AgentPC, stream : Maybe(Streams), last : Nat]
StreamPC == {"unused", "opening", "open", "removing", "ended"}
Stream   == [pc : StreamPC, owner : Maybe(Agents), buffer : Seq(1..MaxEvents),
             closed : BOOLEAN]
Slice    == [array : Maybe(Arrays), len : Nat]
Worker   == [pc : {"idle", "loop", "dead"}, slice : Slice, next : Nat, event : 0..MaxEvents]

Nil == [array |-> Nobody, len |-> 0]

TypeOK ==
    /\ agent         \in [Agents -> Agent]
    /\ registering   \in [Agents -> {"idle", "save", "set"}]
    /\ unregistering \in [Agents -> {"idle", "close", "delete", "done"}]
    /\ stored        \in BOOLEAN
    /\ registered    \in BOOLEAN
    /\ watchers      \in Slice
    /\ array         \in [Arrays -> Seq(Maybe(Streams))]
    /\ stream        \in [Streams -> Stream]
    /\ \A s \in Streams : Len(stream[s].buffer) <= Capacity
    /\ worker        \in Worker
    /\ breaks        \in 0..MaxBreaks

Init ==
    /\ agent         = [a \in Agents |-> [pc |-> "new", stream |-> Nobody, last |-> 0]]
    /\ registering   = [a \in Agents |-> "idle"]
    /\ unregistering = [a \in Agents |-> "idle"]
    /\ stored        = FALSE
    /\ registered    = FALSE
    /\ watchers      = Nil
    /\ array         = [b \in Arrays |-> <<>>]
    /\ stream        = [s \in Streams |-> [pc |-> "unused", owner |-> Nobody,
                                           buffer |-> <<>>, closed |-> FALSE]]
    /\ worker        = [pc |-> "idle", slice |-> Nil, next |-> 1, event |-> 0]
    /\ breaks        = 0

agentVars  == <<agent, registering, unregistering>>
serverVars == <<stored, registered, watchers, array, stream, worker>>

-----------------------------------------------------------------------------
(* Agents.                                                                 *)

CallRegister(a, pc) ==
    /\ registering[a] = "idle"
    /\ agent' = [agent EXCEPT ![a].pc = pc]
    /\ registering' = [registering EXCEPT ![a] = "save"]
    /\ UNCHANGED <<unregistering, serverVars, breaks>>

Start(a) == agent[a].pc = "new" /\ CallRegister(a, "starting")

(* Five seconds after a broken stream the agent registers again.           *)
Reregister(a) == agent[a].pc = "sleeping" /\ CallRegister(a, "registering")

(* The management page saves new capabilities while the agent watches.     *)
ChangeCapabilities(a) ==
    Management /\ agent[a].pc = "watching" /\ CallRegister(a, "watching")

OpenWatch(a, s) ==
    /\ agent[a].pc = "watch"
    /\ stream[s].pc = "unused"
    /\ \A t \in Streams : stream[t].pc = "unused" => s <= t
    /\ agent' = [agent EXCEPT ![a].pc = "watching", ![a].stream = s]
    /\ stream' = [stream EXCEPT ![s].pc = "opening", ![s].owner = a]
    /\ UNCHANGED <<registering, unregistering, stored, registered, watchers,
                   array, worker, breaks>>

MutantStreamEnded(a) ==
    /\ agent[a].pc = "watching"
    /\ stream[agent[a].stream].pc = "ended"
    /\ UNCHANGED vars

(* The server ended the stream: Recv returns io.EOF, watchAndProcess nil,  *)
(* and the loop opens the next stream at once, without registering.        *)
StreamEnded(a) ==
    /\ agent[a].pc = "watching"
    /\ stream[agent[a].stream].pc = "ended"
    /\ agent' = [agent EXCEPT ![a].pc = "watch", ![a].stream = Nobody]
    /\ UNCHANGED <<registering, unregistering, serverVars, breaks>>

StreamBreaks(a) ==
    /\ agent[a].pc = "watching"
    /\ breaks < MaxBreaks
    /\ breaks' = breaks + 1
    /\ agent' = [agent EXCEPT ![a].pc = "sleeping", ![a].stream = Nobody]
    /\ UNCHANGED <<registering, unregistering, serverVars>>

(* SIGTERM cancels the stream and a Register call in flight, which the     *)
(* server completes all the same.  Before the first registration returned  *)
(* the process exits without its deferred Unregister.                      *)
Stop(a) ==
    /\ agent[a].pc \in {"starting", "watch", "watching", "sleeping", "registering"}
    /\ agent' = [agent EXCEPT
         ![a].stream = Nobody,
         ![a].pc = IF agent[a].pc = "starting" THEN "gone" ELSE "stopping"]
    /\ unregistering' = IF agent[a].pc = "starting" THEN unregistering
                        ELSE [unregistering EXCEPT ![a] = "close"]
    /\ UNCHANGED <<registering, serverVars, breaks>>

(* The process is killed; the server still runs what it had called.        *)
Kill(a) ==
    /\ agent[a].pc # "gone"
    /\ agent' = [agent EXCEPT ![a].pc = "gone", ![a].stream = Nobody]
    /\ UNCHANGED <<registering, unregistering, serverVars, breaks>>

Exit(a) ==
    /\ agent[a].pc = "stopping"
    /\ unregistering[a] = "done"
    /\ agent' = [agent EXCEPT ![a].pc = "gone"]
    /\ UNCHANGED <<registering, unregistering, serverVars, breaks>>

-----------------------------------------------------------------------------
(* Register: the database first, then, under the mutex, the map.           *)
RegisterSave(a) ==
    /\ registering[a] = "save"
    /\ stored' = TRUE
    /\ registering' = [registering EXCEPT ![a] = "set"]
    /\ UNCHANGED <<agent, unregistering, registered, watchers, array, stream,
                   worker, breaks>>

MutantRegisterSet(a) ==
    /\ registering[a] = "set"
    /\ registered' = (registered \/ agent[a].pc \in {"starting", "registering"})
    /\ registering' = [registering EXCEPT ![a] = "idle"]
    /\ agent' = IF agent[a].pc \in {"starting", "registering"}
                THEN [agent EXCEPT ![a].pc = "watch"] ELSE agent
    /\ UNCHANGED <<unregistering, stored, watchers, array, stream, worker,
                   breaks>>

RegisterSet(a) ==
    /\ registering[a] = "set"
    /\ registered' = TRUE
    /\ registering' = [registering EXCEPT ![a] = "idle"]
    /\ agent' = IF agent[a].pc \in {"starting", "registering"}
                THEN [agent EXCEPT ![a].pc = "watch"] ELSE agent
    /\ UNCHANGED <<unregistering, stored, watchers, array, stream, worker,
                   breaks>>

(* Arrays no slice refers to any more are garbage.                         *)
Collected(arrays, slices) ==
    [b \in Arrays |-> IF \E slice \in slices : slice.array = b THEN arrays[b] ELSE <<>>]

Entries(slice) == { array[slice.array][i] : i \in 1..slice.len }

(* Unregister: under the mutex every channel of the environment is closed  *)
(* and the environment leaves the maps; then the database.                 *)
UnregisterClose(a) ==
    /\ unregistering[a] = "close"
    /\ stream' = [s \in Streams |->
                    IF s \in Entries(watchers) THEN [stream[s] EXCEPT !.closed = TRUE]
                                               ELSE stream[s]]
    /\ watchers' = Nil
    /\ array' = Collected(array, {worker.slice})
    /\ registered' = FALSE
    /\ unregistering' = [unregistering EXCEPT ![a] = "delete"]
    /\ UNCHANGED <<agent, registering, stored, worker, breaks>>

UnregisterDelete(a) ==
    /\ unregistering[a] = "delete"
    /\ stored' = FALSE
    /\ unregistering' = [unregistering EXCEPT ![a] = "done"]
    /\ UNCHANGED <<agent, registering, registered, watchers, array, stream,
                   worker, breaks>>

-----------------------------------------------------------------------------
(* WatchResources.  append writes behind the last element if the backing   *)
(* array has room, and otherwise moves to an array of twice the length.    *)
HasRoom == watchers.array # Nobody /\ watchers.len < Len(array[watchers.array])

Grown(s) ==
    [i \in 1..(IF watchers.len = 0 THEN 1 ELSE 2 * watchers.len) |->
        IF i <= watchers.len THEN array[watchers.array][i]
        ELSE IF i = watchers.len + 1 THEN s ELSE Nobody]

AppendWatcher(s) ==
    LET b == IF HasRoom THEN watchers.array ELSE CHOOSE c \in Arrays : array[c] = <<>>
        appended == [array |-> b, len |-> watchers.len + 1]
    IN
    /\ stream[s].pc = "opening"
    /\ HasRoom \/ \E c \in Arrays : array[c] = <<>>
    /\ array' = IF HasRoom THEN [array EXCEPT ![b][watchers.len + 1] = s]
                ELSE Collected([array EXCEPT ![b] = Grown(s)], {appended, worker.slice})
    /\ watchers' = appended
    /\ stream' = [stream EXCEPT ![s].pc = "open"]
    /\ UNCHANGED <<agentVars, stored, registered, worker, breaks>>

(* The client of the call is still there.                                  *)
Attached(s) == agent[stream[s].owner].stream = s

MutantDeliver(s) ==
    LET n == Len(stream[s].buffer) IN
    /\ stream[s].pc = "open"
    /\ n > 0
    /\ stream' = [stream EXCEPT ![s].buffer = SubSeq(@, 1, n - 1)]
    /\ agent' = IF Attached(s)
                THEN [agent EXCEPT ![stream[s].owner].last = stream[s].buffer[n]]
                ELSE agent
    /\ UNCHANGED <<registering, unregistering, stored, registered, watchers,
                   array, worker, breaks>>

(* An event is taken from the channel and sent; a client that has left     *)
(* does not get it.  A closed channel is drained first.                    *)
Deliver(s) ==
    /\ stream[s].pc = "open"
    /\ stream[s].buffer # <<>>
    /\ stream' = [stream EXCEPT ![s].buffer = Tail(@)]
    /\ agent' = IF Attached(s)
                THEN [agent EXCEPT ![stream[s].owner].last = Head(stream[s].buffer)]
                ELSE agent
    /\ UNCHANGED <<registering, unregistering, stored, registered, watchers,
                   array, worker, breaks>>

(* The stream's context is done, or its channel closed and empty.          *)
WatchReturns(s) ==
    /\ stream[s].pc = "open"
    /\ ~Attached(s) \/ (stream[s].closed /\ stream[s].buffer = <<>>)
    /\ stream' = [stream EXCEPT ![s].pc = "removing", ![s].buffer = <<>>]
    /\ UNCHANGED <<agentVars, stored, registered, watchers, array, worker,
                   breaks>>

MutantRemoveWatcher(s) ==
    /\ stream[s].pc = "removing"
    /\ stream' = [stream EXCEPT ![s].pc = "ended"]
    /\ watchers' = IF s \in Entries(watchers) THEN [watchers EXCEPT !.len = @ - 1]
                                              ELSE watchers
    /\ UNCHANGED <<agentVars, stored, registered, array, worker, breaks>>

(* The deferred function: append(channels[:i], channels[i+1:]...) shifts   *)
(* the elements behind the i-th to the left, in the same backing array.    *)
RemoveWatcher(s) ==
    LET b == watchers.array
        Shifted(k) == [i \in DOMAIN array[b] |->
                         IF k <= i /\ i < watchers.len THEN array[b][i + 1] ELSE array[b][i]]
    IN
    /\ stream[s].pc = "removing"
    /\ stream' = [stream EXCEPT ![s].pc = "ended", ![s].owner = Nobody]
    /\ \/ \E k \in 1..watchers.len :
            /\ array[b][k] = s
            /\ array' = [array EXCEPT ![b] = Shifted(k)]
            /\ watchers' = [watchers EXCEPT !.len = @ - 1]
       \/ s \notin Entries(watchers) /\ UNCHANGED <<array, watchers>>
    /\ UNCHANGED <<agentVars, stored, registered, worker, breaks>>

-----------------------------------------------------------------------------
(* DispatchResourceEvent: the header is read under the mutex; without a    *)
(* watcher the call is an error and the worker goes on.                    *)
DispatchBegin ==
    /\ worker.pc = "idle"
    /\ worker.event < MaxEvents
    /\ worker' = [worker EXCEPT
         !.event = @ + 1,
         !.pc    = IF watchers.len = 0 THEN "idle" ELSE "loop",
         !.slice = IF watchers.len = 0 THEN Nil ELSE watchers]
    /\ UNCHANGED <<agentVars, stored, registered, watchers, array, stream, breaks>>

MutantOffered(s, event) == Append(stream[s].buffer, event)

(* A non-blocking send to the next element: dropped if the channel is      *)
(* full, a panic if it is closed.                                          *)
Offered(s, event) ==
    IF Len(stream[s].buffer) < Capacity THEN Append(stream[s].buffer, event)
                                        ELSE stream[s].buffer

DispatchNext ==
    LET s == array[worker.slice.array][worker.next] IN
    /\ worker.pc = "loop"
    /\ worker.next <= worker.slice.len
    /\ IF stream[s].closed
       THEN /\ worker' = [worker EXCEPT !.pc = "dead", !.slice = Nil, !.next = 1]
            /\ array' = Collected(array, {watchers})
            /\ UNCHANGED stream
       ELSE /\ worker' = [worker EXCEPT !.next = @ + 1]
            /\ stream' = IF stream[s].pc \in {"removing", "ended"} THEN stream
                         ELSE [stream EXCEPT ![s].buffer = Offered(s, worker.event)]
            /\ UNCHANGED array
    /\ UNCHANGED <<agentVars, stored, registered, watchers, breaks>>

DispatchEnd ==
    /\ worker.pc = "loop"
    /\ worker.next > worker.slice.len
    /\ worker' = [worker EXCEPT !.pc = "idle", !.slice = Nil, !.next = 1]
    /\ array' = Collected(array, {watchers})
    /\ UNCHANGED <<agentVars, stored, registered, watchers, stream, breaks>>

-----------------------------------------------------------------------------
AgentStep(a) ==
    Start(a) \/ Reregister(a) \/ StreamEnded(a) \/ Exit(a)
    \/ \E s \in Streams : OpenWatch(a, s)

HandlerStep(a) ==
    RegisterSave(a) \/ RegisterSet(a) \/ UnregisterClose(a) \/ UnregisterDelete(a)

StreamStep(s) == AppendWatcher(s) \/ Deliver(s) \/ WatchReturns(s) \/ RemoveWatcher(s)

Next ==
    \/ \E a \in Agents : \/ AgentStep(a) \/ HandlerStep(a)
                         \/ ChangeCapabilities(a) \/ StreamBreaks(a) \/ Stop(a) \/ Kill(a)
    \/ \E s \in Streams : StreamStep(s)
    \/ DispatchBegin \/ DispatchNext \/ DispatchEnd

Spec == Init /\ [][Next]_vars

(* Go schedules every goroutine, and an agent that runs goes on.  Nothing  *)
(* makes the network break, an agent stop or the worker dispatch.          *)
Fairness ==
    /\ \A a \in Agents : WF_vars(AgentStep(a)) /\ WF_vars(HandlerStep(a))
    /\ \A s \in Streams : WF_vars(StreamStep(s))
    /\ WF_vars(DispatchNext \/ DispatchEnd)

FairSpec == Spec /\ Fairness

-----------------------------------------------------------------------------
(* Whatever is appended, removed in place or unregistered in whichever     *)
(* order: the slice holds the channel of every running WatchResources call *)
(* exactly once, and no closed one.                                        *)
WatchersAreTheOpenStreams ==
    /\ Entries(watchers) = { s \in Streams : /\ stream[s].pc \in {"open", "removing"}
                                             /\ ~stream[s].closed }
    /\ \A i, j \in 1..watchers.len :
         array[watchers.array][i] = array[watchers.array][j] => i = j

(* An agent never receives an event after a later one, over all the        *)
(* streams it opens.                                                       *)
ReceivedInOrder ==
    [][\A a \in Agents : agent'[a].last >= agent[a].last]_vars

(* An agent that has registered gets a channel in the slice again, however *)
(* often its stream breaks or another agent's Unregister closes it.        *)
EventuallyWatching ==
    \A a \in Agents :
        agent[a].pc \in {"watch", "watching", "sleeping"} ~>
          \/ agent[a].pc \in {"stopping", "gone"}
          \/ agent[a].stream \in Entries(watchers)

(* The agents' calls write the database and the map in two steps each,     *)
(* Register the database first and Unregister the map first, also after    *)
(* their agent has gone, and those of one agent come between those of      *)
(* another.  When no call is being served, an environment that they left   *)
(* in the database is in the map placement reads.  (A PUT or DELETE of the *)
(* environment by a user, which writes the database only, is in Records.)  *)
(* The converse is false: what a Register writes between the two steps of  *)
(* an Unregister stays in the map and is deleted from the database.        *)
StoredIsRegistered ==
    /\ \A a \in Agents : registering[a] = "idle" /\ unregistering[a] \in {"idle", "done"}
    /\ stored
    => registered
=============================================================================
