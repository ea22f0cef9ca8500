---------------------- MODULE EnvironmentServerProofs ----------------------
(***************************************************************************)
(* Proofs about EnvironmentServer for any number of agents, streams,       *)
(* backing arrays and events and any capacity.  Three results: the slice   *)
(* of watchers is the set of running streams whatever is appended to it or *)
(* cut out of it in place; an agent never receives an older event after a  *)
(* newer one, over all its streams; and what agents leave in the database  *)
(* is in the map.                                                          *)
(***************************************************************************)
EXTENDS EnvironmentServer, SequenceTheorems, TLAPS

(* A slice lies within its backing array.                                  *)
Fits(slice) ==
    \/ slice.len = 0
    \/ slice.array \in Arrays /\ slice.len <= Len(array[slice.array])

Open(s) == stream[s].pc \in {"open", "removing"} /\ ~stream[s].closed

(* A stream that is not in the slice yet is not closed and has no event.   *)
NewStreamsAreClean ==
    \A s \in Streams :
        stream[s].pc \in {"unused", "opening"} => ~stream[s].closed /\ stream[s].buffer = <<>>

(* No array, not even one only a dispatch still refers to, holds a stream  *)
(* that has not been appended.                                             *)
Started(x) == x \in Streams => stream[x].pc \notin {"unused", "opening"}

ArraysHoldStarted ==
    \A b \in Arrays : \A i \in DOMAIN array[b] : Started(array[b][i])

(* The dispatch loop reads within the array of its slice.                  *)
LoopInArray == worker.next # 0 /\ (worker.pc = "loop" => Fits(worker.slice))

LoopHasEvent == worker.pc = "loop" => worker.event # 0

(* What is buffered is in order, not newer than the last dispatch, and not *)
(* older than what the agent behind the stream has received.               *)
InOrder(s) ==
    /\ \A i, j \in DOMAIN stream[s].buffer :
         i <= j => stream[s].buffer[i] <= stream[s].buffer[j]
    /\ \A i \in DOMAIN stream[s].buffer : stream[s].buffer[i] <= worker.event

NotOlder(a) ==
    /\ agent[a].last <= worker.event
    /\ agent[a].stream \in Streams =>
         \A i \in DOMAIN stream[agent[a].stream].buffer :
            agent[a].last <= stream[agent[a].stream].buffer[i]

Memory ==
    /\ Fits(watchers)
    /\ WatchersAreTheOpenStreams
    /\ NewStreamsAreClean
    /\ ArraysHoldStarted
    /\ LoopInArray

Events ==
    /\ LoopHasEvent
    /\ \A s \in Streams : InOrder(s)
    /\ \A a \in Agents : NotOlder(a)

IInv == TypeOK /\ Memory /\ Events

-----------------------------------------------------------------------------
(* Writing an element of a sequence leaves its length.                     *)
LEMMA ElementWritten ==
    ASSUME NEW S, NEW q \in Seq(S), NEW k \in 1..Len(q), NEW x \in S
    PROVE  /\ [q EXCEPT ![k] = x] \in Seq(S)
           /\ Len([q EXCEPT ![k] = x]) = Len(q)
OBVIOUS

(* A function on 1..m is a sequence of length m.                           *)
LEMMA FunctionIsSequence ==
    ASSUME NEW S, NEW m \in Nat, NEW f \in [1..m -> S]
    PROVE  f \in Seq(S) /\ Len(f) = m
OBVIOUS

(* The slice.                                                              *)

(* The elements of a slice do not depend on what lies behind them.         *)
LEMMA SliceKept ==
    ASSUME TypeOK, Fits(watchers), WatchersAreTheOpenStreams,
           watchers' = watchers,
           watchers.array \in Arrays => array'[watchers.array] = array[watchers.array],
           \A s \in Streams : Open(s)' <=> Open(s)
    PROVE  Fits(watchers)' /\ WatchersAreTheOpenStreams'
<1>1. Fits(watchers)'
  BY DEF Fits
<1>2. \A i \in 1..watchers.len : array'[watchers.array][i] = array[watchers.array][i]
  BY DEF Fits, TypeOK, Slice
<1>3. Entries(watchers)' = Entries(watchers)
  BY <1>2 DEF Entries
<1>4. QED
  BY <1>1, <1>2, <1>3 DEF WatchersAreTheOpenStreams, Open

(* Unregister closes every channel of the slice it drops.                  *)
LEMMA SliceDropped ==
    ASSUME TypeOK, WatchersAreTheOpenStreams, NEW a \in Agents, UnregisterClose(a)
    PROVE  Fits(watchers)' /\ WatchersAreTheOpenStreams'
<1>1. watchers' = Nil /\ \A s \in Streams : ~Open(s)'
  BY DEF UnregisterClose, WatchersAreTheOpenStreams, Open, TypeOK, Stream
<1>2. 1..watchers'.len = {}
  BY <1>1 DEF Nil
<1>3. QED
  BY <1>1, <1>2 DEF Fits, Nil, WatchersAreTheOpenStreams, Entries, Open

(* An appended slice has its elements and, behind them, the new one.       *)
LEMMA SliceAppended ==
    ASSUME TypeOK, Fits(watchers), WatchersAreTheOpenStreams, NewStreamsAreClean,
           NEW s \in Streams, AppendWatcher(s)
    PROVE  Fits(watchers)' /\ WatchersAreTheOpenStreams'
<1> DEFINE n == watchers.len
           b == IF HasRoom THEN watchers.array ELSE CHOOSE c \in Arrays : array[c] = <<>>
<1>0. n \in Nat /\ array \in [Arrays -> Seq(Maybe(Streams))]
  BY DEF TypeOK, Slice
<1>1. b \in Arrays /\ watchers' = [array |-> b, len |-> n + 1]
  BY DEF AppendWatcher, HasRoom, TypeOK, Slice, Maybe
<1>2. /\ Len(array'[b]) >= n + 1
      /\ array'[b][n + 1] = s
      /\ \A i \in 1..n : array'[b][i] = array[watchers.array][i]
  <2>1. CASE HasRoom
    <3>1. array' = [array EXCEPT ![b][n + 1] = s] /\ b = watchers.array
      BY <2>1 DEF AppendWatcher
    <3>2. n + 1 \in 1..Len(array[b])
      BY <1>0, <1>1, <2>1 DEF HasRoom
    <3>3. array'[b] = [array[b] EXCEPT ![n + 1] = s]
      BY <1>0, <1>1, <3>1
    <3>4. Len(array'[b]) = Len(array[b])
      BY <1>0, <1>1, <3>2, <3>3, ElementWritten DEF Maybe
    <3>5. array[b] \in Seq(Maybe(Streams))
      BY <1>0, <1>1
    <3>6. array'[b][n + 1] = s /\ \A i \in 1..n : array'[b][i] = array[b][i]
      BY <1>0, <3>2, <3>3, <3>5
    <3>7. Len(array'[b]) >= n + 1
      BY <1>0, <3>2, <3>4, <3>5
    <3>8. QED
      BY <3>1, <3>6, <3>7
  <2>2. CASE ~HasRoom
    <3>1. array'[b] = Grown(s)
      BY <1>1, <2>2, <1>0 DEF AppendWatcher, Collected
    <3> DEFINE m == IF n = 0 THEN 1 ELSE 2 * n
    <3>2. m \in Nat /\ m >= n + 1
      BY <1>0
    <3>3. Grown(s) = [i \in 1..m |-> IF i <= n THEN array[watchers.array][i]
                                      ELSE IF i = n + 1 THEN s ELSE Nobody]
      BY DEF Grown
    <3>4. Len(Grown(s)) = m
      BY <3>2, <3>3
    <3>5. Grown(s)[n + 1] = s /\ \A i \in 1..n : Grown(s)[i] = array[watchers.array][i]
      BY <1>0, <3>2, <3>3
    <3>6. QED
      BY <3>1, <3>2, <3>4, <3>5
  <2>3. QED
    BY <2>1, <2>2
<1>3. Fits(watchers)'
  BY <1>0, <1>1, <1>2 DEF Fits
<1>4. Entries(watchers)' = Entries(watchers) \cup {s}
  <2>1. Entries(watchers)' = { array'[b][i] : i \in 1..(n + 1) }
    BY <1>1 DEF Entries
  <2>2. 1..(n + 1) = 1..n \cup {n + 1}
    BY <1>0
  <2>3. Entries(watchers)' = { array'[b][i] : i \in 1..n } \cup { array'[b][n + 1] }
    BY <2>1, <2>2
  <2>4. { array'[b][i] : i \in 1..n } = { array[watchers.array][i] : i \in 1..n }
    BY <1>2
  <2>5. QED
    BY <1>2, <2>3, <2>4 DEF Entries
<1>5. /\ s \notin Entries(watchers)
      /\ Open(s)' /\ \A t \in Streams : t # s => (Open(t)' <=> Open(t))
  BY DEF AppendWatcher, TypeOK, Stream, WatchersAreTheOpenStreams, NewStreamsAreClean, Open
<1>6. \A i \in 1..n : array[watchers.array][i] # s
  BY <1>5 DEF Entries
<1>7. \A i, j \in 1..watchers'.len :
        array'[watchers'.array][i] = array'[watchers'.array][j] => i = j
  <2>1. SUFFICES ASSUME NEW i \in 1..(n + 1), NEW j \in 1..(n + 1), array'[b][i] = array'[b][j]
                 PROVE  i = j
    <3>1. watchers'.len = n + 1 /\ watchers'.array = b
      BY <1>1
    <3>2. QED
      BY <3>1
  <2>2. (i \in 1..n \/ i = n + 1) /\ (j \in 1..n \/ j = n + 1)
    BY <1>0
  <2>3. QED
    BY <1>2, <1>6, <2>1, <2>2 DEF WatchersAreTheOpenStreams
<1>8. QED
  BY <1>3, <1>4, <1>5, <1>7 DEF WatchersAreTheOpenStreams, Open

(* A shift to the left cuts one element out of the slice.                  *)
LEMMA SliceCut ==
    ASSUME TypeOK, Fits(watchers), WatchersAreTheOpenStreams,
           NEW s \in Streams, RemoveWatcher(s)
    PROVE  Fits(watchers)' /\ WatchersAreTheOpenStreams'
<1> DEFINE n == watchers.len
           b == watchers.array
<1>0. n \in Nat /\ array \in [Arrays -> Seq(Maybe(Streams))]
  BY DEF TypeOK, Slice
<1>1. \A t \in Streams : Open(t)' <=> Open(t) /\ t # s
  BY DEF RemoveWatcher, Open, TypeOK, Stream, WatchersAreTheOpenStreams
<1>2. CASE s \notin Entries(watchers) /\ UNCHANGED <<array, watchers>>
  <2>1. ~Open(s)
    BY <1>2 DEF WatchersAreTheOpenStreams, Open
  <2>2. QED
    BY <1>1, <1>2, <2>1, SliceKept
<1>3. ASSUME NEW k \in 1..n, array[b][k] = s,
             array' = [array EXCEPT ![b] =
                         [i \in DOMAIN array[b] |->
                            IF k <= i /\ i < n THEN array[b][i + 1] ELSE array[b][i]]],
             watchers' = [watchers EXCEPT !.len = n - 1]
      PROVE  Fits(watchers)' /\ WatchersAreTheOpenStreams'
  <2>1. b \in Arrays /\ n <= Len(array[b]) /\ DOMAIN array[b] = 1..Len(array[b])
    BY <1>0, <1>3 DEF Fits
  <2>2. watchers'.array = b /\ watchers'.len = n - 1
    BY <1>3 DEF TypeOK, Slice
  <2>3. array'[b] = [i \in 1..Len(array[b]) |->
                       IF k <= i /\ i < n THEN array[b][i + 1] ELSE array[b][i]]
    BY <1>0, <1>3, <2>1
  <2> DEFINE from(i) == IF k <= i THEN i + 1 ELSE i
  <2>4. \A i \in 1..(n - 1) : /\ from(i) \in 1..n /\ from(i) # k
                              /\ array'[b][i] = array[b][from(i)]
    BY <1>0, <2>1, <2>3
  <2>5. \A j \in 1..n : j # k => \E i \in 1..(n - 1) : from(i) = j
    <3>1. SUFFICES ASSUME NEW j \in 1..n, j # k
                   PROVE  \E i \in 1..(n - 1) : from(i) = j
      OBVIOUS
    <3>2. CASE j < k
      <4>1. j \in 1..(n - 1) /\ from(j) = j
        BY <1>0, <3>2
      <4>2. QED
        BY <4>1
    <3>3. CASE j > k
      <4>1. j - 1 \in 1..(n - 1) /\ from(j - 1) = j
        BY <1>0, <3>3
      <4>2. QED
        BY <4>1
    <3>4. QED
      BY <1>0, <3>1, <3>2, <3>3
  <2>6. \A i, j \in 1..n : array[b][i] = array[b][j] => i = j
    BY DEF WatchersAreTheOpenStreams
  <2>7. Fits(watchers)'
    <3>1. Len(array'[b]) = Len(array[b])
      <4>1. Len(array[b]) \in Nat
        BY <1>0, <2>1
      <4>2. QED
        BY <2>3, <4>1
    <3>2. QED
      BY <1>0, <2>1, <2>2, <3>1 DEF Fits
  <2>8. Entries(watchers)' = { array'[b][i] : i \in 1..(n - 1) }
    BY <2>2 DEF Entries
  <2>9. Entries(watchers)' = Entries(watchers) \ {s}
    <3>1. ASSUME NEW t \in Entries(watchers)' PROVE t \in Entries(watchers) \ {s}
      <4>1. PICK i \in 1..(n - 1) : t = array'[b][i]
        BY <2>8
      <4>2. t = array[b][from(i)] /\ from(i) \in 1..n /\ from(i) # k
        BY <2>4, <4>1
      <4>3. QED
        BY <1>3, <2>6, <4>2 DEF Entries
    <3>2. ASSUME NEW t \in Entries(watchers) \ {s} PROVE t \in Entries(watchers)'
      <4>1. PICK j \in 1..n : t = array[b][j]
        BY DEF Entries
      <4>2. j # k
        BY <1>3, <4>1
      <4>3. PICK i \in 1..(n - 1) : from(i) = j
        BY <2>5, <4>2
      <4>4. t = array'[b][i]
        BY <2>4, <4>1, <4>3
      <4>5. QED
        BY <2>8, <4>4
    <3>3. QED
      BY <3>1, <3>2
  <2>10. \A i, j \in 1..(n - 1) : array'[b][i] = array'[b][j] => i = j
    <3>1. SUFFICES ASSUME NEW i \in 1..(n - 1), NEW j \in 1..(n - 1), array'[b][i] = array'[b][j]
                   PROVE  i = j
      OBVIOUS
    <3>2. from(i) = from(j)
      BY <2>4, <2>6, <3>1
    <3>3. QED
      BY <1>0, <3>2
  <2>11. QED
    BY <1>1, <2>2, <2>7, <2>9, <2>10 DEF WatchersAreTheOpenStreams, Open
<1>4. QED
  BY <1>2, <1>3 DEF RemoveWatcher

-----------------------------------------------------------------------------
(* Types.                                                                  *)

(* What the assumption says of each constant.                              *)
LEMMA Bounds ==
    /\ Nobody \notin Agents /\ Nobody \notin Streams
    /\ MaxEvents \in Nat /\ MaxBreaks \in Nat /\ Capacity \in Nat /\ Capacity > 0
BY EnvironmentServerAssumption

(* An agent, a stream and the worker, written field by field.              *)
LEMMA AgentWritten ==
    ASSUME TypeOK, NEW a \in Agents, NEW pc \in AgentPC, NEW s \in Maybe(Streams),
           agent' = [agent EXCEPT ![a].pc = pc, ![a].stream = s]
    PROVE  /\ agent' \in [Agents -> Agent]
           /\ agent'[a].pc = pc /\ agent'[a].stream = s /\ agent'[a].last = agent[a].last
           /\ \A c \in Agents : c # a => agent'[c] = agent[c]
<1>1. agent[a] \in Agent /\ agent \in [Agents -> Agent]
  BY DEF TypeOK
<1>2. agent' = [agent EXCEPT ![a] = [agent[a] EXCEPT !.pc = pc, !.stream = s]]
  BY <1>1
<1> DEFINE r == [agent[a] EXCEPT !.pc = pc, !.stream = s]
<1>3. r \in Agent /\ r.pc = pc /\ r.stream = s /\ r.last = agent[a].last
  BY <1>1 DEF Agent
<1>4. QED
  BY <1>1, <1>2, <1>3 DEF Agent

(* A WatchResources call that changes its position and owner.              *)
LEMMA StreamWritten ==
    ASSUME TypeOK, NEW s \in Streams, NEW pc \in StreamPC, NEW o \in Maybe(Agents),
           stream' = [stream EXCEPT ![s].pc = pc, ![s].owner = o]
    PROVE  /\ stream' \in [Streams -> Stream]
           /\ stream'[s].pc = pc /\ stream'[s].owner = o
           /\ stream'[s].buffer = stream[s].buffer /\ stream'[s].closed = stream[s].closed
           /\ \A t \in Streams : t # s => stream'[t] = stream[t]
<1>1. stream[s] \in Stream /\ stream \in [Streams -> Stream]
  BY DEF TypeOK
<1>2. stream' = [stream EXCEPT ![s] = [stream[s] EXCEPT !.pc = pc, !.owner = o]]
  BY <1>1
<1> DEFINE r == [stream[s] EXCEPT !.pc = pc, !.owner = o]
<1>3. /\ r \in Stream /\ r.pc = pc /\ r.owner = o
      /\ r.buffer = stream[s].buffer /\ r.closed = stream[s].closed
  BY <1>1 DEF Stream
<1>4. QED
  BY <1>1, <1>2, <1>3 DEF Stream

(* The fields of the worker.                                               *)
LEMMA WorkerFields ==
    ASSUME TypeOK
    PROVE  /\ worker.slice \in Slice /\ worker.next \in Nat
           /\ worker.event \in Nat /\ worker.event <= MaxEvents
           /\ worker = [pc |-> worker.pc, slice |-> worker.slice,
                        next |-> worker.next, event |-> worker.event]
BY Bounds DEF TypeOK, Worker

(* Collection keeps the types.                                             *)
LEMMA CollectedTyped ==
    ASSUME NEW arrays \in [Arrays -> Seq(Maybe(Streams))], NEW slices
    PROVE  Collected(arrays, slices) \in [Arrays -> Seq(Maybe(Streams))]
<1>1. <<>> \in Seq(Maybe(Streams))
  OBVIOUS
<1>2. QED
  BY <1>1 DEF Collected

(* The agents' steps.                                                      *)
LEMMA AgentTypes ==
    ASSUME TypeOK, NEW a \in Agents,
           \/ Start(a) \/ Reregister(a) \/ StreamEnded(a) \/ Exit(a)
           \/ ChangeCapabilities(a) \/ StreamBreaks(a) \/ Stop(a) \/ Kill(a)
    PROVE  TypeOK'
<1> USE Bounds
<1>1. CASE Start(a)
  BY <1>1 DEF Start, CallRegister, TypeOK, serverVars, Agent, AgentPC
<1>2. CASE Reregister(a)
  BY <1>2 DEF Reregister, CallRegister, TypeOK, serverVars, Agent, AgentPC
<1>3. CASE StreamEnded(a)
  <2>1. agent' \in [Agents -> Agent]
    BY <1>3, AgentWritten DEF StreamEnded, AgentPC, Maybe
  <2>2. QED
    BY <1>3, <2>1 DEF StreamEnded, TypeOK, serverVars
<1>4. CASE Exit(a)
  BY <1>4 DEF Exit, TypeOK, serverVars, Agent, AgentPC
<1>5. CASE ChangeCapabilities(a)
  BY <1>5 DEF ChangeCapabilities, CallRegister, TypeOK, serverVars, Agent, AgentPC
<1>6. CASE StreamBreaks(a)
  <2>1. agent' \in [Agents -> Agent]
    BY <1>6, AgentWritten DEF StreamBreaks, AgentPC, Maybe
  <2>2. breaks' \in 0..MaxBreaks
    BY <1>6 DEF StreamBreaks, TypeOK
  <2>3. QED
    BY <1>6, <2>1, <2>2 DEF StreamBreaks, TypeOK, serverVars
<1>7. CASE Stop(a)
  BY <1>7 DEF Stop, TypeOK, serverVars, Agent, AgentPC, Maybe
<1>8. CASE Kill(a)
  <2>1. agent' \in [Agents -> Agent]
    BY <1>8, AgentWritten DEF Kill, AgentPC, Maybe
  <2>2. QED
    BY <1>8, <2>1 DEF Kill, TypeOK, serverVars
<1>9. QED
  BY <1>1, <1>2, <1>3, <1>4, <1>5, <1>6, <1>7, <1>8

(* The handlers of Register, Unregister and of a stream's opening.         *)
LEMMA HandlerTypes ==
    ASSUME TypeOK, NEW a \in Agents,
           HandlerStep(a) \/ \E s \in Streams : OpenWatch(a, s)
    PROVE  TypeOK'
<1> USE Bounds
<1>1. CASE RegisterSave(a)
  BY <1>1 DEF RegisterSave, TypeOK
<1>2. CASE RegisterSet(a)
  BY <1>2 DEF RegisterSet, TypeOK, Agent, AgentPC
<1>3. CASE UnregisterClose(a)
  <2>1. array' \in [Arrays -> Seq(Maybe(Streams))]
    BY <1>3, CollectedTyped DEF UnregisterClose, TypeOK
  <2>2. watchers' \in Slice
    BY <1>3 DEF UnregisterClose, Nil, Slice, Maybe
  <2>3. /\ stream' \in [Streams -> Stream]
        /\ \A s \in Streams : stream'[s].buffer = stream[s].buffer
    BY <1>3 DEF UnregisterClose, TypeOK, Stream
  <2>4. QED
    BY <1>3, <2>1, <2>2, <2>3 DEF UnregisterClose, TypeOK
<1>4. CASE UnregisterDelete(a)
  BY <1>4 DEF UnregisterDelete, TypeOK
<1>5. ASSUME NEW s \in Streams, OpenWatch(a, s) PROVE TypeOK'
  <2>1. /\ stream' \in [Streams -> Stream]
        /\ \A t \in Streams : stream'[t].buffer = stream[t].buffer
    <3>1. stream' = [stream EXCEPT ![s].pc = "opening", ![s].owner = a]
      BY <1>5 DEF OpenWatch
    <3>2. QED
      BY <3>1, StreamWritten DEF StreamPC, Maybe
  <2>2. agent' \in [Agents -> Agent]
    BY <1>5, AgentWritten DEF OpenWatch, AgentPC, Maybe
  <2>3. QED
    BY <1>5, <2>1, <2>2 DEF OpenWatch, TypeOK
<1>6. QED
  BY <1>1, <1>2, <1>3, <1>4, <1>5 DEF HandlerStep

(* A stream's steps.                                                       *)
LEMMA StreamTypes ==
    ASSUME TypeOK, Fits(watchers), NEW s \in Streams, StreamStep(s)
    PROVE  TypeOK'
<1> USE Bounds
<1> DEFINE n == watchers.len
<1>0. n \in Nat /\ array \in [Arrays -> Seq(Maybe(Streams))] /\ watchers \in Slice
  BY DEF TypeOK, Slice
<1>1. CASE AppendWatcher(s)
  <2> DEFINE b == IF HasRoom THEN watchers.array ELSE CHOOSE c \in Arrays : array[c] = <<>>
  <2>1. b \in Arrays /\ watchers' = [array |-> b, len |-> n + 1]
    BY <1>0, <1>1 DEF AppendWatcher, HasRoom, Slice, Maybe
  <2>2. array' \in [Arrays -> Seq(Maybe(Streams))]
    <3>1. CASE HasRoom
      <4>1. array' = [array EXCEPT ![b][n + 1] = s] /\ n + 1 \in 1..Len(array[b])
        BY <1>0, <1>1, <2>1, <3>1 DEF AppendWatcher, HasRoom
      <4>2. [array[b] EXCEPT ![n + 1] = s] \in Seq(Maybe(Streams))
        BY <1>0, <2>1, <4>1, ElementWritten DEF Maybe
      <4>3. array' = [array EXCEPT ![b] = [array[b] EXCEPT ![n + 1] = s]]
        BY <4>1
      <4> HIDE DEF b
      <4>4. QED
        BY <1>0, <2>1, <4>2, <4>3
    <3>2. CASE ~HasRoom
      <4>1. Grown(s) \in Seq(Maybe(Streams))
        <5>1. ASSUME NEW i \in 1..n PROVE array[watchers.array][i] \in Maybe(Streams)
          BY <1>0, <5>1 DEF Fits
        <5>2. Grown(s) \in [1..(IF n = 0 THEN 1 ELSE 2 * n) -> Maybe(Streams)]
          BY <1>0, <5>1 DEF Grown, Maybe
        <5>3. (IF n = 0 THEN 1 ELSE 2 * n) \in Nat
          BY <1>0
        <5>4. QED
          BY <5>2, <5>3, FunctionIsSequence
      <4>2. [array EXCEPT ![b] = Grown(s)] \in [Arrays -> Seq(Maybe(Streams))]
        BY <1>0, <2>1, <4>1
      <4>3. array' = Collected([array EXCEPT ![b] = Grown(s)], {watchers', worker.slice})
        BY <1>1, <3>2 DEF AppendWatcher
      <4> HIDE DEF b
      <4>4. QED
        BY <4>2, <4>3, CollectedTyped
    <3>3. QED
      BY <3>1, <3>2
  <2>3. watchers' \in Slice
    BY <1>0, <2>1 DEF Slice, Maybe
  <2>4. /\ stream' \in [Streams -> Stream]
        /\ \A t \in Streams : stream'[t].buffer = stream[t].buffer
    BY <1>1 DEF AppendWatcher, TypeOK, Stream, StreamPC
  <2>5. QED
    BY <1>1, <2>2, <2>3, <2>4 DEF AppendWatcher, TypeOK, agentVars
<1>2. CASE Deliver(s)
  <2> DEFINE q == stream[s].buffer
  <2>1. q \in Seq(1..MaxEvents) /\ q # <<>> /\ Len(q) <= Capacity
    BY <1>2 DEF Deliver, TypeOK, Stream
  <2>2. /\ Tail(q) \in Seq(1..MaxEvents) /\ Len(Tail(q)) <= Capacity
        /\ Head(q) \in 1..MaxEvents
    <3>1. Len(q) \in Nat /\ Len(q) > 0
      BY <2>1
    <3> HIDE DEF q
    <3>2. Tail(q) \in Seq(1..MaxEvents) /\ Len(Tail(q)) = Len(q) - 1
      BY <2>1, HeadTailProperties
    <3>3. Head(q) \in 1..MaxEvents
      BY <2>1, <3>1
    <3>4. QED
      BY <2>1, <3>1, <3>2, <3>3
  <2>3. /\ stream' \in [Streams -> Stream]
        /\ \A t \in Streams : Len(stream'[t].buffer) <= Capacity
    BY <1>2, <2>2 DEF Deliver, TypeOK, Stream
  <2>4. agent' \in [Agents -> Agent]
    <3>1. CASE agent' = agent
      BY <3>1 DEF TypeOK
    <3>2. CASE agent' = [agent EXCEPT ![stream[s].owner].last = Head(q)]
      <4> DEFINE o == stream[s].owner
      <4>1. Head(q) \in Nat
        BY <2>2
      <4>2. agent \in [Agents -> Agent]
        BY DEF TypeOK
      <4> HIDE DEF o, q
      <4>3. QED
        BY <3>2, <4>1, <4>2 DEF Agent
    <3>3. QED
      BY <1>2, <3>1, <3>2 DEF Deliver
  <2>5. QED
    BY <1>2, <2>3, <2>4 DEF Deliver, TypeOK
<1>3. CASE WatchReturns(s)
  <2>1. /\ stream' \in [Streams -> Stream]
        /\ \A t \in Streams : Len(stream'[t].buffer) <= Capacity
    <3>1. <<>> \in Seq(1..MaxEvents) /\ Len(<<>>) <= Capacity
      OBVIOUS
    <3>2. QED
      BY <1>3, <3>1 DEF WatchReturns, TypeOK, Stream, StreamPC
  <2>2. QED
    BY <1>3, <2>1 DEF WatchReturns, TypeOK, agentVars
<1>4. CASE RemoveWatcher(s)
  <2>1. /\ stream' \in [Streams -> Stream]
        /\ \A t \in Streams : stream'[t].buffer = stream[t].buffer
    <3>1. stream' = [stream EXCEPT ![s].pc = "ended", ![s].owner = Nobody]
      BY <1>4 DEF RemoveWatcher
    <3>2. QED
      BY <3>1, StreamWritten DEF StreamPC, Maybe
  <2>2. array' \in [Arrays -> Seq(Maybe(Streams))] /\ watchers' \in Slice
    <3> DEFINE b == watchers.array
    <3>1. CASE UNCHANGED <<array, watchers>>
      BY <1>0, <3>1
    <3>2. ASSUME NEW k \in 1..n,
                 array' = [array EXCEPT ![b] =
                             [i \in DOMAIN array[b] |->
                                IF k <= i /\ i < n THEN array[b][i + 1] ELSE array[b][i]]],
                 watchers' = [watchers EXCEPT !.len = n - 1]
          PROVE  array' \in [Arrays -> Seq(Maybe(Streams))] /\ watchers' \in Slice
      <4>1. b \in Arrays /\ n <= Len(array[b])
        BY <1>0, <3>2 DEF Fits
      <4>2. /\ array[b] \in Seq(Maybe(Streams)) /\ Len(array[b]) \in Nat
            /\ DOMAIN array[b] = 1..Len(array[b])
        BY <1>0, <4>1
      <4>3. [i \in DOMAIN array[b] |->
               IF k <= i /\ i < n THEN array[b][i + 1] ELSE array[b][i]]
               \in [1..Len(array[b]) -> Maybe(Streams)]
        <5>1. \A i \in 1..Len(array[b]) : i < n => i + 1 \in 1..Len(array[b])
          BY <1>0, <4>1, <4>2
        <5>2. QED
          BY <4>2, <5>1
      <4>4. array' \in [Arrays -> Seq(Maybe(Streams))]
        BY <1>0, <3>2, <4>1, <4>2, <4>3, FunctionIsSequence
      <4>5. n - 1 \in Nat
        BY <1>0, <3>2
      <4>6. watchers' \in Slice
        BY <1>0, <3>2, <4>5 DEF Slice
      <4>7. QED
        BY <4>4, <4>6
    <3>3. QED
      BY <1>4, <3>1, <3>2 DEF RemoveWatcher
  <2>3. QED
    BY <1>4, <2>1, <2>2 DEF RemoveWatcher, TypeOK, agentVars
<1>5. QED
  BY <1>1, <1>2, <1>3, <1>4 DEF StreamStep

(* An offered event is put at the end of the buffer, or dropped.           *)
LEMMA OfferedTyped ==
    ASSUME TypeOK, NEW s \in Streams, NEW e \in 1..MaxEvents
    PROVE  Offered(s, e) \in Seq(1..MaxEvents) /\ Len(Offered(s, e)) <= Capacity
<1>1. stream[s].buffer \in Seq(1..MaxEvents) /\ Len(stream[s].buffer) <= Capacity
  BY DEF TypeOK, Stream
<1>2. Capacity \in Nat
  BY EnvironmentServerAssumption
<1>3. CASE Len(stream[s].buffer) < Capacity
  <2>1. Offered(s, e) = Append(stream[s].buffer, e)
    BY <1>3 DEF Offered
  <2>2. /\ Append(stream[s].buffer, e) \in Seq(1..MaxEvents)
        /\ Len(Append(stream[s].buffer, e)) = Len(stream[s].buffer) + 1
    BY <1>1
  <2>3. QED
    BY <1>1, <1>2, <1>3, <2>1, <2>2
<1>4. QED
  BY <1>1, <1>3 DEF Offered

(* The dispatch.                                                           *)
LEMMA DispatchTypes ==
    ASSUME TypeOK, LoopHasEvent, DispatchBegin \/ DispatchNext \/ DispatchEnd
    PROVE  TypeOK'
<1> USE Bounds
<1>0. Nil \in Slice
  BY DEF Nil, Slice, Maybe
<1>1. CASE DispatchBegin
  <2>1. worker' = [pc    |-> IF watchers.len = 0 THEN "idle" ELSE "loop",
                   slice |-> IF watchers.len = 0 THEN Nil ELSE watchers,
                   next  |-> worker.next, event |-> worker.event + 1]
    BY <1>1, WorkerFields DEF DispatchBegin
  <2>2. worker.event + 1 \in 0..MaxEvents
    BY <1>1, WorkerFields DEF DispatchBegin
  <2>3. worker' \in Worker
    BY <1>0, <2>1, <2>2, WorkerFields DEF Worker, TypeOK
  <2>4. QED
    BY <1>1, <2>3 DEF DispatchBegin, TypeOK, agentVars
<1>2. CASE DispatchEnd
  BY <1>0, <1>2, CollectedTyped DEF DispatchEnd, TypeOK, Worker, agentVars
<1>3. CASE DispatchNext
  <2> DEFINE s == array[worker.slice.array][worker.next]
  <2>1. CASE stream[s].closed
    <3>1. worker' = [worker EXCEPT !.pc = "dead", !.slice = Nil, !.next = 1] /\ UNCHANGED stream
      BY <1>3, <2>1 DEF DispatchNext
    <3>2. array' \in [Arrays -> Seq(Maybe(Streams))]
      BY <1>3, <2>1, CollectedTyped DEF DispatchNext, TypeOK
    <3>3. QED
      BY <1>0, <1>3, <3>1, <3>2 DEF DispatchNext, TypeOK, Worker, agentVars
  <2>2. CASE ~stream[s].closed
    <3>1. worker' = [worker EXCEPT !.next = @ + 1] /\ UNCHANGED array
      BY <1>3, <2>2 DEF DispatchNext
    <3>2. worker' \in Worker
      <4>1. worker \in Worker /\ worker.next + 1 \in Nat
        BY WorkerFields DEF TypeOK
      <4>2. QED
        BY <3>1, <4>1 DEF Worker
    <3>3. /\ stream' \in [Streams -> Stream]
          /\ \A t \in Streams : Len(stream'[t].buffer) <= Capacity
      <4>1. worker.event \in 1..MaxEvents
        <5>1. worker.event # 0
          BY <1>3 DEF DispatchNext, LoopHasEvent
        <5>2. QED
          BY <5>1, WorkerFields
      <4>2. CASE stream' = stream
        BY <4>2 DEF TypeOK
      <4>3. CASE stream' = [stream EXCEPT ![s].buffer = Offered(s, worker.event)]
        <5>1. CASE s \in Streams
          <6>1. Offered(s, worker.event) \in Seq(1..MaxEvents) /\ Len(Offered(s, worker.event)) <= Capacity
            BY <4>1, <5>1, OfferedTyped
          <6>2. QED
            BY <4>3, <5>1, <6>1 DEF TypeOK, Stream
        <5>2. CASE s \notin Streams
          BY <4>3, <5>2 DEF TypeOK
        <5>3. QED
          BY <5>1, <5>2
      <4>4. QED
        BY <1>3, <2>2, <4>2, <4>3 DEF DispatchNext
    <3>4. QED
      BY <1>3, <3>1, <3>2, <3>3 DEF DispatchNext, TypeOK, agentVars
  <2>3. QED
    BY <2>1, <2>2
<1>4. QED
  BY <1>1, <1>2, <1>3

-----------------------------------------------------------------------------
(* Memory.                                                                 *)

(* Steps that write no array and start or close no stream.                 *)
LEMMA MemoryFrame ==
    ASSUME TypeOK, Memory,
           array' = array, watchers' = watchers,
           worker'.next # 0, worker'.pc = "loop" => Fits(worker'.slice),
           \A s \in Streams :
              /\ Open(s)' <=> Open(s)
              /\ stream'[s].pc \in {"unused", "opening"} => stream[s].pc \in {"unused", "opening"}
              /\ stream[s].pc \in {"unused", "opening"} =>
                    stream'[s].closed = stream[s].closed /\ stream'[s].buffer = stream[s].buffer
    PROVE  Memory'
<1>1. Fits(watchers)' /\ WatchersAreTheOpenStreams'
  BY SliceKept DEF Memory
<1>2. NewStreamsAreClean'
  BY DEF Memory, NewStreamsAreClean
<1>3. ArraysHoldStarted'
  BY DEF Memory, ArraysHoldStarted, Started
<1>4. LoopInArray'
  BY DEF LoopInArray, Fits
<1>5. QED
  BY <1>1, <1>2, <1>3, <1>4 DEF Memory

(* Agents.                                                                 *)
LEMMA AgentMemory ==
    ASSUME TypeOK, Memory, NEW a \in Agents,
           \/ Start(a) \/ Reregister(a) \/ StreamEnded(a) \/ Exit(a)
           \/ ChangeCapabilities(a) \/ StreamBreaks(a) \/ Stop(a) \/ Kill(a)
           \/ RegisterSave(a) \/ RegisterSet(a) \/ UnregisterDelete(a)
    PROVE  Memory'
<1>1. UNCHANGED <<array, watchers, stream, worker>>
  BY DEF Start, Reregister, StreamEnded, Exit, ChangeCapabilities, StreamBreaks, Stop, Kill,
         CallRegister, RegisterSave, RegisterSet, UnregisterDelete, serverVars
<1>2. QED
  BY <1>1, MemoryFrame DEF Open, Memory, LoopInArray, Fits

(* OpenWatch starts a call; nothing of it is in the server's map yet.      *)
LEMMA WatchMemory ==
    ASSUME TypeOK, Memory, NEW a \in Agents, NEW s \in Streams, OpenWatch(a, s)
    PROVE  Memory'
<1>1. UNCHANGED <<array, watchers, worker>>
  BY DEF OpenWatch
<1>2. stream' = [stream EXCEPT ![s].pc = "opening", ![s].owner = a] /\ stream[s].pc = "unused"
  BY DEF OpenWatch
<1>3. /\ stream'[s].pc = "opening"
      /\ stream'[s].buffer = stream[s].buffer /\ stream'[s].closed = stream[s].closed
      /\ \A t \in Streams : t # s => stream'[t] = stream[t]
  BY <1>2, StreamWritten DEF StreamPC, Maybe
<1>4. QED
  BY <1>1, <1>2, <1>3, MemoryFrame DEF Open, Memory, LoopInArray, Fits

(* Unregister empties the slice and closes what was in it.                 *)
LEMMA UnregisterMemory ==
    ASSUME TypeOK, Memory, NEW a \in Agents, UnregisterClose(a)
    PROVE  Memory'
<1>1. Fits(watchers)' /\ WatchersAreTheOpenStreams'
  BY SliceDropped DEF Memory
<1>2. \A s \in Streams : stream'[s].pc = stream[s].pc /\ stream'[s].buffer = stream[s].buffer
  BY DEF UnregisterClose, TypeOK, Stream
<1>3. NewStreamsAreClean'
  <2>1. \A s \in Streams : s \notin Entries(watchers) => stream'[s] = stream[s]
    BY DEF UnregisterClose
  <2>2. QED
    BY <1>2, <2>1 DEF Memory, NewStreamsAreClean, WatchersAreTheOpenStreams
<1>4. array' = Collected(array, {worker.slice}) /\ worker' = worker
  BY DEF UnregisterClose
<1>5. ArraysHoldStarted'
  BY <1>2, <1>4 DEF Memory, ArraysHoldStarted, Started, Collected
<1>6. LoopInArray'
  BY <1>4 DEF Memory, LoopInArray, Fits, Collected
<1>7. QED
  BY <1>1, <1>3, <1>5, <1>6 DEF Memory

(* Streams.                                                                *)
LEMMA AppendMemory ==
    ASSUME TypeOK, Memory, NEW s \in Streams, AppendWatcher(s)
    PROVE  Memory'
<1> DEFINE n == watchers.len
           b == IF HasRoom THEN watchers.array ELSE CHOOSE c \in Arrays : array[c] = <<>>
<1>0. n \in Nat /\ array \in [Arrays -> Seq(Maybe(Streams))]
  BY DEF TypeOK, Slice
<1>1. Fits(watchers)' /\ WatchersAreTheOpenStreams'
  BY SliceAppended DEF Memory
<1>2. /\ stream'[s].pc = "open" /\ stream'[s].buffer = stream[s].buffer
      /\ \A t \in Streams : t # s => stream'[t] = stream[t]
  BY DEF AppendWatcher, TypeOK, Stream
<1>3. NewStreamsAreClean'
  BY <1>2 DEF Memory, NewStreamsAreClean
<1>4. /\ \A x : Started(x) => Started(x)'
      /\ Started(s)' /\ Started(Nobody)'
  BY <1>2, Bounds DEF Started
<1>5. b \in Arrays /\ watchers' = [array |-> b, len |-> n + 1]
  BY DEF AppendWatcher, HasRoom, TypeOK, Slice, Maybe
<1>6. worker' = worker
  BY DEF AppendWatcher
<1>7. CASE HasRoom
  <2>1. array' = [array EXCEPT ![b] = [array[b] EXCEPT ![n + 1] = s]] /\ n + 1 \in 1..Len(array[b])
    BY <1>0, <1>5, <1>7 DEF AppendWatcher, HasRoom
  <2> HIDE DEF b
  <2>2. array[b] \in Seq(Maybe(Streams)) /\ s \in Maybe(Streams)
    BY <1>0, <1>5 DEF Maybe
  <2>3. /\ DOMAIN array'[b] = DOMAIN array[b] /\ Len(array'[b]) = Len(array[b])
        /\ array'[b][n + 1] = s
        /\ \A i \in DOMAIN array[b] : i # n + 1 => array'[b][i] = array[b][i]
        /\ \A c \in Arrays : c # b => array'[c] = array[c]
    <3>1. array'[b] = [array[b] EXCEPT ![n + 1] = s]
      BY <1>0, <1>5, <2>1
    <3>2. Len(array'[b]) = Len(array[b])
      BY <2>1, <2>2, <3>1, ElementWritten
    <3>3. QED
      BY <1>0, <1>5, <2>1, <2>2, <3>1, <3>2
  <2>4. ArraysHoldStarted'
    BY <1>4, <2>3 DEF Memory, ArraysHoldStarted
  <2>5. LoopInArray'
    BY <1>6, <2>3 DEF Memory, LoopInArray, Fits
  <2>6. QED
    BY <1>1, <1>3, <2>4, <2>5 DEF Memory
<1>8. CASE ~HasRoom
  <2>1. /\ array' = Collected([array EXCEPT ![b] = Grown(s)], {watchers', worker.slice})
        /\ array[b] = <<>>
    BY <1>8 DEF AppendWatcher
  <2>2. ASSUME NEW x, NEW i \in DOMAIN Grown(s), x = Grown(s)[i]
        PROVE  Started(x)'
    <3>1. \A k \in 1..n : Started(array[watchers.array][k])
      <4>1. CASE n = 0
        BY <4>1
      <4>2. CASE n # 0
        <5>1. watchers.array \in Arrays /\ n <= Len(array[watchers.array])
          BY <4>2 DEF Memory, Fits
        <5>2. 1..n \subseteq DOMAIN array[watchers.array]
          BY <1>0, <5>1
        <5>3. QED
          BY <5>1, <5>2 DEF Memory, ArraysHoldStarted
      <4>3. QED
        BY <4>1, <4>2
    <3>2. \/ i \in 1..n /\ x = array[watchers.array][i]
          \/ x \in {s, Nobody}
      BY <1>0, <2>2 DEF Grown
    <3>3. QED
      BY <1>4, <3>1, <3>2
  <2> HIDE DEF b
  <2>3. \A c \in Arrays : \/ array'[c] = array[c]
                          \/ array'[c] = <<>> /\ c # worker.slice.array
                          \/ array'[c] = Grown(s) /\ c = b
    BY <1>0, <2>1 DEF Collected
  <2>4. ArraysHoldStarted'
    <3>1. ASSUME NEW c \in Arrays, NEW x, NEW i \in DOMAIN array'[c], x = array'[c][i]
          PROVE  Started(x)'
      <4>1. CASE array'[c] = array[c]
        <5>1. Started(x)
          BY <3>1, <4>1 DEF Memory, ArraysHoldStarted
        <5>2. QED
          BY <1>4, <5>1
      <4>2. CASE array'[c] = <<>>
        BY <3>1, <4>2
      <4>3. CASE array'[c] = Grown(s)
        BY <2>2, <3>1, <4>3
      <4>4. QED
        BY <2>3, <4>1, <4>2, <4>3
    <3>2. QED
      BY <3>1 DEF ArraysHoldStarted
  <2>5. LoopInArray'
    <3>1. worker.slice.len \in Nat /\ Len(<<>>) = 0
      BY WorkerFields DEF Slice
    <3>2. Fits(worker.slice) => Fits(worker.slice)'
      <4>1. CASE worker.slice.len = 0
        BY <1>6, <4>1 DEF Fits
      <4>2. CASE worker.slice.len # 0
        <5>1. SUFFICES ASSUME Fits(worker.slice) PROVE Fits(worker.slice)'
          OBVIOUS
        <5>2. /\ worker.slice.array \in Arrays
              /\ worker.slice.len <= Len(array[worker.slice.array])
          BY <4>2, <5>1 DEF Fits
        <5>3. worker.slice.array # b
          BY <2>1, <3>1, <4>2, <5>2
        <5>4. array'[worker.slice.array] = array[worker.slice.array]
          BY <2>3, <5>2, <5>3
        <5>5. QED
          BY <1>6, <5>2, <5>4 DEF Fits
      <4>3. QED
        BY <4>1, <4>2
    <3>3. QED
      BY <1>6, <3>2 DEF Memory, LoopInArray
  <2>6. QED
    BY <1>1, <1>3, <2>4, <2>5 DEF Memory
<1>9. QED
  BY <1>7, <1>8

(* A call that delivers or returns stays in the slice.                     *)
LEMMA DeliverMemory ==
    ASSUME TypeOK, Memory, NEW s \in Streams, Deliver(s) \/ WatchReturns(s)
    PROVE  Memory'
<1>1. UNCHANGED <<array, watchers, worker>>
  BY DEF Deliver, WatchReturns, agentVars
<1>2. /\ stream[s].pc = "open" /\ stream'[s].pc \in {"open", "removing"}
      /\ stream'[s].closed = stream[s].closed
      /\ \A t \in Streams : t # s => stream'[t] = stream[t]
  <2>1. stream[s] \in Stream /\ stream \in [Streams -> Stream]
    BY DEF TypeOK
  <2>2. CASE Deliver(s)
    BY <2>1, <2>2 DEF Deliver, Stream
  <2>3. CASE WatchReturns(s)
    <3> DEFINE r == [stream[s] EXCEPT !.pc = "removing", !.buffer = <<>>]
    <3>1. stream' = [stream EXCEPT ![s] = r]
      BY <2>3 DEF WatchReturns
    <3>2. r.pc = "removing" /\ r.closed = stream[s].closed
      BY <2>1 DEF Stream
    <3>3. QED
      BY <2>1, <2>3, <3>1, <3>2 DEF WatchReturns
  <2>4. QED
    BY <2>2, <2>3
<1>3. QED
  BY <1>1, <1>2, MemoryFrame DEF Open, Memory, LoopInArray, Fits

(* The deferred removal rearranges an array that a dispatch may read.      *)
LEMMA RemoveMemory ==
    ASSUME TypeOK, Memory, NEW s \in Streams, RemoveWatcher(s)
    PROVE  Memory'
<1> DEFINE n == watchers.len
           b == watchers.array
<1>0. n \in Nat /\ array \in [Arrays -> Seq(Maybe(Streams))]
  BY DEF TypeOK, Slice
<1>1. Fits(watchers)' /\ WatchersAreTheOpenStreams'
  BY SliceCut DEF Memory
<1>2. /\ stream[s].pc = "removing" /\ stream'[s].pc = "ended"
      /\ \A t \in Streams : t # s => stream'[t] = stream[t]
  <2>1. stream' = [stream EXCEPT ![s].pc = "ended", ![s].owner = Nobody]
    BY DEF RemoveWatcher
  <2>2. QED
    BY <2>1, StreamWritten DEF RemoveWatcher, StreamPC, Maybe
<1>3. NewStreamsAreClean'
  BY <1>2 DEF Memory, NewStreamsAreClean
<1>4. \A x : Started(x) => Started(x)'
  BY <1>2 DEF Started
<1> DEFINE Moved ==
      /\ \A c \in Arrays : Len(array'[c]) = Len(array[c])
      /\ \A c \in Arrays : \A i \in DOMAIN array'[c] :
           \E j \in DOMAIN array[c] : array'[c][i] = array[c][j]
<1>5. Moved
  <2>1. CASE UNCHANGED <<array, watchers>>
    BY <2>1
  <2>2. ASSUME NEW k \in 1..n,
               array' = [array EXCEPT ![b] =
                           [i \in DOMAIN array[b] |->
                              IF k <= i /\ i < n THEN array[b][i + 1] ELSE array[b][i]]]
        PROVE  Moved
    <3>1. b \in Arrays /\ n <= Len(array[b])
      BY <1>0, <2>2 DEF Memory, Fits
    <3>2. Len(array[b]) \in Nat /\ DOMAIN array[b] = 1..Len(array[b])
      BY <1>0, <3>1
    <3>3. array'[b] = [i \in 1..Len(array[b]) |->
                         IF k <= i /\ i < n THEN array[b][i + 1] ELSE array[b][i]]
      BY <1>0, <2>2, <3>1, <3>2
    <3>4. Len(array'[b]) = Len(array[b]) /\ DOMAIN array'[b] = 1..Len(array[b])
      BY <3>2, <3>3
    <3>5. ASSUME NEW i \in DOMAIN array'[b]
          PROVE  \E j \in DOMAIN array[b] : array'[b][i] = array[b][j]
      <4>1. CASE k <= i /\ i < n
        <5>1. i + 1 \in DOMAIN array[b] /\ array'[b][i] = array[b][i + 1]
          BY <1>0, <3>1, <3>2, <3>3, <3>4, <4>1
        <5>2. QED
          BY <5>1
      <4>2. CASE ~(k <= i /\ i < n)
        BY <3>2, <3>3, <3>4, <4>2
      <4>3. QED
        BY <4>1, <4>2
    <3>6. \A c \in Arrays : c # b => array'[c] = array[c]
      BY <1>0, <2>2
    <3>7. QED
      BY <3>4, <3>5, <3>6
  <2>3. QED
    BY <2>1, <2>2 DEF RemoveWatcher
<1>6. ArraysHoldStarted'
  BY <1>4, <1>5 DEF Memory, ArraysHoldStarted
<1>7. LoopInArray'
  <2>1. worker' = worker
    BY DEF RemoveWatcher
  <2>2. QED
    BY <1>5, <2>1 DEF Memory, LoopInArray, Fits
<1>8. QED
  BY <1>1, <1>3, <1>6, <1>7 DEF Memory

(* What the dispatch reads has been appended, so it fills no new stream.   *)
LEMMA NextIsStarted ==
    ASSUME TypeOK, Memory, worker.pc = "loop", worker.next <= worker.slice.len
    PROVE  Started(array[worker.slice.array][worker.next])
<1> DEFINE q == array[worker.slice.array]
<1>1. worker.next \in Nat /\ worker.next # 0 /\ worker.slice.len \in Nat
  BY WorkerFields DEF Memory, LoopInArray, Slice
<1>2. worker.slice.array \in Arrays /\ worker.slice.len <= Len(q)
  BY <1>1 DEF Memory, LoopInArray, Fits
<1>3. q \in Seq(Maybe(Streams))
  BY <1>2 DEF TypeOK
<1>4. worker.next \in DOMAIN q
  BY <1>1, <1>2, <1>3
<1>5. QED
  BY <1>2, <1>4 DEF Memory, ArraysHoldStarted

(* The arrays kept when the loop ends or dies are the slice's.             *)
LEMMA CollectMemory ==
    ASSUME TypeOK, Memory, array' = Collected(array, {watchers}), UNCHANGED <<watchers, stream>>,
           worker'.next # 0, worker'.pc # "loop"
    PROVE  Memory'
<1>1. Fits(watchers)' /\ WatchersAreTheOpenStreams'
  BY SliceKept DEF Memory, Collected, Open
<1>2. NewStreamsAreClean' /\ LoopInArray'
  BY DEF Memory, NewStreamsAreClean, LoopInArray
<1>3. \A c \in Arrays : array'[c] = array[c] \/ array'[c] = <<>>
  BY DEF Collected
<1>4. ArraysHoldStarted'
  <2>1. \A x : Started(x)' <=> Started(x)
    BY DEF Started
  <2>2. ASSUME NEW c \in Arrays, NEW x, NEW i \in DOMAIN array'[c], x = array'[c][i]
        PROVE  Started(x)
    <3>1. array'[c] # <<>>
      BY <2>2
    <3>2. array'[c] = array[c]
      BY <1>3, <3>1
    <3>3. QED
      BY <2>2, <3>2 DEF Memory, ArraysHoldStarted
  <2>3. QED
    BY <2>1, <2>2 DEF ArraysHoldStarted
<1>5. QED
  BY <1>1, <1>2, <1>4 DEF Memory

(* A dispatch fills buffers of streams that have been appended only.       *)
LEMMA DispatchMemory ==
    ASSUME TypeOK, Memory, DispatchBegin \/ DispatchNext \/ DispatchEnd
    PROVE  Memory'
<1>1. CASE DispatchBegin
  <2>1. /\ worker'.next = worker.next
        /\ worker'.pc = "loop" => worker'.slice = watchers
    BY <1>1, WorkerFields DEF DispatchBegin
  <2>2. UNCHANGED <<array, watchers, stream>>
    BY <1>1 DEF DispatchBegin
  <2>3. QED
    BY <2>1, <2>2, MemoryFrame DEF Memory, Open, LoopInArray
<1>2. CASE DispatchEnd
  BY <1>2, CollectMemory, WorkerFields DEF DispatchEnd
<1>3. CASE DispatchNext
  <2> DEFINE s == array[worker.slice.array][worker.next]
  <2>1. CASE stream[s].closed
    <3>1. /\ worker' = [worker EXCEPT !.pc = "dead", !.slice = Nil, !.next = 1]
          /\ array' = Collected(array, {watchers})
          /\ UNCHANGED <<watchers, stream>>
      BY <1>3, <2>1 DEF DispatchNext
    <3>2. worker'.pc = "dead" /\ worker'.next = 1
      BY <3>1, WorkerFields
    <3>3. QED
      BY <3>1, <3>2, CollectMemory
  <2>2. CASE ~stream[s].closed
    <3>1. /\ worker' = [worker EXCEPT !.next = @ + 1]
          /\ UNCHANGED <<array, watchers>>
          /\ worker.pc = "loop" /\ worker.next <= worker.slice.len
          /\ \/ stream' = stream
             \/ stream' = [stream EXCEPT ![s].buffer = Offered(s, worker.event)]
      BY <1>3, <2>2 DEF DispatchNext
    <3>2. Started(s)
      BY <3>1, NextIsStarted
    <3>3. /\ worker'.next = worker.next + 1 /\ worker'.slice = worker.slice
          /\ worker'.next # 0
      BY <3>1, WorkerFields
    <3>4. \A t \in Streams :
             /\ stream'[t].pc = stream[t].pc /\ stream'[t].closed = stream[t].closed
             /\ t # s => stream'[t] = stream[t]
      <4>1. stream \in [Streams -> Stream]
        BY DEF TypeOK
      <4> HIDE DEF s
      <4>2. CASE stream' = stream
        BY <4>2
      <4>3. CASE stream' = [stream EXCEPT ![s].buffer = Offered(s, worker.event)]
        BY <4>1, <4>3 DEF Stream
      <4>4. QED
        BY <3>1, <4>2, <4>3
    <3> HIDE DEF s
    <3>5. \A t \in Streams : stream[t].pc \in {"unused", "opening"} => t # s
      BY <3>2 DEF Started
    <3>6. Fits(worker.slice)
      BY <3>1 DEF Memory, LoopInArray
    <3>7. QED
      BY <3>1, <3>3, <3>4, <3>5, <3>6, MemoryFrame DEF Open
  <2>3. QED
    BY <2>1, <2>2
<1>4. QED
  BY <1>1, <1>2, <1>3

-----------------------------------------------------------------------------
(* Events.                                                                 *)

(* Steps that touch no buffer and at most let go of a stream.              *)
LEMMA EventsFrame ==
    ASSUME Events, worker'.event = worker.event, worker'.pc = "loop" => worker.pc = "loop",
           \A s \in Streams : stream'[s].buffer = stream[s].buffer,
           \A a \in Agents : /\ agent'[a].last = agent[a].last
                             /\ agent'[a].stream \in {agent[a].stream, Nobody}
    PROVE  Events'
<1>1. LoopHasEvent' /\ \A s \in Streams : InOrder(s)'
  BY DEF Events, LoopHasEvent, InOrder
<1>2. \A a \in Agents : NotOlder(a)'
  BY Bounds DEF Events, NotOlder
<1>3. QED
  BY <1>1, <1>2 DEF Events

(* Agents and handlers at most let go of a stream.                         *)
LEMMA AgentEvents ==
    ASSUME TypeOK, Events, NEW a \in Agents,
           \/ Start(a) \/ Reregister(a) \/ StreamEnded(a) \/ Exit(a)
           \/ ChangeCapabilities(a) \/ StreamBreaks(a) \/ Stop(a) \/ Kill(a) \/ HandlerStep(a)
    PROVE  Events'
<1>1. worker' = worker
  BY DEF Start, Reregister, StreamEnded, Exit, ChangeCapabilities, StreamBreaks, Stop, Kill,
         CallRegister, HandlerStep, RegisterSave, RegisterSet, UnregisterDelete,
         UnregisterClose, serverVars
<1>2. \A s \in Streams : stream'[s].buffer = stream[s].buffer
  <2>1. CASE UnregisterClose(a)
    BY <2>1 DEF UnregisterClose, TypeOK, Stream
  <2>2. CASE stream' = stream
    BY <2>2
  <2>3. QED
    BY <2>1, <2>2
    DEF Start, Reregister, StreamEnded, Exit, ChangeCapabilities, StreamBreaks, Stop, Kill,
        CallRegister, HandlerStep, RegisterSave, RegisterSet, UnregisterDelete, serverVars
<1> DEFINE LetGo == \A c \in Agents : /\ agent'[c].last = agent[c].last
                                      /\ agent'[c].stream \in {agent[c].stream, Nobody}
<1>3. LetGo
  <2>1. ASSUME NEW pc, agent' = [agent EXCEPT ![a].pc = pc] PROVE LetGo
    BY <2>1 DEF TypeOK, Agent
  <2>2. ASSUME NEW pc \in AgentPC, agent' = [agent EXCEPT ![a].pc = pc, ![a].stream = Nobody]
        PROVE  LetGo
    BY <2>2, AgentWritten DEF Maybe
  <2>3. CASE agent' = agent
    BY <2>3
  <2>4. CASE Start(a) \/ Reregister(a) \/ ChangeCapabilities(a) \/ Exit(a)
    BY <2>1, <2>4 DEF Start, Reregister, ChangeCapabilities, CallRegister, Exit
  <2>5. CASE StreamEnded(a) \/ StreamBreaks(a) \/ Kill(a)
    BY <2>2, <2>5 DEF StreamEnded, StreamBreaks, Kill, AgentPC
  <2>6. CASE Stop(a)
    <3>1. agent' = [agent EXCEPT ![a].pc = IF agent[a].pc = "starting" THEN "gone" ELSE "stopping",
                                 ![a].stream = Nobody]
      BY <2>6 DEF Stop, TypeOK, Agent
    <3>2. QED
      BY <2>2, <3>1 DEF AgentPC
  <2>7. CASE HandlerStep(a)
    BY <2>1, <2>3, <2>7 DEF HandlerStep, RegisterSave, RegisterSet, UnregisterClose, UnregisterDelete
  <2>8. QED
    BY <2>4, <2>5, <2>6, <2>7
<1>4. QED
  BY <1>1, <1>2, <1>3, EventsFrame

(* A new stream is empty, so it owes its agent nothing old.                *)
LEMMA WatchEvents ==
    ASSUME TypeOK, Memory, Events, NEW a \in Agents, NEW s \in Streams, OpenWatch(a, s)
    PROVE  Events'
<1>1. worker' = worker /\ stream[s].buffer = <<>>
  BY DEF OpenWatch, Memory, NewStreamsAreClean
<1>2. \A t \in Streams : stream'[t].buffer = stream[t].buffer
  <2>1. stream' = [stream EXCEPT ![s].pc = "opening", ![s].owner = a]
    BY DEF OpenWatch
  <2>2. QED
    BY <2>1, StreamWritten DEF StreamPC, Maybe
<1>3. /\ agent'[a].stream = s /\ agent'[a].last = agent[a].last
      /\ \A c \in Agents : c # a => agent'[c] = agent[c]
  BY AgentWritten DEF OpenWatch, AgentPC, Maybe
<1>4. LoopHasEvent' /\ \A t \in Streams : InOrder(t)'
  BY <1>1, <1>2 DEF Events, LoopHasEvent, InOrder
<1>5. \A c \in Agents : NotOlder(c)'
  <2>1. NotOlder(a)'
    BY <1>1, <1>2, <1>3 DEF Events, NotOlder
  <2>2. ASSUME NEW c \in Agents, c # a PROVE NotOlder(c)'
    BY <1>1, <1>2, <1>3, <2>2 DEF Events, NotOlder
  <2>3. QED
    BY <2>1, <2>2
<1>6. QED
  BY <1>4, <1>5 DEF Events

(* Editing the slice leaves the buffers.                                   *)
LEMMA SliceEvents ==
    ASSUME TypeOK, Events, NEW s \in Streams, AppendWatcher(s) \/ RemoveWatcher(s)
    PROVE  Events'
<1>1. UNCHANGED <<worker, agent>>
  BY DEF AppendWatcher, RemoveWatcher, agentVars
<1>2. \A t \in Streams : stream'[t].buffer = stream[t].buffer
  <2>1. CASE stream' = [stream EXCEPT ![s].pc = "open"]
    BY <2>1 DEF TypeOK, Stream
  <2>2. CASE stream' = [stream EXCEPT ![s].pc = "ended", ![s].owner = Nobody]
    BY <2>2, StreamWritten DEF StreamPC, Maybe
  <2>3. QED
    BY <2>1, <2>2 DEF AppendWatcher, RemoveWatcher
<1>3. QED
  BY <1>1, <1>2, EventsFrame

(* Delivering takes the oldest event of a buffer.                          *)
LEMMA DeliverEvents ==
    ASSUME TypeOK, Events, NEW s \in Streams, Deliver(s)
    PROVE  /\ Events'
           /\ \A a \in Agents : agent'[a].last >= agent[a].last
<1> DEFINE q == stream[s].buffer
           o == stream[s].owner
<1>1. /\ q \in Seq(1..MaxEvents) /\ q # <<>> /\ Len(q) \in Nat
      /\ stream \in [Streams -> Stream] /\ agent \in [Agents -> Agent]
  BY DEF Deliver, TypeOK, Stream
<1>2. /\ worker' = worker
      /\ stream' = [stream EXCEPT ![s].buffer = Tail(q)]
      /\ agent' = IF Attached(s) THEN [agent EXCEPT ![o].last = Head(q)] ELSE agent
  BY DEF Deliver
<1>3. /\ \A i \in DOMAIN Tail(q) : i + 1 \in DOMAIN q /\ Tail(q)[i] = q[i + 1]
      /\ 1 \in DOMAIN q /\ Head(q) = q[1]
      /\ \A i \in DOMAIN q : i \in Nat /\ i >= 1 /\ q[i] \in Nat
      /\ \A i \in DOMAIN Tail(q) : i \in Nat /\ i >= 1
  <2> HIDE DEF q
  <2>1. Tail(q) \in Seq(1..MaxEvents) /\ Len(Tail(q)) = Len(q) - 1
    BY <1>1, HeadTailProperties
  <2>2. Len(q) > 0
    BY <1>1
  <2>3. \A i \in 1..Len(Tail(q)) : Tail(q)[i] = q[i + 1]
    BY <1>1, <2>1
  <2>4. QED
    BY <1>1, <2>1, <2>2, <2>3, Bounds
<1>4. /\ stream'[s].buffer = Tail(q)
      /\ \A t \in Streams : t # s => stream'[t].buffer = stream[t].buffer
  <2> HIDE DEF q
  <2>1. QED
    BY <1>1, <1>2 DEF Stream
<1>5. \A t \in Streams : InOrder(t)'
  <2>1. ASSUME NEW t \in Streams, t # s PROVE InOrder(t)'
    BY <1>2, <1>4, <2>1 DEF Events, InOrder
  <2>2. InOrder(s)'
    <3>1. InOrder(s)
      BY DEF Events
    <3>2. \A i, j \in DOMAIN Tail(q) : i <= j => Tail(q)[i] <= Tail(q)[j]
      <4>1. ASSUME NEW i \in DOMAIN Tail(q), NEW j \in DOMAIN Tail(q), i <= j
            PROVE  q[i + 1] <= q[j + 1]
        <5>1. i + 1 \in DOMAIN q /\ j + 1 \in DOMAIN q /\ i + 1 <= j + 1
          BY <1>3, <4>1
        <5>2. QED
          BY <3>1, <5>1 DEF InOrder
      <4>2. QED
        BY <1>3, <4>1
    <3>3. \A i \in DOMAIN Tail(q) : Tail(q)[i] <= worker.event
      BY <1>3, <3>1 DEF InOrder
    <3>4. QED
      BY <1>2, <1>4, <3>2, <3>3 DEF InOrder
  <2>3. QED
    BY <2>1, <2>2
<1>6. ASSUME NEW a \in Agents PROVE NotOlder(a)' /\ agent'[a].last >= agent[a].last
  <2>0. agent[a].last \in Nat /\ NotOlder(a)
    BY <1>1 DEF Agent, Events
  <2>1. CASE a = o /\ agent[a].stream = s
    <3>1. agent'[a].last = Head(q) /\ agent'[a].stream = s
      BY <1>1, <1>2, <2>1 DEF Attached, Agent
    <3>2. agent[a].last <= Head(q) /\ Head(q) <= worker.event /\ Head(q) \in Nat
      BY <1>3, <2>0, <2>1 DEF NotOlder, Events, InOrder
    <3>3. \A i \in DOMAIN Tail(q) : Head(q) <= Tail(q)[i]
      BY <1>3 DEF Events, InOrder
    <3>4. NotOlder(a)'
      BY <1>2, <1>4, <3>1, <3>2, <3>3 DEF NotOlder
    <3>5. QED
      BY <2>0, <3>1, <3>2, <3>4
  <2>2. CASE ~(a = o /\ agent[a].stream = s)
    <3>1. agent'[a] = agent[a]
      BY <1>1, <1>2, <2>2 DEF Attached
    <3>2. CASE agent[a].stream = s
      <4>1. \A i \in DOMAIN Tail(q) : agent[a].last <= Tail(q)[i]
        BY <1>3, <2>0, <3>2 DEF NotOlder
      <4>2. NotOlder(a)'
        BY <1>2, <1>4, <2>0, <3>1, <3>2, <4>1 DEF NotOlder
      <4>3. QED
        BY <2>0, <3>1, <4>2
    <3>3. CASE agent[a].stream # s
      <4>1. NotOlder(a)'
        BY <1>2, <1>4, <2>0, <3>1, <3>3 DEF NotOlder
      <4>2. QED
        BY <2>0, <3>1, <4>1
    <3>4. QED
      BY <3>2, <3>3
  <2>3. QED
    BY <2>1, <2>2
<1>7. LoopHasEvent'
  BY <1>2 DEF Events, LoopHasEvent
<1>8. QED
  BY <1>5, <1>6, <1>7 DEF Events

(* A call that ends leaves its buffer behind.                              *)
LEMMA ReturnEvents ==
    ASSUME TypeOK, Events, NEW s \in Streams, WatchReturns(s)
    PROVE  Events'
<1>1. UNCHANGED <<agent, worker>>
  BY DEF WatchReturns, agentVars
<1>2. /\ stream'[s].buffer = <<>>
      /\ \A t \in Streams : t # s => stream'[t] = stream[t]
  <2>1. stream[s] \in Stream /\ stream \in [Streams -> Stream]
    BY DEF TypeOK
  <2> DEFINE r == [stream[s] EXCEPT !.pc = "removing", !.buffer = <<>>]
  <2>2. r.buffer = <<>>
    BY <2>1 DEF Stream
  <2>3. stream' = [stream EXCEPT ![s] = r]
    BY DEF WatchReturns
  <2>4. QED
    BY <2>1, <2>2, <2>3
<1>3. \A t \in Streams : InOrder(t)'
  BY <1>1, <1>2 DEF Events, InOrder
<1>4. \A a \in Agents : NotOlder(a)'
  BY <1>1, <1>2 DEF Events, NotOlder
<1>5. LoopHasEvent'
  BY <1>1 DEF Events, LoopHasEvent
<1>6. QED
  BY <1>3, <1>4, <1>5 DEF Events

(* A dispatch puts the newest event at the end.                            *)
LEMMA OfferEvents ==
    ASSUME TypeOK, Events, NEW s \in Streams, NEW e \in Nat, e = worker.event,
           worker'.event = e, worker'.pc = "loop" => worker.pc = "loop", agent' = agent,
           stream'[s].buffer = Offered(s, e),
           \A t \in Streams : t # s => stream'[t].buffer = stream[t].buffer
    PROVE  Events'
<1> DEFINE q == stream[s].buffer
<1>1. q \in Seq(1..MaxEvents) /\ Len(q) \in Nat
  BY DEF TypeOK, Stream
<1>2. CASE stream'[s].buffer = q
  <2>1. \A t \in Streams : stream'[t].buffer = stream[t].buffer
    BY <1>2
  <2>2. QED
    BY <2>1, EventsFrame
<1>3. CASE stream'[s].buffer = Append(q, e)
  <2>1. /\ \A i \in DOMAIN q : i \in Nat /\ i <= Len(q) /\ q[i] \in Nat /\ Append(q, e)[i] = q[i]
        /\ Append(q, e)[Len(q) + 1] = e
        /\ DOMAIN Append(q, e) = DOMAIN q \cup {Len(q) + 1}
    <3> HIDE DEF q
    <3>1. DOMAIN q = 1..Len(q)
      BY <1>1
    <3>2. \A i \in DOMAIN q : i \in Nat /\ i <= Len(q) /\ q[i] \in Nat
      BY <1>1, Bounds
    <3>3. /\ DOMAIN Append(q, e) = 1..(Len(q) + 1)
          /\ Append(q, e)[Len(q) + 1] = e
          /\ \A i \in 1..Len(q) : Append(q, e)[i] = q[i]
      BY <1>1
    <3>4. QED
      BY <1>1, <3>1, <3>2, <3>3
  <2> DEFINE r == Append(q, e)
  <2> HIDE DEF r
  <2>2. \A i \in DOMAIN q : q[i] <= e
    BY DEF Events, InOrder
  <2>3. \A i \in DOMAIN r : r[i] <= e
    BY <2>1, <2>2 DEF r
  <2>4. \A i, j \in DOMAIN r : i <= j => r[i] <= r[j]
    <3>1. \A i, j \in DOMAIN q : i <= j => q[i] <= q[j]
      BY DEF Events, InOrder
    <3>2. \A i \in DOMAIN q : ~(Len(q) + 1 <= i)
      BY <1>1, <2>1
    <3>3. QED
      BY <2>1, <2>2, <3>1, <3>2 DEF r
  <2>5. ASSUME NEW t \in Streams PROVE InOrder(t)'
    <3>1. CASE t = s
      BY <1>3, <2>3, <2>4, <3>1 DEF InOrder, r
    <3>2. CASE t # s
      BY <3>2 DEF Events, InOrder
    <3>3. QED
      BY <3>1, <3>2
  <2>6. ASSUME NEW a \in Agents PROVE NotOlder(a)'
    <3>1. NotOlder(a)
      BY DEF Events
    <3>2. CASE agent[a].stream = s
      <4>1. \A i \in DOMAIN r : agent[a].last <= r[i]
        BY <2>1, <3>1, <3>2 DEF NotOlder, r
      <4>2. QED
        BY <1>3, <3>1, <3>2, <4>1 DEF NotOlder, r
    <3>3. CASE agent[a].stream # s
      BY <3>1, <3>3 DEF NotOlder
    <3>4. QED
      BY <3>2, <3>3
  <2>7. LoopHasEvent'
    BY DEF Events, LoopHasEvent
  <2>8. QED
    BY <2>5, <2>6, <2>7 DEF Events
<1>4. QED
  BY <1>2, <1>3 DEF Offered

(* The dispatch numbers events upwards and offers the newest.              *)
LEMMA DispatchEvents ==
    ASSUME TypeOK, Memory, Events, DispatchBegin \/ DispatchNext \/ DispatchEnd
    PROVE  Events'
<1>0. agent' = agent
  BY DEF DispatchBegin, DispatchNext, DispatchEnd, agentVars
<1>1. CASE DispatchBegin
  <2>1. stream' = stream /\ worker'.event = worker.event + 1
    BY <1>1, WorkerFields DEF DispatchBegin
  <2>2. worker.event \in Nat
    BY WorkerFields
  <2>3. \A s \in Streams : \A i \in DOMAIN stream[s].buffer : stream[s].buffer[i] \in Nat
    BY Bounds DEF TypeOK, Stream
  <2>4. LoopHasEvent' /\ \A s \in Streams : InOrder(s)'
    BY <2>1, <2>2, <2>3 DEF Events, LoopHasEvent, InOrder
  <2>5. \A a \in Agents : agent[a].last \in Nat
    BY DEF TypeOK, Agent
  <2>6. \A a \in Agents : NotOlder(a)'
    BY <1>0, <2>1, <2>2, <2>5 DEF Events, NotOlder
  <2>7. QED
    BY <2>4, <2>6 DEF Events
<1>2. CASE DispatchEnd
  <2>1. worker'.event = worker.event /\ worker'.pc = "idle" /\ stream' = stream
    BY <1>2, WorkerFields DEF DispatchEnd
  <2>2. QED
    BY <1>0, <2>1, EventsFrame
<1>3. CASE DispatchNext
  <2> DEFINE s == array[worker.slice.array][worker.next]
  <2>1. /\ worker'.event = worker.event
        /\ worker.pc = "loop"
        /\ \/ stream' = stream
           \/ stream' = [stream EXCEPT ![s].buffer = Offered(s, worker.event)]
    <3>1. worker'.event = worker.event
      BY <1>3, WorkerFields DEF DispatchNext
    <3>2. QED
      BY <1>3, <3>1 DEF DispatchNext
  <2> HIDE DEF s
  <2>2. stream \in [Streams -> Stream]
    BY DEF TypeOK
  <2>3. CASE stream' = stream
    BY <1>0, <2>1, <2>3, EventsFrame
  <2>4. CASE stream' = [stream EXCEPT ![s].buffer = Offered(s, worker.event)] /\ s \in Streams
    <3>1. /\ stream'[s].buffer = Offered(s, worker.event)
          /\ \A t \in Streams : t # s => stream'[t].buffer = stream[t].buffer
      BY <2>2, <2>4 DEF Stream
    <3>2. worker.event \in Nat
      BY WorkerFields
    <3>3. QED
      BY <1>0, <2>1, <2>4, <3>1, <3>2, OfferEvents
  <2>5. CASE stream' = [stream EXCEPT ![s].buffer = Offered(s, worker.event)] /\ s \notin Streams
    <3>1. stream' = stream
      BY <2>2, <2>5
    <3>2. QED
      BY <1>0, <2>1, <3>1, EventsFrame
  <2>6. QED
    BY <2>1, <2>3, <2>4, <2>5
<1>4. QED
  BY <1>1, <1>2, <1>3

-----------------------------------------------------------------------------
(* The invariant.                                                          *)
(* The invariant holds at first.                                           *)
LEMMA InitIInv == Init => IInv
<1> SUFFICES ASSUME Init PROVE IInv
  OBVIOUS
<1> USE Bounds
<1>0. Nil \in Slice
  BY DEF Nil, Slice, Maybe
<1>1. TypeOK
  <2>1. agent \in [Agents -> Agent]
    BY DEF Init, Agent, AgentPC, Maybe
  <2>2. /\ stream \in [Streams -> Stream]
        /\ \A s \in Streams : Len(stream[s].buffer) <= Capacity
    BY DEF Init, Stream, StreamPC, Maybe
  <2>3. worker \in Worker
    BY <1>0 DEF Init, Worker
  <2>4. array \in [Arrays -> Seq(Maybe(Streams))]
    BY DEF Init
  <2>5. /\ registering \in [Agents -> {"idle", "save", "set"}]
        /\ unregistering \in [Agents -> {"idle", "close", "delete", "done"}]
    BY DEF Init
  <2>6. stored \in BOOLEAN /\ registered \in BOOLEAN
    BY DEF Init
  <2>7. watchers \in Slice
    BY <1>0 DEF Init
  <2>8. breaks \in 0..MaxBreaks
    BY DEF Init
  <2>9. QED
    BY <2>1, <2>2, <2>3, <2>4, <2>5, <2>6, <2>7, <2>8 DEF TypeOK
<1>2. Memory
  <2>1. 1..watchers.len = {} /\ watchers.len = 0
    BY DEF Init, Nil
  <2>2. Fits(watchers) /\ WatchersAreTheOpenStreams
    BY <2>1 DEF Fits, WatchersAreTheOpenStreams, Entries, Init
  <2>3. NewStreamsAreClean /\ ArraysHoldStarted /\ LoopInArray
    BY DEF Init, NewStreamsAreClean, ArraysHoldStarted, LoopInArray
  <2>4. QED
    BY <2>2, <2>3 DEF Memory
<1>3. Events
  BY DEF Init, Events, LoopHasEvent, InOrder, NotOlder
<1>4. QED
  BY <1>1, <1>2, <1>3 DEF IInv

(* Every step keeps it.                                                    *)
LEMMA NextIInv == IInv /\ [Next]_vars => IInv'
<1> SUFFICES ASSUME IInv, [Next]_vars PROVE IInv'
  OBVIOUS
<1> USE DEF IInv
<1>1. CASE UNCHANGED vars
  BY <1>1 DEF vars, TypeOK, Memory, Events, Fits, WatchersAreTheOpenStreams, Entries,
              NewStreamsAreClean, ArraysHoldStarted, Started, LoopInArray, LoopHasEvent,
              InOrder, NotOlder
<1>2. ASSUME NEW a \in Agents,
             \/ Start(a) \/ Reregister(a) \/ StreamEnded(a) \/ Exit(a)
             \/ ChangeCapabilities(a) \/ StreamBreaks(a) \/ Stop(a) \/ Kill(a)
      PROVE  IInv'
  BY <1>2, AgentTypes, AgentMemory, AgentEvents
<1>3. ASSUME NEW a \in Agents, HandlerStep(a) PROVE IInv'
  <2>1. Memory'
    BY <1>3, AgentMemory, UnregisterMemory DEF HandlerStep
  <2>2. QED
    BY <1>3, <2>1, HandlerTypes, AgentEvents
<1>4. ASSUME NEW a \in Agents, NEW s \in Streams, OpenWatch(a, s) PROVE IInv'
  BY <1>4, HandlerTypes, WatchMemory, WatchEvents
<1>5. ASSUME NEW s \in Streams, StreamStep(s) PROVE IInv'
  <2>1. TypeOK'
    BY <1>5, StreamTypes DEF Memory
  <2>2. Memory'
    BY <1>5, AppendMemory, DeliverMemory, RemoveMemory DEF StreamStep
  <2>3. Events'
    BY <1>5, SliceEvents, DeliverEvents, ReturnEvents DEF StreamStep
  <2>4. QED
    BY <2>1, <2>2, <2>3
<1>6. CASE DispatchBegin \/ DispatchNext \/ DispatchEnd
  BY <1>6, DispatchTypes, DispatchMemory, DispatchEvents DEF Events
<1>7. QED
  BY <1>1, <1>2, <1>3, <1>4, <1>5, <1>6 DEF Next, AgentStep

(* The inductive invariant holds.                                          *)
THEOREM Invariance == Spec => []IInv
<1>1. Init => IInv
  BY InitIInv
<1>2. IInv /\ [Next]_vars => IInv'
  BY NextIInv
<1>3. QED
  BY <1>1, <1>2, PTL DEF Spec

(* Every variable keeps its type; a channel never holds more than its      *)
(* capacity.                                                               *)
THEOREM TypeCorrect == Spec => []TypeOK
<1>1. IInv => TypeOK
  BY DEF IInv
<1>2. QED
  BY <1>1, Invariance, PTL

(* The slice in the server's map holds the channel of every running        *)
(* WatchResources call exactly once, and no closed one, although append,   *)
(* the in-place removal of the deferred function and Unregister edit it in *)
(* any order and reuse its arrays.                                         *)
THEOREM SliceIsTheOpenStreams == Spec => []WatchersAreTheOpenStreams
<1>1. IInv => WatchersAreTheOpenStreams
  BY DEF IInv, Memory
<1>2. QED
  BY <1>1, Invariance, PTL

(* No agent receives an older event after a newer one: DispatchResource-   *)
(* Event and WatchResources keep the order over all streams of an agent.   *)
THEOREM InOrderOfDispatch == Spec => ReceivedInOrder
<1> DEFINE Step == \A a \in Agents : agent'[a].last >= agent[a].last
<1>1. IInv /\ [Next]_vars => [Step]_vars
  <2> SUFFICES ASSUME IInv, Next PROVE Step
    BY DEF vars
  <2>0. TypeOK /\ Memory /\ Events /\ \A a \in Agents : agent[a].last \in Nat
    BY DEF IInv, TypeOK, Agent
  <2>1. ASSUME \A a \in Agents : agent'[a].last = agent[a].last PROVE Step
    BY <2>0, <2>1
  <2>2. ASSUME NEW s \in Streams, Deliver(s) PROVE Step
    BY <2>0, <2>2, DeliverEvents
  <2>3. CASE agent' = agent
    BY <2>1, <2>3
  <2>4. ASSUME NEW a \in Agents, NEW pc, agent' = [agent EXCEPT ![a].pc = pc] PROVE Step
    BY <2>0, <2>1, <2>4 DEF TypeOK, Agent
  <2>5. ASSUME NEW a \in Agents, NEW pc \in AgentPC, NEW s \in Maybe(Streams),
               agent' = [agent EXCEPT ![a].pc = pc, ![a].stream = s]
        PROVE  Step
    BY <2>0, <2>1, <2>5, AgentWritten
  <2>6. ASSUME NEW a \in Agents,
               Start(a) \/ Reregister(a) \/ ChangeCapabilities(a) \/ Exit(a) \/ HandlerStep(a)
        PROVE  Step
    BY <2>3, <2>4, <2>6
    DEF Start, Reregister, ChangeCapabilities, CallRegister, Exit,
        HandlerStep, RegisterSave, RegisterSet, UnregisterClose, UnregisterDelete
  <2>7. ASSUME NEW a \in Agents, StreamEnded(a) \/ StreamBreaks(a) \/ Kill(a) PROVE Step
    BY <2>5, <2>7 DEF StreamEnded, StreamBreaks, Kill, AgentPC, Maybe
  <2>8. ASSUME NEW a \in Agents, Stop(a) PROVE Step
    <3>1. agent' = [agent EXCEPT ![a].pc = IF agent[a].pc = "starting" THEN "gone" ELSE "stopping",
                                 ![a].stream = Nobody]
      BY <2>0, <2>8 DEF Stop, TypeOK, Agent
    <3>2. QED
      BY <2>5, <3>1 DEF AgentPC, Maybe
  <2>9. ASSUME NEW a \in Agents, NEW s \in Streams, OpenWatch(a, s) PROVE Step
    BY <2>5, <2>9 DEF OpenWatch, AgentPC, Maybe
  <2>10. ASSUME NEW s \in Streams, StreamStep(s) PROVE Step
    BY <2>2, <2>3, <2>10 DEF StreamStep, AppendWatcher, WatchReturns, RemoveWatcher, agentVars
  <2>11. CASE DispatchBegin \/ DispatchNext \/ DispatchEnd
    BY <2>3, <2>11 DEF DispatchBegin, DispatchNext, DispatchEnd, agentVars
  <2>12. QED
    BY <2>6, <2>7, <2>8, <2>9, <2>10, <2>11 DEF Next, AgentStep
<1>2. QED
  BY <1>1, Invariance, PTL DEF Spec, ReceivedInOrder

-----------------------------------------------------------------------------
(* Registrations.                                                          *)

(* An agent unregisters once, when it stops.                               *)
UnregistersOnce ==
    \A a \in Agents :
        agent[a].pc \in {"new", "starting", "watch", "watching", "sleeping", "registering"}
            => unregistering[a] = "idle"

(* If the database has what the map has not, a call is being served that   *)
(* will write the one or the other.                                        *)
ToBeSettled ==
    stored => \/ registered
              \/ \E a \in Agents : registering[a] = "set" \/ unregistering[a] = "delete"

RegInv == TypeOK /\ UnregistersOnce /\ ToBeSettled

(* Agents begin calls but serve none.                                      *)
LEMMA AgentRegistrations ==
    ASSUME RegInv, NEW a \in Agents,
           \/ Start(a) \/ Reregister(a) \/ StreamEnded(a) \/ Exit(a)
           \/ ChangeCapabilities(a) \/ StreamBreaks(a) \/ Stop(a) \/ Kill(a)
           \/ \E s \in Streams : OpenWatch(a, s)
    PROVE  UnregistersOnce' /\ ToBeSettled'
<1> USE DEF RegInv
<1>0. /\ agent \in [Agents -> Agent]
      /\ registering \in [Agents -> {"idle", "save", "set"}]
      /\ unregistering \in [Agents -> {"idle", "close", "delete", "done"}]
  BY DEF TypeOK
<1>1. ASSUME NEW pc, CallRegister(a, pc),
             agent[a].pc \in {"new", "sleeping", "watching"}
      PROVE  UnregistersOnce' /\ ToBeSettled'
  BY <1>0, <1>1 DEF CallRegister, serverVars, UnregistersOnce, ToBeSettled, Agent
<1>2. CASE Start(a) \/ Reregister(a) \/ ChangeCapabilities(a)
  BY <1>1, <1>2 DEF Start, Reregister, ChangeCapabilities
<1>3. CASE \/ StreamEnded(a) \/ Exit(a) \/ StreamBreaks(a) \/ Kill(a)
           \/ \E s \in Streams : OpenWatch(a, s)
  <2>1. UNCHANGED <<stored, registered, registering, unregistering>>
    BY <1>3 DEF StreamEnded, Exit, StreamBreaks, Kill, OpenWatch, serverVars
  <2>2. \A c \in Agents : \/ agent'[c].pc = agent[c].pc
                          \/ agent[c].pc \in {"watch", "watching"}
                          \/ agent'[c].pc = "gone"
    BY <1>0, <1>3 DEF StreamEnded, Exit, StreamBreaks, Kill, OpenWatch, Agent
  <2>3. QED
    BY <2>1, <2>2 DEF UnregistersOnce, ToBeSettled
<1>4. CASE Stop(a)
  <2>1. UNCHANGED <<stored, registered, registering>>
    BY <1>4 DEF Stop, serverVars
  <2>2. unregistering[a] = "idle"
    BY <1>4 DEF Stop, UnregistersOnce
  <2>3. /\ agent'[a].pc \in {"gone", "stopping"}
        /\ \A c \in Agents : c # a => /\ agent'[c].pc = agent[c].pc
                                      /\ unregistering'[c] = unregistering[c]
    BY <1>0, <1>4 DEF Stop, Agent
  <2>4. QED
    BY <2>1, <2>2, <2>3 DEF UnregistersOnce, ToBeSettled
<1>5. QED
  BY <1>2, <1>3, <1>4

(* Register ends in the map, Unregister in the database.                   *)
LEMMA HandlerRegistrations ==
    ASSUME RegInv, NEW a \in Agents, HandlerStep(a)
    PROVE  UnregistersOnce' /\ ToBeSettled'
<1> USE DEF RegInv
<1>0. /\ agent \in [Agents -> Agent]
      /\ registering \in [Agents -> {"idle", "save", "set"}]
      /\ unregistering \in [Agents -> {"idle", "close", "delete", "done"}]
  BY DEF TypeOK
<1>1. CASE RegisterSave(a)
  BY <1>0, <1>1 DEF RegisterSave, UnregistersOnce, ToBeSettled
<1>2. CASE RegisterSet(a)
  <2>1. \A c \in Agents : agent'[c].pc = agent[c].pc
                           \/ agent[c].pc \in {"starting", "registering"}
    BY <1>0, <1>2 DEF RegisterSet, Agent
  <2>2. registered' /\ unregistering' = unregistering
    BY <1>2 DEF RegisterSet
  <2>3. QED
    BY <2>1, <2>2 DEF UnregistersOnce, ToBeSettled
<1>3. CASE UnregisterClose(a)
  BY <1>0, <1>3 DEF UnregisterClose, UnregistersOnce, ToBeSettled
<1>4. CASE UnregisterDelete(a)
  BY <1>0, <1>4 DEF UnregisterDelete, UnregistersOnce, ToBeSettled
<1>5. QED
  BY <1>1, <1>2, <1>3, <1>4 DEF HandlerStep

(* When no agent's call is being served, an environment that the agents    *)
(* left in the database is in the map placement reads, whoever registered  *)
(* and unregistered in whichever order.                                    *)
THEOREM WhatIsStoredIsRegistered == Spec => []StoredIsRegistered
<1>1. Init => UnregistersOnce /\ ToBeSettled
  BY DEF Init, UnregistersOnce, ToBeSettled
<1>2. ASSUME TypeOK, TypeOK', UnregistersOnce, ToBeSettled, [Next]_vars
      PROVE  UnregistersOnce' /\ ToBeSettled'
  <2>1. RegInv
    BY <1>2 DEF RegInv
  <2>2. CASE UNCHANGED <<agent, registering, unregistering, stored, registered>>
    BY <1>2, <2>2 DEF UnregistersOnce, ToBeSettled
  <2>3. ASSUME NEW s \in Streams, StreamStep(s)
        PROVE  \A a \in Agents : agent'[a].pc = agent[a].pc
    <3>1. CASE agent' = agent
      BY <3>1
    <3>2. CASE Deliver(s)
      <4>1. agent \in [Agents -> Agent]
        BY <1>2 DEF TypeOK
      <4>2. \/ agent' = agent
            \/ agent' = [agent EXCEPT ![stream[s].owner].last = Head(stream[s].buffer)]
        BY <3>2 DEF Deliver
      <4>3. QED
        BY <4>1, <4>2 DEF Agent
    <3>3. QED
      BY <2>3, <3>1, <3>2 DEF StreamStep, AppendWatcher, WatchReturns, RemoveWatcher, agentVars
  <2>4. ASSUME NEW s \in Streams, StreamStep(s) PROVE UnregistersOnce' /\ ToBeSettled'
    <3>1. UNCHANGED <<registering, unregistering, stored, registered>>
      BY <2>4 DEF StreamStep, AppendWatcher, Deliver, WatchReturns, RemoveWatcher, agentVars
    <3>2. QED
      BY <1>2, <2>3, <2>4, <3>1 DEF UnregistersOnce, ToBeSettled
  <2>5. CASE DispatchBegin \/ DispatchNext \/ DispatchEnd
    BY <2>2, <2>5 DEF DispatchBegin, DispatchNext, DispatchEnd, agentVars
  <2>6. CASE UNCHANGED vars
    BY <2>2, <2>6 DEF vars
  <2>7. QED
    BY <1>2, <2>1, <2>4, <2>5, <2>6, AgentRegistrations, HandlerRegistrations
    DEF Next, AgentStep
<1>3. ToBeSettled => StoredIsRegistered
  BY DEF ToBeSettled, StoredIsRegistered
<1>4. QED
  BY <1>1, <1>2, <1>3, TypeCorrect, PTL DEF Spec

=============================================================================
