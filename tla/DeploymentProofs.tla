-------------------------- MODULE DeploymentProofs --------------------------
(***************************************************************************)
(* Proofs about Deployment, and Records below it, for any numbers of       *)
(* requests, applications, environments, resources and operations.         *)
(*                                                                         *)
(* Everybody works on copies: a request on the records it found, the       *)
(* controller on the resource.  What a record can become of a copy is the  *)
(* same everywhere (Since): it is the copy, the copy removed, or has a     *)
(* greater ETag.  So a record that is as it was found has been so all the  *)
(* time, and what was true of it when a filter or the controller looked at *)
(* it is true still.                                                       *)
(***************************************************************************)
EXTENDS Deployment, TLAPS

Since(now, old) ==
    /\ old.etag <= now.etag
    /\ now.etag = old.etag => now \in {old, [old EXCEPT !.exists = FALSE]}

(* What a step can do to a record.                                         *)
Step(now, new) ==
    \/ new = now \/ new = [now EXCEPT !.exists = FALSE]
    \/ new.etag = now.etag + 1

Seen == [app : [Apps -> AppRecord], env : [EnvIds -> EnvRecord]]
BeforeEnv == [pc : {"app", "fail", "remove"}, op : Operation, read : Resource, seen : Seen]
AfterEnv  == [pc : {"env", "engine", "fail", "succeed", "remove"}, op : Operation,
              read : Resource, seen : Seen, env : EnvIds]

Active == worker # IdleWorker
Mine   == worker.op.resource

WorkerTyped == Active => worker \in BeforeEnv \cup AfterEnv /\ worker.read.exists

(* The copies that requests and the controller hold.                       *)
RequestCopies ==
    \A q \in Requests :
        /\ request[q].kind = "putEnv" => IdOf[request[q].name] = request[q].env
        /\ request[q].kind = "deleteEnv" => \A a \in Apps : Since(app[a], request[q].seen[a])
WorkerCopies ==
    Active => /\ \A a \in Apps : Since(app[a], worker.seen.app[a])
              /\ \A i \in EnvIds : Since(env[i], worker.seen.env[i])
              /\ Since(resource[Mine], worker.read)

(* The filter's answer holds for the applications that are as they were.   *)
Filtered ==
    \A q \in Requests :
        request[q].kind = "deleteEnv" /\ request[q].pc = "delete" =>
            \A a \in Apps : app[a].exists /\ app[a] = request[q].seen[a] =>
                               app[a].names # request[q].read.name

(* Only a PUT saves a record while the controller works on it.             *)
PutMeanwhile ==
    Active /\ resource[Mine].exists /\ resource[Mine].etag # worker.read.etag
        => resource[Mine].state = "None"

AppAsSeen == app[AppOf[Mine]] = worker.seen.app[AppOf[Mine]]
EnvOfApp ==
    worker.pc = "env" /\ AppAsSeen => worker.env = IdOf[app[AppOf[Mine]].names]

(* What a names has no recipe, or is not what the controller found.        *)
NoRecipe(a) ==
    \/ ~a.exists \/ a.names = NoName
    \/ env[IdOf[a.names]] # worker.seen.env[IdOf[a.names]]
    \/ ~env[IdOf[a.names]].exists \/ ~env[IdOf[a.names]].recipe
RemovesRightly ==
    worker.pc = "remove" =>
        infra[Mine] = Nothing \/ ~AppAsSeen \/ NoRecipe(app[AppOf[Mine]])

Applied == worker.pc = "succeed" => infra[Mine].spec = worker.read.spec

IInv ==
    /\ TypeOK /\ WorkerTyped /\ RequestCopies /\ WorkerCopies /\ Filtered
    /\ PutMeanwhile /\ EnvOfApp /\ RemovesRightly /\ Applied /\ SucceededIsApplied

-----------------------------------------------------------------------------
(* Copies and records.                                                     *)
LEMMA SinceApp ==
    ASSUME NEW now \in AppRecord, NEW old \in AppRecord, NEW new \in AppRecord,
           Since(now, old), Step(now, new)
    PROVE  Since(new, old) /\ (new = old => now = old)
BY DEF Since, Step, AppRecord

LEMMA SinceEnv ==
    ASSUME NEW now \in EnvRecord, NEW old \in EnvRecord, NEW new \in EnvRecord,
           Since(now, old), Step(now, new)
    PROVE  Since(new, old) /\ (new = old => now = old)
BY DEF Since, Step, EnvRecord

LEMMA SinceResource ==
    ASSUME NEW now \in Resource, NEW old \in Resource, NEW new \in Resource,
           Since(now, old), Step(now, new)
    PROVE  Since(new, old) /\ (new = old => now = old)
BY DEF Since, Step, Resource

LEMMA SinceItself ==
    ASSUME NEW x, x.etag \in Nat
    PROVE  Since(x, x)
BY DEF Since

(* The kind of a request tells its type.                                   *)
LEMMA RequestTypes ==
    ASSUME TypeOK, NEW q \in Requests
    PROVE  /\ request[q].kind = "putApp" => request[q] \in PutApp
           /\ request[q].kind = "putEnv" => request[q] \in PutEnv
           /\ request[q].kind = "deleteApp" => request[q] \in DeleteApp
           /\ request[q].kind = "deleteEnv" => request[q] \in DeleteEnv
           /\ request[q].pc = "filter" => request[q] \in DeleteEnv
           /\ request[q].kind \in {"none", "putApp", "putEnv", "deleteApp", "deleteEnv"}
BY DEF TypeOK, RecordsTypeOK, PutApp, PutEnv, DeleteApp, DeleteEnv, Idle, Ended

(* What a save and a removal make of a table.                              *)
LEMMA AppTable ==
    ASSUME TypeOK, NEW a \in Apps, NEW n \in Names \cup {NoName},
           app' = Saves(app, a, ApplicationFromJSON(n)) \/ app' = Removes(app, a)
    PROVE  app' \in [Apps -> AppRecord] /\ \A b \in Apps : Step(app[b], app'[b])
<1>1. \A b \in Apps : app[b] \in AppRecord
  BY DEF TypeOK, RecordsTypeOK
<1>2. CASE app' = Saves(app, a, ApplicationFromJSON(n))
  <2> DEFINE data == ApplicationFromJSON(n)
             new  == [data EXCEPT !.exists = TRUE, !.etag = app[a].etag + 1]
  <2>1. data \in AppRecord
    BY DEF AppRecord, NoApp, ApplicationFromJSON
  <2>2. new \in AppRecord /\ new.etag = app[a].etag + 1
    <3> DEFINE k == app[a].etag + 1
    <3>1. k \in Nat
      BY <1>1 DEF AppRecord
    <3> HIDE DEF data, k
    <3>2. [data EXCEPT !.exists = TRUE, !.etag = k] \in AppRecord
      BY <2>1, <3>1 DEF AppRecord
    <3>3. [data EXCEPT !.exists = TRUE, !.etag = k].etag = k
      BY <2>1 DEF AppRecord
    <3> QED BY <3>2, <3>3 DEF k
  <2>3. app' = [app EXCEPT ![a] = new]
    BY <1>2 DEF Saves
  <2> HIDE DEF new
  <2> QED BY <1>1, <2>2, <2>3 DEF Step, TypeOK, RecordsTypeOK
<1>3. CASE app' = Removes(app, a)
  <2>1. app' = [app EXCEPT ![a] = [app[a] EXCEPT !.exists = FALSE]]
    BY <1>3 DEF Removes
  <2>2. [app[a] EXCEPT !.exists = FALSE] \in AppRecord
    BY <1>1 DEF AppRecord
  <2> QED BY <1>1, <2>1, <2>2 DEF Step, TypeOK, RecordsTypeOK
<1> QED BY <1>2, <1>3

LEMMA EnvTable ==
    ASSUME TypeOK, NEW i \in EnvIds, NEW data \in EnvRecord, IdOf[data.name] = i,
           env' = Saves(env, i, data) \/ env' = Removes(env, i)
    PROVE  /\ env' \in [EnvIds -> EnvRecord] /\ \A k \in EnvIds : Step(env[k], env'[k])
           /\ \A k \in EnvIds : env'[k].exists => IdOf[env'[k].name] = k
<1>1. \A k \in EnvIds : env[k] \in EnvRecord /\ (env[k].exists => IdOf[env[k].name] = k)
  BY DEF TypeOK, RecordsTypeOK
<1>2. CASE env' = Saves(env, i, data)
  <2> DEFINE new == [data EXCEPT !.exists = TRUE, !.etag = env[i].etag + 1]
  <2>2. new \in EnvRecord /\ new.etag = env[i].etag + 1 /\ new.name = data.name
    <3> DEFINE k == env[i].etag + 1
    <3>1. k \in Nat
      BY <1>1 DEF EnvRecord
    <3> HIDE DEF k
    <3>2. [data EXCEPT !.exists = TRUE, !.etag = k] \in EnvRecord
      BY <3>1 DEF EnvRecord
    <3>3. /\ [data EXCEPT !.exists = TRUE, !.etag = k].etag = k
          /\ [data EXCEPT !.exists = TRUE, !.etag = k].name = data.name
      BY DEF EnvRecord
    <3> QED BY <3>2, <3>3 DEF k
  <2>3. env' = [env EXCEPT ![i] = new]
    BY <1>2 DEF Saves
  <2> HIDE DEF new
  <2> QED BY <1>1, <2>2, <2>3 DEF Step, TypeOK, RecordsTypeOK
<1>3. CASE env' = Removes(env, i)
  <2>1. env' = [env EXCEPT ![i] = [env[i] EXCEPT !.exists = FALSE]]
    BY <1>3 DEF Removes
  <2>2. /\ [env[i] EXCEPT !.exists = FALSE] \in EnvRecord
        /\ [env[i] EXCEPT !.exists = FALSE].exists = FALSE
    BY <1>1 DEF EnvRecord
  <2> QED BY <1>1, <2>1, <2>2 DEF Step, TypeOK, RecordsTypeOK
<1> QED BY <1>2, <1>3

LEMMA ResourceTable ==
    ASSUME TypeOK, NEW r \in Resources, NEW data \in Resource
    PROVE  /\ resource' = Saves(resource, r, data) =>
                /\ resource' \in [Resources -> Resource]
                /\ \A s \in Resources : Step(resource[s], resource'[s])
                /\ \A s \in Resources \ {r} : resource'[s] = resource[s]
                /\ resource'[r].spec = data.spec /\ resource'[r].state = data.state
           /\ resource' = Removes(resource, r) =>
                /\ resource' \in [Resources -> Resource]
                /\ \A s \in Resources : Step(resource[s], resource'[s])
                /\ \A s \in Resources \ {r} : resource'[s] = resource[s]
                /\ ~resource'[r].exists
<1>1. \A s \in Resources : resource[s] \in Resource
  BY DEF TypeOK
<1>2. ASSUME resource' = Saves(resource, r, data)
      PROVE  /\ resource' \in [Resources -> Resource]
             /\ \A s \in Resources : Step(resource[s], resource'[s])
             /\ \A s \in Resources \ {r} : resource'[s] = resource[s]
             /\ resource'[r].spec = data.spec /\ resource'[r].state = data.state
  <2> DEFINE k   == resource[r].etag + 1
             new == [data EXCEPT !.exists = TRUE, !.etag = k]
  <2>1. k \in Nat
    BY <1>1 DEF Resource
  <2>2. resource' = [resource EXCEPT ![r] = new]
    BY <1>2 DEF Saves
  <2>3. /\ new \in Resource /\ new.etag = k
        /\ new.spec = data.spec /\ new.state = data.state
    <3> HIDE DEF k
    <3> QED BY <2>1 DEF Resource
  <2> HIDE DEF new
  <2> QED BY <1>1, <2>2, <2>3 DEF Step, TypeOK
<1>3. ASSUME resource' = Removes(resource, r)
      PROVE  /\ resource' \in [Resources -> Resource]
             /\ \A s \in Resources : Step(resource[s], resource'[s])
             /\ \A s \in Resources \ {r} : resource'[s] = resource[s]
             /\ ~resource'[r].exists
  <2> DEFINE new == [resource[r] EXCEPT !.exists = FALSE]
  <2>1. resource' = [resource EXCEPT ![r] = new]
    BY <1>3 DEF Removes
  <2>2. new \in Resource /\ ~new.exists
    BY <1>1 DEF Resource
  <2>3. Step(resource[r], new)
    BY DEF Step
  <2> HIDE DEF new
  <2> QED BY <1>1, <2>1, <2>2, <2>3 DEF Step, TypeOK
<1> QED BY <1>2, <1>3

-----------------------------------------------------------------------------
(* What every step does to the tables, and so to the copies.               *)
AppMoves == app' \in [Apps -> AppRecord] /\ \A a \in Apps : Step(app[a], app'[a])
EnvMoves ==
    /\ env' \in [EnvIds -> EnvRecord] /\ \A i \in EnvIds : Step(env[i], env'[i])
    /\ \A i \in EnvIds : env'[i].exists => IdOf[env'[i].name] = i
ResourceMoves ==
    resource' \in [Resources -> Resource] /\ \A r \in Resources : Step(resource[r], resource'[r])

LEMMA Standing ==
    ASSUME TypeOK
    PROVE  /\ app' = app => AppMoves
           /\ env' = env => EnvMoves
           /\ resource' = resource => ResourceMoves
BY DEF TypeOK, RecordsTypeOK, AppMoves, EnvMoves, ResourceMoves, Step

LEMMA RequestsSee ==
    ASSUME TypeOK, RequestCopies, AppMoves, NEW q \in Requests, request[q].kind = "deleteEnv",
           NEW a \in Apps
    PROVE  /\ Since(app'[a], request[q].seen[a])
           /\ app'[a] = request[q].seen[a] => app[a] = app'[a]
<1>1. request[q].seen[a] \in AppRecord
  BY RequestTypes DEF DeleteEnv
<1>2. app[a] \in AppRecord /\ app'[a] \in AppRecord
  BY DEF TypeOK, RecordsTypeOK, AppMoves
<1>3. Since(app[a], request[q].seen[a]) /\ Step(app[a], app'[a])
  BY DEF RequestCopies, AppMoves
<1> QED BY <1>1, <1>2, <1>3, SinceApp

LEMMA WorkerSees ==
    ASSUME TypeOK, WorkerTyped, WorkerCopies, Active, AppMoves, EnvMoves
    PROVE  /\ \A a \in Apps : /\ Since(app'[a], worker.seen.app[a])
                              /\ app'[a] = worker.seen.app[a] => app[a] = app'[a]
           /\ \A i \in EnvIds : /\ Since(env'[i], worker.seen.env[i])
                                /\ env'[i] = worker.seen.env[i] => env[i] = env'[i]
<1>1. worker.seen \in Seen
  BY DEF WorkerTyped, BeforeEnv, AfterEnv
<1>2. \A a \in Apps : /\ Since(app'[a], worker.seen.app[a])
                      /\ app'[a] = worker.seen.app[a] => app[a] = app'[a]
  <2> TAKE a \in Apps
  <2>1. app[a] \in AppRecord /\ app'[a] \in AppRecord /\ worker.seen.app[a] \in AppRecord
    BY <1>1 DEF TypeOK, RecordsTypeOK, AppMoves, Seen
  <2>2. Since(app[a], worker.seen.app[a]) /\ Step(app[a], app'[a])
    BY DEF WorkerCopies, AppMoves
  <2> QED BY <2>1, <2>2, SinceApp
<1>3. \A i \in EnvIds : /\ Since(env'[i], worker.seen.env[i])
                        /\ env'[i] = worker.seen.env[i] => env[i] = env'[i]
  <2> TAKE i \in EnvIds
  <2>1. env[i] \in EnvRecord /\ env'[i] \in EnvRecord /\ worker.seen.env[i] \in EnvRecord
    BY <1>1 DEF TypeOK, RecordsTypeOK, EnvMoves, Seen
  <2>2. Since(env[i], worker.seen.env[i]) /\ Step(env[i], env'[i])
    BY DEF WorkerCopies, EnvMoves
  <2> QED BY <2>1, <2>2, SinceEnv
<1> QED BY <1>2, <1>3

LEMMA WorkerReads ==
    ASSUME TypeOK, WorkerTyped, WorkerCopies, Active, ResourceMoves
    PROVE  Since(resource'[Mine], worker.read)
<1>1. worker.read \in Resource /\ Mine \in Resources
  BY DEF WorkerTyped, BeforeEnv, AfterEnv, Operation, Mine
<1>2. resource[Mine] \in Resource /\ resource'[Mine] \in Resource
  BY <1>1 DEF TypeOK, ResourceMoves
<1> QED BY <1>1, <1>2, SinceResource DEF WorkerCopies, ResourceMoves

-----------------------------------------------------------------------------
(* The requests.                                                           *)
AnyRequest == {Idle} \cup PutApp \cup PutEnv \cup DeleteApp \cup DeleteEnv \cup Ended

LEMMA OthersKept ==
    ASSUME TypeOK, RequestCopies, Filtered, AppMoves, EnvMoves,
           agentCalls' \in 0..MaxAgentCalls,
           NEW q \in Requests, NEW r \in AnyRequest, request' = [request EXCEPT ![q] = r],
           r.kind = "putEnv" => IdOf[r.name] = r.env,
           r.kind = "deleteEnv" =>
             \A a \in Apps :
               /\ Since(app'[a], r.seen[a])
               /\ r.pc = "delete" /\ app'[a].exists /\ app'[a] = r.seen[a]
                    => app'[a].names # r.read.name
    PROVE  RecordsTypeOK' /\ RequestCopies' /\ Filtered'
<1>1. /\ request'[q] = r
      /\ \A p \in Requests \ {q} : request'[p] = request[p]
      /\ request' \in [Requests -> AnyRequest]
  <2>1. request \in [Requests -> AnyRequest]
    BY DEF TypeOK, RecordsTypeOK, AnyRequest
  <2> QED BY <2>1
<1>2. RecordsTypeOK'
  BY <1>1 DEF RecordsTypeOK, AppMoves, EnvMoves, AnyRequest
<1>3. RequestCopies'
  <2> SUFFICES ASSUME NEW p \in Requests
               PROVE  /\ request'[p].kind = "putEnv" => IdOf[request'[p].name] = request'[p].env
                      /\ request'[p].kind = "deleteEnv" =>
                           \A a \in Apps : Since(app'[a], request'[p].seen[a])
    BY DEF RequestCopies, Since
  <2>1. CASE p = q
    BY <1>1, <2>1
  <2>2. CASE p # q
    BY <1>1, <2>2, RequestsSee DEF RequestCopies
  <2> QED BY <2>1, <2>2
<1>4. Filtered'
  <2> SUFFICES ASSUME NEW p \in Requests, request'[p].kind = "deleteEnv",
                      request'[p].pc = "delete", NEW a \in Apps, app'[a].exists,
                      app'[a] = request'[p].seen[a]
               PROVE  app'[a].names # request'[p].read.name
    BY DEF Filtered
  <2>1. CASE p = q
    BY <1>1, <2>1
  <2>2. CASE p # q
    <3>1. request'[p] = request[p]
      BY <1>1, <2>2
    <3>2. app[a] = app'[a]
      BY <3>1, RequestsSee
    <3> QED BY <3>1, <3>2 DEF Filtered
  <2> QED BY <2>1, <2>2
<1> QED BY <1>2, <1>3, <1>4

LEMMA EndedKept ==
    ASSUME TypeOK, RequestCopies, Filtered, AppMoves, EnvMoves, UNCHANGED agentCalls,
           NEW q \in Requests, NEW x \in Answers, Ends(q, x)
    PROVE  RecordsTypeOK' /\ RequestCopies' /\ Filtered'
<1> DEFINE r == [pc |-> "ended", kind |-> "none", answer |-> x]
<1>1. r \in AnyRequest /\ r.kind = "none"
  BY DEF AnyRequest, Ended
<1>2. request' = [request EXCEPT ![q] = r]
  BY DEF Ends
<1>3. agentCalls' \in 0..MaxAgentCalls
  BY DEF TypeOK, RecordsTypeOK
<1> HIDE DEF r
<1> QED BY <1>1, <1>2, <1>3, OthersKept

LEMMA AgentsKept ==
    ASSUME TypeOK, RequestCopies, Filtered, AppMoves, EnvMoves,
           agentCalls' \in 0..MaxAgentCalls, UNCHANGED <<app, request>>
    PROVE  RecordsTypeOK' /\ RequestCopies' /\ Filtered'
<1>1. RecordsTypeOK'
  BY DEF TypeOK, RecordsTypeOK, AppMoves, EnvMoves
<1>2. RequestCopies'
  BY DEF RequestCopies, Since
<1>3. Filtered'
  BY DEF Filtered
<1> QED BY <1>1, <1>2, <1>3

LEMMA RequestStep ==
    ASSUME TypeOK, RequestCopies, Filtered, RecordsNext
    PROVE  AppMoves /\ EnvMoves /\ RecordsTypeOK' /\ RequestCopies' /\ Filtered'
<1> DEFINE Goal == AppMoves /\ EnvMoves /\ RecordsTypeOK' /\ RequestCopies' /\ Filtered'
<1> USE Standing
<1>0. /\ agentCalls \in 0..MaxAgentCalls
      /\ \A a \in Apps : app[a] \in AppRecord
      /\ \A i \in EnvIds : env[i] \in EnvRecord
      /\ {"none", "done", "conflict", "error"} = Answers
  BY DEF TypeOK, RecordsTypeOK, Answers
<1>1. ASSUME NEW q \in Requests, NEW a \in Apps, NEW n \in Names \cup {NoName},
             GetsForPutApp(q, a, n)
      PROVE  Goal
  <2> DEFINE r == [pc |-> "save", kind |-> "putApp", app |-> a, read |-> app[a], names |-> n]
  <2>1. r \in AnyRequest /\ r.kind = "putApp"
    BY <1>0 DEF AnyRequest, PutApp
  <2>2. request' = [request EXCEPT ![q] = r] /\ UNCHANGED <<app, env, agentCalls>>
    BY <1>1 DEF GetsForPutApp, Starts
  <2> HIDE DEF r
  <2> QED BY <1>0, <2>1, <2>2, OthersKept
<1>2. ASSUME NEW q \in Requests, NEW i \in EnvIds, NEW n \in Names, NEW b \in BOOLEAN,
             GetsForPutEnv(q, i, n, b)
      PROVE  Goal
  <2> DEFINE r == [pc |-> "save", kind |-> "putEnv", env |-> i, read |-> env[i],
                   name |-> n, recipe |-> b]
  <2>1. r \in AnyRequest /\ r.kind = "putEnv" /\ r.env = i /\ r.name = n
    BY <1>0 DEF AnyRequest, PutEnv
  <2>2. request' = [request EXCEPT ![q] = r] /\ UNCHANGED <<app, env, agentCalls>> /\ IdOf[n] = i
    BY <1>2 DEF GetsForPutEnv, Starts
  <2> HIDE DEF r
  <2> QED BY <1>0, <2>1, <2>2, OthersKept
<1>3. ASSUME NEW q \in Requests, NEW a \in Apps, GetsForDeleteApp(q, a)
      PROVE  Goal
  <2> DEFINE r == [pc |-> "delete", kind |-> "deleteApp", app |-> a]
  <2>1. r \in AnyRequest /\ r.kind = "deleteApp"
    BY DEF AnyRequest, DeleteApp
  <2>2. /\ request' = [request EXCEPT ![q] = r] \/ Ends(q, "none")
        /\ UNCHANGED <<app, env, agentCalls>>
    BY <1>3 DEF GetsForDeleteApp, Starts
  <2> HIDE DEF r
  <2> QED BY <1>0, <2>1, <2>2, OthersKept, EndedKept
<1>4. ASSUME NEW q \in Requests, NEW i \in EnvIds, GetsForDeleteEnv(q, i)
      PROVE  Goal
  <2> DEFINE r == [pc |-> "filter", kind |-> "deleteEnv", env |-> i, read |-> env[i],
                   seen |-> app]
  <2>1. r \in AnyRequest /\ r.kind = "deleteEnv" /\ r.pc = "filter" /\ r.seen = app
    BY <1>0 DEF AnyRequest, DeleteEnv, TypeOK, RecordsTypeOK
  <2>2. /\ request' = [request EXCEPT ![q] = r] \/ Ends(q, "none")
        /\ UNCHANGED <<app, env, agentCalls>>
    BY <1>4 DEF GetsForDeleteEnv, Starts
  <2>3. \A a \in Apps : Since(app'[a], r.seen[a])
    BY <1>0, <2>1, <2>2, SinceItself DEF AppRecord
  <2> HIDE DEF r
  <2> QED BY <1>0, <2>1, <2>2, <2>3, OthersKept, EndedKept
<1>5. ASSUME NEW q \in Requests, FiltersDelete(q)
      PROVE  Goal
  <2> DEFINE r == [request[q] EXCEPT !.pc = "delete"]
  <2>1. UNCHANGED <<app, env, agentCalls>> /\ request[q].pc = "filter"
    BY <1>5 DEF FiltersDelete
  <2>2. request[q] \in DeleteEnv
    BY <2>1, RequestTypes
  <2>3. CASE Ends(q, "conflict")
    BY <1>0, <2>1, <2>3, EndedKept
  <2>4. CASE ~Ends(q, "conflict")
    <3>1. request' = [request EXCEPT ![q] = r]
      BY <1>5, <2>4 DEF FiltersDelete, TypeOK, RecordsTypeOK
    <3>2. \A a \in Apps : app[a].exists => app[a].names # request[q].read.name
      BY <1>5, <2>4 DEF FiltersDelete, Query
    <3>3. /\ r \in AnyRequest /\ r.kind = "deleteEnv"
          /\ r.seen = request[q].seen /\ r.read = request[q].read
      BY <2>2 DEF AnyRequest, DeleteEnv
    <3>4. \A a \in Apps : Since(app'[a], r.seen[a])
      BY <2>1, <2>2, <3>3 DEF RequestCopies, DeleteEnv
    <3>5. \A a \in Apps : app'[a].exists => app'[a].names # r.read.name
      BY <2>1, <3>2, <3>3
    <3> HIDE DEF r
    <3> QED BY <1>0, <2>1, <3>1, <3>3, <3>4, <3>5, OthersKept
  <2> QED BY <2>3, <2>4
<1>6. ASSUME NEW q \in Requests, SavesApp(q)
      PROVE  Goal
  <2>1. request[q] \in PutApp
    BY <1>6, RequestTypes DEF SavesApp
  <2>2. AppMoves
    BY <1>6, <2>1, AppTable DEF SavesApp, PutApp, AppMoves
  <2>3. UNCHANGED <<env, agentCalls>> /\ (Ends(q, "done") \/ Ends(q, "error"))
    BY <1>6 DEF SavesApp
  <2> QED BY <1>0, <2>2, <2>3, EndedKept
<1>7. ASSUME NEW q \in Requests, SavesEnv(q)
      PROVE  Goal
  <2>1. request[q] \in PutEnv /\ IdOf[request[q].name] = request[q].env
    BY <1>7, RequestTypes DEF SavesEnv, RequestCopies
  <2>2. /\ request[q].env \in EnvIds /\ request[q].name \in Names
        /\ request[q].recipe \in BOOLEAN
    BY <2>1 DEF PutEnv
  <2> DEFINE data == EnvironmentFromJSON(request[q].env, request[q].name, request[q].recipe)
  <2>3. EnvMoves
    <3>1. data \in EnvRecord /\ data.name = request[q].name
      BY <2>2, RecordsAssumption DEF EnvRecord, NoEnv, EnvironmentFromJSON
    <3>2. env' = Saves(env, request[q].env, data) \/ env' = env
      BY <1>7 DEF SavesEnv
    <3> HIDE DEF data
    <3> QED BY <2>1, <2>2, <3>1, <3>2, EnvTable DEF EnvMoves
  <2>4. UNCHANGED <<app, agentCalls>> /\ (Ends(q, "done") \/ Ends(q, "error"))
    BY <1>7 DEF SavesEnv
  <2> QED BY <1>0, <2>3, <2>4, EndedKept
<1>8. ASSUME NEW q \in Requests, DeletesApp(q)
      PROVE  Goal
  <2>1. request[q] \in DeleteApp
    BY <1>8, RequestTypes DEF DeletesApp
  <2>2. AppMoves
    BY <1>8, <2>1, AppTable DEF DeletesApp, DeleteApp, AppMoves
  <2>3. UNCHANGED <<env, agentCalls>> /\ Ends(q, "done")
    BY <1>8 DEF DeletesApp
  <2> QED BY <1>0, <2>2, <2>3, EndedKept
<1>9. ASSUME NEW i \in EnvIds, env' = Removes(env, i)
      PROVE  EnvMoves
  <2>1. NoEnv(i) \in EnvRecord /\ IdOf[NoEnv(i).name] = i
    BY RecordsAssumption DEF EnvRecord, NoEnv
  <2> QED BY <1>9, <2>1, EnvTable DEF EnvMoves
<1>10. ASSUME NEW q \in Requests, DeletesEnv(q)
       PROVE  Goal
  <2>1. request[q] \in DeleteEnv
    BY <1>10, RequestTypes DEF DeletesEnv
  <2>2. EnvMoves
    BY <1>9, <1>10, <2>1 DEF DeletesEnv, DeleteEnv
  <2>3. UNCHANGED <<app, agentCalls>> /\ Ends(q, "done")
    BY <1>10 DEF DeletesEnv
  <2> QED BY <1>0, <2>2, <2>3, EndedKept
<1>11. ASSUME AgentCall
       PROVE  UNCHANGED <<app, request>> /\ agentCalls' \in 0..MaxAgentCalls
  BY <1>0, <1>11, RecordsAssumption DEF AgentCall
<1>12. ASSUME NEW i \in EnvIds, Register(i)
       PROVE  Goal
  <2> DEFINE data == [NoEnv(i) EXCEPT !.recipe = TRUE]
  <2>1. env' = Saves(env, i, data) /\ AgentCall
    BY <1>12 DEF Register
  <2>2. data \in EnvRecord /\ IdOf[data.name] = i
    BY RecordsAssumption DEF EnvRecord, NoEnv
  <2> HIDE DEF data
  <2>3. EnvMoves
    BY <2>1, <2>2, EnvTable DEF EnvMoves
  <2> QED BY <1>11, <2>1, <2>3, AgentsKept
<1>13. ASSUME NEW i \in EnvIds, Unregister(i)
       PROVE  Goal
  BY <1>9, <1>11, <1>13, AgentsKept DEF Unregister
<1> QED
  BY <1>1, <1>2, <1>3, <1>4, <1>5, <1>6, <1>7, <1>8, <1>10, <1>12, <1>13 DEF RecordsNext

-----------------------------------------------------------------------------
(* The worker.                                                             *)
LEMMA WorkerTypes ==
    ASSUME WorkerTyped
    PROVE  /\ worker.pc \in {"app"} => worker \in BeforeEnv
           /\ worker.pc \in {"env", "engine", "succeed"} => worker \in AfterEnv
           /\ worker.pc # "idle" => Active
           /\ Active => /\ worker.op \in Operation /\ Mine \in Resources
                        /\ worker.read \in Resource /\ worker.read.exists
                        /\ worker.seen \in Seen
BY DEF WorkerTyped, BeforeEnv, AfterEnv, Active, IdleWorker, Mine, Operation

LEMMA TypeKept ==
    ASSUME RecordsTypeOK', resource' \in [Resources -> Resource], puts' \in 0..MaxPuts,
           queue' \in Seq(Operation), infra' \in [Resources -> Infra], WorkerTyped'
    PROVE  TypeOK'
<1>1. CASE worker' = IdleWorker
  BY <1>1 DEF TypeOK, IdleWorker
<1>2. CASE worker' # IdleWorker
  <2>1. worker' \in BeforeEnv \cup AfterEnv /\ worker'.read.exists
    BY <1>2 DEF WorkerTyped, Active
  <2>2. /\ worker'.pc \in {"idle", "app", "env", "engine", "fail", "succeed", "remove"}
        /\ worker'.op \in Operation /\ worker'.read \in Resource
    BY <2>1 DEF BeforeEnv, AfterEnv
  <2> QED BY <2>1, <2>2 DEF TypeOK
<1> QED BY <1>1, <1>2

LEMMA RequestsKept ==
    ASSUME RequestCopies, Filtered, RecordsTypeOK, UNCHANGED recordVars
    PROVE  RequestCopies' /\ Filtered' /\ RecordsTypeOK'
<1>1. RequestCopies'
  BY DEF RequestCopies, Since, recordVars
<1>2. Filtered'
  BY DEF Filtered, recordVars
<1>3. RecordsTypeOK'
  BY DEF RecordsTypeOK, recordVars
<1> QED BY <1>1, <1>2, <1>3

KeepsJob(new) ==
    /\ new \in BeforeEnv \cup AfterEnv
    /\ new.op = worker.op /\ new.read = worker.read /\ new.seen = worker.seen

LEMMA GoesOn ==
    ASSUME WorkerTyped, Active, NEW pc, Goes(pc),
           \/ pc \in {"fail", "remove"}
           \/ pc \in {"engine", "succeed"} /\ worker \in AfterEnv
    PROVE  KeepsJob(worker') /\ worker'.pc = pc
<1>1. CASE worker \in AfterEnv
  BY <1>1 DEF Goes, KeepsJob, AfterEnv
<1>2. CASE worker \in BeforeEnv
  BY <1>2 DEF Goes, KeepsJob, BeforeEnv, AfterEnv
<1> QED BY <1>1, <1>2 DEF WorkerTyped

LEMMA SameJob ==
    ASSUME IInv, Active, KeepsJob(worker'), UNCHANGED <<recordVars, resource, puts, queue>>,
           infra' \in [Resources -> Infra]
    PROVE  /\ TypeOK' /\ WorkerTyped' /\ RequestCopies' /\ WorkerCopies'
           /\ Filtered' /\ PutMeanwhile'
<1> USE DEF IInv
<1>1. WorkerTyped'
  BY WorkerTypes DEF WorkerTyped, KeepsJob
<1>2. TypeOK' /\ RequestCopies' /\ Filtered'
  BY <1>1, TypeKept, RequestsKept DEF TypeOK
<1>3. WorkerCopies'
  BY DEF WorkerCopies, KeepsJob, Mine, Since, recordVars
<1>4. PutMeanwhile'
  BY DEF PutMeanwhile, KeepsJob, Mine
<1> QED BY <1>1, <1>2, <1>3, <1>4

LEMMA JobDone ==
    ASSUME IInv, worker' = IdleWorker, UNCHANGED <<recordVars, puts>>,
           queue' \in Seq(Operation), resource' \in [Resources -> Resource],
           infra' \in [Resources -> Infra], SucceededIsApplied'
    PROVE  IInv'
<1>1. WorkerTyped' /\ WorkerCopies' /\ PutMeanwhile' /\ EnvOfApp' /\ RemovesRightly' /\ Applied'
  BY DEF WorkerTyped, WorkerCopies, PutMeanwhile, EnvOfApp, RemovesRightly, Applied, Active,
         IdleWorker
<1>2. TypeOK' /\ RequestCopies' /\ Filtered'
  BY <1>1, TypeKept, RequestsKept DEF IInv, TypeOK
<1> QED BY <1>1, <1>2 DEF IInv

(* Requests change nothing of the worker's; what its copies tell stays.    *)
LEMMA RecordsKeep ==
    ASSUME IInv, RecordsNext, UNCHANGED deployVars
    PROVE  IInv'
<1> USE DEF IInv
<1>1. AppMoves /\ EnvMoves /\ RecordsTypeOK' /\ RequestCopies' /\ Filtered'
  BY RequestStep
<1>2. WorkerTyped' /\ PutMeanwhile' /\ Applied' /\ SucceededIsApplied'
  BY DEF WorkerTyped, PutMeanwhile, Applied, SucceededIsApplied, Active, Mine, deployVars
<1>3. TypeOK'
  BY <1>1, <1>2, TypeKept DEF TypeOK, deployVars
<1>4. ASSUME Active
      PROVE  /\ \A a \in Apps : /\ Since(app'[a], worker.seen.app[a])
                                /\ app'[a] = worker.seen.app[a] => app[a] = app'[a]
             /\ \A i \in EnvIds : /\ Since(env'[i], worker.seen.env[i])
                                  /\ env'[i] = worker.seen.env[i] => env[i] = env'[i]
  BY <1>1, <1>4, WorkerSees
<1>5. WorkerCopies'
  BY <1>4 DEF WorkerCopies, Active, Since, Mine, deployVars
<1>6. ASSUME Active, AppAsSeen'
      PROVE  /\ AppAsSeen /\ app'[AppOf[Mine]] = app[AppOf[Mine]]
             /\ NoRecipe(app[AppOf[Mine]]) => NoRecipe(app[AppOf[Mine]])'
  <2> DEFINE a == app[AppOf[Mine]]
  <2>1. AppOf[Mine] \in Apps /\ app \in [Apps -> AppRecord]
    BY <1>6, WorkerTypes, DeploymentAssumption DEF TypeOK, RecordsTypeOK
  <2>2. worker' = worker
    BY DEF deployVars
  <2>3. AppAsSeen /\ a' = a
    BY <1>4, <1>6, <2>1, <2>2 DEF AppAsSeen, Mine
  <2>4. a.names # NoName => IdOf[a.names] \in EnvIds
    BY <2>1, RecordsAssumption DEF AppRecord
  <2>5. a.names # NoName =>
          LET i == IdOf[a.names] IN env'[i] = worker.seen.env[i] => env[i] = env'[i]
    BY <1>4, <1>6, <2>4
  <2> HIDE DEF a
  <2>6. NoRecipe(a) => NoRecipe(a)'
    BY <2>2, <2>3, <2>5 DEF NoRecipe
  <2> QED BY <2>2, <2>3, <2>6 DEF a, Mine
<1>7. EnvOfApp' /\ RemovesRightly'
  <2> SUFFICES ASSUME Active, AppAsSeen'
               PROVE  EnvOfApp' /\ RemovesRightly'
    BY DEF EnvOfApp, RemovesRightly, Active, IdleWorker, deployVars
  <2> QED BY <1>6 DEF EnvOfApp, RemovesRightly, Mine, deployVars
<1> QED BY <1>1, <1>2, <1>3, <1>5, <1>7

(* A PUT or DELETE of a resource: a record that is not the controller's    *)
(* copy any more has no status.                                            *)
LEMMA AcceptsKeeps ==
    ASSUME IInv, NEW m \in {"PUT", "DELETE"}, NEW r \in Resources, Accepts(m, r)
    PROVE  IInv'
<1> USE DEF IInv
<1> DEFINE k    == puts + 1
           data == ResourceFromJSON(k)
<1>0. puts' = k /\ k \in Specs
  BY DeploymentAssumption DEF Accepts, TypeOK, Specs
<1>1. /\ puts' \in 0..MaxPuts
      /\ data \in Resource /\ data.state = "None"
  <2> HIDE DEF k
  <2>1. 0 \in Nat /\ k \in 0..MaxPuts
    BY <1>0 DEF Specs
  <2>2. data \in Resource /\ data.state = "None"
    BY <1>0, <2>1 DEF Resource, NoResource, ResourceFromJSON
  <2> QED BY <1>0, <2>1, <2>2
<1>2. resource' = resource \/ resource' = Saves(resource, r, data)
  BY DEF Accepts
<1>3. /\ ResourceMoves
      /\ \A s \in Resources : resource'[s] = resource[s] \/ resource'[s].state = "None"
  <2> HIDE DEF data
  <2>1. CASE resource' = resource
    BY <2>1, Standing
  <2>2. CASE resource' = Saves(resource, r, data)
    BY <1>1, <2>2, ResourceTable DEF ResourceMoves
  <2> QED BY <1>2, <2>1, <2>2
<1>4. UNCHANGED <<recordVars, worker, infra>> /\ queue' \in Seq(Operation)
  BY DEF Accepts, TypeOK, Operation
<1>5. WorkerTyped' /\ EnvOfApp' /\ RemovesRightly' /\ Applied'
  BY <1>4 DEF WorkerTyped, EnvOfApp, RemovesRightly, AppAsSeen, NoRecipe, Applied, Active, Mine, recordVars
<1>6. TypeOK' /\ RequestCopies' /\ Filtered'
  BY <1>1, <1>3, <1>4, <1>5, TypeKept, RequestsKept DEF TypeOK, ResourceMoves
<1>7. WorkerCopies'
  <2> SUFFICES ASSUME Active
               PROVE  WorkerCopies'
    BY <1>4 DEF WorkerCopies, Active
  <2>1. Since(resource'[Mine], worker.read)
    BY <1>3, WorkerReads
  <2> QED BY <1>4, <2>1 DEF WorkerCopies, Since, Mine, recordVars
<1>8. PutMeanwhile'
  BY <1>3, <1>4, WorkerTypes DEF PutMeanwhile, Active, Mine
<1>9. SucceededIsApplied'
  BY <1>3, <1>4 DEF SucceededIsApplied
<1> QED BY <1>5, <1>6, <1>7, <1>8, <1>9

LEMMA GetsResourceKeeps ==
    ASSUME IInv, GetsResource
    PROVE  IInv'
<1> USE DEF IInv
<1> DEFINE op == Head(queue)
<1>1. /\ op \in Operation /\ queue' \in Seq(Operation)
      /\ UNCHANGED <<recordVars, resource, puts, infra>> /\ worker = IdleWorker
  BY DEF GetsResource, TypeOK
<1>2. op.resource \in Resources /\ resource[op.resource] \in Resource
  BY <1>1 DEF Operation, TypeOK
<1>3. SucceededIsApplied'
  BY <1>1 DEF SucceededIsApplied, IdleWorker
<1>4. CASE worker' = IdleWorker
  BY <1>1, <1>3, <1>4, JobDone DEF TypeOK
<1>5. CASE worker' # IdleWorker
  <2>1. /\ worker' = [pc |-> "app", op |-> op, read |-> resource[op.resource],
                      seen |-> [app |-> app, env |-> env]]
        /\ resource[op.resource].exists
    BY <1>5 DEF GetsResource
  <2>2. [app |-> app, env |-> env] \in Seen
    BY DEF Seen, TypeOK, RecordsTypeOK
  <2> HIDE DEF op
  <2>3. WorkerTyped'
    BY <1>1, <1>2, <2>1, <2>2 DEF WorkerTyped, BeforeEnv
  <2>4. TypeOK' /\ RequestCopies' /\ Filtered'
    BY <1>1, <2>3, TypeKept, RequestsKept DEF TypeOK
  <2>5. WorkerCopies'
    <3>1. /\ \A a \in Apps : Since(app[a], app[a])
          /\ \A i \in EnvIds : Since(env[i], env[i])
          /\ Since(resource[op.resource], resource[op.resource])
      BY <1>2, SinceItself DEF TypeOK, RecordsTypeOK, AppRecord, EnvRecord, Resource
    <3> QED BY <1>1, <2>1, <3>1 DEF WorkerCopies, Mine, Since, recordVars
  <2>6. PutMeanwhile' /\ EnvOfApp' /\ RemovesRightly' /\ Applied'
    BY <1>1, <2>1 DEF PutMeanwhile, EnvOfApp, RemovesRightly, Applied, Mine
  <2> QED BY <1>3, <2>3, <2>4, <2>5, <2>6
<1> QED BY <1>4, <1>5

LEMMA GetsApplicationKeeps ==
    ASSUME IInv, GetsApplication
    PROVE  IInv'
<1> USE DEF IInv
<1>1. /\ Active /\ worker \in BeforeEnv /\ worker.pc = "app"
      /\ UNCHANGED <<recordVars, resource, puts, queue, infra>>
  BY WorkerTypes DEF GetsApplication
<1>2. Mine \in Resources /\ AppOf[Mine] \in Apps
  BY <1>1, WorkerTypes, DeploymentAssumption
<1> DEFINE a == app[AppOf[Mine]]
<1>3. a.names \in Names \cup {NoName}
  BY <1>2 DEF TypeOK, RecordsTypeOK, AppRecord
<1>4. CASE a.exists /\ a.names # NoName
  <2>1. worker' = [pc |-> "env", op |-> worker.op, read |-> worker.read,
                   seen |-> worker.seen, env |-> IdOf[a.names]]
    BY <1>4 DEF GetsApplication, Mine
  <2>2. KeepsJob(worker')
    BY <1>1, <1>3, <1>4, <2>1, RecordsAssumption DEF KeepsJob, BeforeEnv, AfterEnv
  <2>3. EnvOfApp' /\ RemovesRightly' /\ Applied' /\ SucceededIsApplied'
    BY <1>1, <2>1 DEF EnvOfApp, AppAsSeen, RemovesRightly, Applied, SucceededIsApplied, Mine, recordVars
  <2> QED BY <1>1, <2>2, <2>3, SameJob DEF TypeOK
<1>5. CASE ~(a.exists /\ a.names # NoName)
  <2> DEFINE pc == IF Deploys THEN "fail" ELSE "remove"
  <2>1. Goes(pc) /\ pc \in {"fail", "remove"}
    BY <1>5 DEF GetsApplication, Unresolved, Mine
  <2> HIDE DEF pc
  <2>2. KeepsJob(worker') /\ worker'.pc = pc
    BY <1>1, <2>1, GoesOn
  <2>3. EnvOfApp' /\ Applied' /\ SucceededIsApplied'
    BY <1>1, <2>1, <2>2 DEF EnvOfApp, Applied, SucceededIsApplied
  <2>4. RemovesRightly'
    BY <1>1, <1>5, <2>2 DEF RemovesRightly, AppAsSeen, NoRecipe, Mine, KeepsJob, recordVars
  <2> QED BY <1>1, <2>2, <2>3, <2>4, SameJob DEF TypeOK
<1> QED BY <1>4, <1>5

LEMMA GetsEnvironmentKeeps ==
    ASSUME IInv, GetsEnvironment
    PROVE  IInv'
<1> USE DEF IInv
<1>1. /\ Active /\ worker \in AfterEnv /\ worker.pc = "env"
      /\ UNCHANGED <<recordVars, resource, puts, queue, infra>>
  BY WorkerTypes DEF GetsEnvironment
<1> DEFINE e == env[worker.env]
<1>2. PICK pc : /\ Goes(pc)
                /\ IF e.exists /\ e.recipe THEN pc = "engine" ELSE pc \in {"fail", "remove"}
  BY DEF GetsEnvironment, Unresolved
<1>3. KeepsJob(worker') /\ worker'.pc = pc
  BY <1>1, <1>2, GoesOn
<1>4. EnvOfApp' /\ Applied' /\ SucceededIsApplied'
  BY <1>1, <1>2, <1>3 DEF EnvOfApp, Applied, SucceededIsApplied
<1>5. RemovesRightly'
  <2> SUFFICES ASSUME pc = "remove", AppAsSeen
               PROVE  NoRecipe(app[AppOf[Mine]])
    BY <1>1, <1>3 DEF RemovesRightly, AppAsSeen, NoRecipe, Mine, KeepsJob, recordVars
  <2>1. worker.env = IdOf[app[AppOf[Mine]].names] /\ ~(e.exists /\ e.recipe)
    BY <1>1, <1>2 DEF EnvOfApp
  <2> QED BY <2>1 DEF NoRecipe
<1> QED BY <1>1, <1>3, <1>4, <1>5, SameJob DEF TypeOK

(* What terraform applies is the copy's spec, and a record that still says *)
(* Succeeded is the copy.                                                  *)
LEMMA StillTheCopy ==
    ASSUME IInv, Active, resource[Mine].exists, resource[Mine].state = "Succeeded"
    PROVE  resource[Mine].spec = worker.read.spec
<1>1. resource[Mine].etag = worker.read.etag
  BY DEF IInv, PutMeanwhile
<1>2. resource[Mine] \in {worker.read, [worker.read EXCEPT !.exists = FALSE]}
  BY <1>1 DEF IInv, WorkerCopies, Since
<1>3. worker.read \in Resource
  BY WorkerTypes DEF IInv
<1>4. [worker.read EXCEPT !.exists = FALSE].exists = FALSE
  BY <1>3 DEF Resource
<1> QED BY <1>2, <1>4

LEMMA ExecutesKeeps ==
    ASSUME IInv, Executes
    PROVE  IInv'
<1> USE DEF IInv
<1>1. /\ Active /\ worker \in AfterEnv /\ worker.pc = "engine"
      /\ UNCHANGED <<recordVars, resource, puts, queue>>
      /\ Mine \in Resources /\ worker.read \in Resource
  BY WorkerTypes DEF Executes
<1>2. PICK pc \in {"succeed", "fail"}, new \in Infra :
        /\ Goes(pc)
        /\ \/ infra' = infra /\ pc = "fail"
           \/ infra' = [infra EXCEPT ![Mine] = new] /\ new.spec = worker.read.spec
  <2>1. /\ [spec |-> worker.read.spec, whole |-> TRUE] \in Infra
        /\ Damaged(worker.read.spec) \in Infra
        /\ Damaged(worker.read.spec).spec = worker.read.spec
    BY <1>1 DEF Damaged, Infra, Resource
  <2>2. [spec |-> worker.read.spec, whole |-> TRUE].spec = worker.read.spec
    OBVIOUS
  <2>3. /\ Goes("succeed") \/ Goes("fail")
        /\ \/ infra' = infra /\ Goes("fail")
           \/ infra' = [infra EXCEPT ![Mine] = [spec |-> worker.read.spec, whole |-> TRUE]]
           \/ infra' = [infra EXCEPT ![Mine] = Damaged(worker.read.spec)]
    BY DEF Executes, Becomes, NotRun, Mine
  <2>4. CASE infra' = infra /\ Goes("fail")
    BY <2>1, <2>4
  <2>5. CASE ~(infra' = infra /\ Goes("fail"))
    BY <2>1, <2>2, <2>3, <2>5
  <2> QED BY <2>4, <2>5
<1>3. KeepsJob(worker') /\ worker'.pc = pc
  BY <1>1, <1>2, GoesOn
<1>4. infra' \in [Resources -> Infra] /\ \A r \in Resources \ {Mine} : infra'[r] = infra[r]
  BY <1>1, <1>2 DEF TypeOK
<1>5. infra'[Mine] = infra[Mine] \/ infra'[Mine].spec = worker.read.spec
  BY <1>1, <1>2 DEF TypeOK
<1>6. SucceededIsApplied'
  <2> SUFFICES ASSUME NEW r \in Resources, resource[r].exists,
                      resource[r].state = "Succeeded"
               PROVE  infra'[r].spec = resource[r].spec
    BY <1>1 DEF SucceededIsApplied
  <2>1. infra[r].spec = resource[r].spec
    BY <1>1 DEF SucceededIsApplied
  <2>2. r = Mine => resource[r].spec = worker.read.spec
    BY <1>1, StillTheCopy
  <2> QED BY <1>4, <1>5, <2>1, <2>2
<1>7. Applied'
  BY <1>1, <1>2, <1>3 DEF Applied, KeepsJob, Mine, TypeOK
<1>8. EnvOfApp' /\ RemovesRightly'
  BY <1>2, <1>3 DEF EnvOfApp, RemovesRightly
<1> QED BY <1>1, <1>3, <1>4, <1>6, <1>7, <1>8, SameJob

LEMMA DestroysKeeps ==
    ASSUME IInv, Destroys
    PROVE  IInv'
<1> USE DEF IInv
<1>1. /\ Active /\ worker \in AfterEnv /\ worker.pc = "engine"
      /\ UNCHANGED <<recordVars, resource, puts, queue>> /\ Mine \in Resources
  BY WorkerTypes DEF Destroys
<1>2. CASE infra' = [infra EXCEPT ![Mine] = Nothing] /\ Goes("remove")
  <2>1. Nothing \in Infra
    BY DeploymentAssumption DEF Nothing, Infra, Specs
  <2>2. /\ infra' \in [Resources -> Infra] /\ infra'[Mine] = Nothing
        /\ \A r \in Resources \ {Mine} : infra'[r] = infra[r]
    BY <1>1, <1>2, <2>1 DEF TypeOK
  <2>3. KeepsJob(worker') /\ worker'.pc = "remove"
    BY <1>1, <1>2, GoesOn
  <2>4. RemovesRightly' /\ SucceededIsApplied'
    BY <1>1, <2>2, <2>3 DEF RemovesRightly, SucceededIsApplied, KeepsJob, Mine
  <2>5. EnvOfApp' /\ Applied'
    BY <2>3 DEF EnvOfApp, Applied
  <2> QED BY <1>1, <2>2, <2>3, <2>4, <2>5, SameJob
<1>3. CASE ~(infra' = [infra EXCEPT ![Mine] = Nothing] /\ Goes("remove"))
  <2> DEFINE new == Damaged(infra[Mine].spec)
  <2>1. /\ infra' = infra \/ infra' = [infra EXCEPT ![Mine] = new]
        /\ worker' = IdleWorker
    BY <1>3 DEF Destroys, Becomes, NotRun, Mine
  <2>2. new \in Infra /\ new.spec = infra[Mine].spec
    BY <1>1 DEF Damaged, Infra, TypeOK
  <2> HIDE DEF new
  <2>3. /\ infra' \in [Resources -> Infra]
        /\ \A r \in Resources : infra'[r].spec = infra[r].spec
    BY <1>1, <2>1, <2>2 DEF TypeOK
  <2>4. SucceededIsApplied'
    BY <1>1, <2>1, <2>3 DEF SucceededIsApplied
  <2> QED BY <1>1, <2>1, <2>3, <2>4, JobDone DEF TypeOK
<1> QED BY <1>2, <1>3

LEMMA SavesOutcomeKeeps ==
    ASSUME IInv, SavesOutcome
    PROVE  IInv'
<1> USE DEF IInv
<1>1. /\ Active /\ worker.pc \in {"succeed", "fail"} /\ worker' = IdleWorker
      /\ UNCHANGED <<recordVars, puts, queue, infra>>
      /\ Mine \in Resources /\ worker.read \in Resource
  BY WorkerTypes DEF SavesOutcome
<1> DEFINE state == IF worker.pc = "succeed" THEN "Succeeded" ELSE "Failed"
           data  == [worker.read EXCEPT !.state = state]
<1>2. data \in Resource /\ data.spec = worker.read.spec /\ data.state = state
  <2>1. state \in {"Succeeded", "Failed"}
    OBVIOUS
  <2> HIDE DEF state
  <2> QED BY <1>1, <2>1 DEF Resource
<1>3. resource' = resource \/ resource' = Saves(resource, Mine, data)
  BY DEF SavesOutcome, Mine
<1> HIDE DEF data
<1>4. /\ resource' \in [Resources -> Resource]
      /\ \A r \in Resources :
           \/ resource'[r] = resource[r]
           \/ r = Mine /\ resource'[r].spec = worker.read.spec /\ resource'[r].state = state
  <2>1. CASE resource' = resource
    BY <2>1 DEF TypeOK
  <2>2. CASE resource' = Saves(resource, Mine, data)
    <3> HIDE DEF state
    <3>1. /\ resource' \in [Resources -> Resource]
          /\ \A s \in Resources \ {Mine} : resource'[s] = resource[s]
          /\ resource'[Mine].spec = data.spec /\ resource'[Mine].state = data.state
      BY <1>1, <1>2, <2>2, ResourceTable
    <3> QED BY <1>2, <3>1
  <2> QED BY <1>3, <2>1, <2>2
<1>5. SucceededIsApplied'
  BY <1>1, <1>4 DEF SucceededIsApplied, Applied
<1> QED BY <1>1, <1>4, <1>5, JobDone DEF TypeOK

LEMMA RemovesRecordKeeps ==
    ASSUME IInv, RemovesRecord
    PROVE  IInv'
<1> USE DEF IInv
<1>1. /\ Active /\ worker.pc = "remove" /\ worker' = IdleWorker
      /\ UNCHANGED <<recordVars, puts, queue, infra>>
      /\ Mine \in Resources /\ resource' = Removes(resource, Mine)
  BY WorkerTypes DEF RemovesRecord, Mine
<1>2. /\ resource' \in [Resources -> Resource] /\ ~resource'[Mine].exists
      /\ \A s \in Resources \ {Mine} : resource'[s] = resource[s]
  <2>1. resource[Mine] \in Resource
    BY <1>1 DEF TypeOK
  <2> QED BY <1>1, <2>1, ResourceTable
<1>3. SucceededIsApplied'
  BY <1>1, <1>2 DEF SucceededIsApplied, Mine
<1> QED BY <1>1, <1>2, <1>3, JobDone DEF TypeOK

LEMMA InitIInv == Init => IInv
<1> SUFFICES ASSUME Init PROVE IInv
  OBVIOUS
<1> USE DEF Init, RecordsInit
<1>1. RecordsTypeOK
  <2>1. NoApp \in AppRecord /\ \A i \in EnvIds : NoEnv(i) \in EnvRecord /\ ~NoEnv(i).exists
    BY RecordsAssumption DEF NoApp, NoEnv, AppRecord, EnvRecord
  <2> QED BY <2>1, RecordsAssumption DEF RecordsTypeOK
<1>2. NoResource \in Resource /\ Nothing \in Infra
  BY DeploymentAssumption DEF NoResource, Resource, Nothing, Infra, Specs
<1>3. TypeOK
  BY <1>1, <1>2, DeploymentAssumption DEF TypeOK, IdleWorker
<1>4. WorkerTyped /\ WorkerCopies /\ PutMeanwhile /\ EnvOfApp /\ RemovesRightly /\ Applied
  BY DEF WorkerTyped, WorkerCopies, PutMeanwhile, EnvOfApp, RemovesRightly, Applied, Active,
         IdleWorker
<1>5. RequestCopies /\ Filtered /\ SucceededIsApplied
  BY DEF RequestCopies, Filtered, SucceededIsApplied, Idle, NoResource
<1> QED BY <1>3, <1>4, <1>5 DEF IInv

LEMMA StandsStill ==
    ASSUME IInv, UNCHANGED vars
    PROVE  IInv'
<1> USE DEF IInv, vars, deployVars
<1>1. WorkerTyped' /\ PutMeanwhile' /\ EnvOfApp' /\ RemovesRightly' /\ Applied'
      /\ SucceededIsApplied'
  BY DEF WorkerTyped, PutMeanwhile, EnvOfApp, RemovesRightly, AppAsSeen, NoRecipe, Applied,
         SucceededIsApplied, Active, Mine, recordVars
<1>2. TypeOK' /\ RequestCopies' /\ Filtered'
  BY <1>1, TypeKept, RequestsKept DEF TypeOK
<1>3. WorkerCopies'
  BY DEF WorkerCopies, Active, Mine, Since, recordVars
<1> QED BY <1>1, <1>2, <1>3

LEMMA NextIInv == IInv /\ [Next]_vars => IInv'
BY RecordsKeep, AcceptsKeeps, GetsResourceKeeps, GetsApplicationKeeps, GetsEnvironmentKeeps,
   ExecutesKeeps, DestroysKeeps, SavesOutcomeKeeps, RemovesRecordKeeps, StandsStill
   DEF Next, WorkerStep

-----------------------------------------------------------------------------
(* IInv holds whatever order the requests, the agents and the worker's     *)
(* calls of the database come in.                                          *)
THEOREM Invariant == Spec => []IInv
BY InitIInv, NextIInv, PTL DEF Spec

(* The records, requests and the controller have their types.              *)
THEOREM TypeCorrect == Spec => []TypeOK
<1>1. IInv => TypeOK
  BY DEF IInv
<1> QED BY <1>1, Invariant, PTL

(* A record that says Succeeded (DeployResource's last save) says it of    *)
(* the spec terraform applied, however many PUTs came while it ran.        *)
THEOREM NothingSucceedsUnapplied == Spec => []SucceededIsApplied
<1>1. IInv => SucceededIsApplied
  BY DEF IInv
<1> QED BY <1>1, Invariant, PTL

(* DeleteResource removes the record of what it has not destroyed only if  *)
(* the application or the environment moved under it or had no recipe.     *)
THEOREM RemovesWhatIsDestroyed == Spec => RemovedIsDestroyed
<1>1. IInv /\ [Next]_vars =>
        [ RemovesRecord =>
            LET r == worker.op.resource
                a == app[AppOf[r]]
                e == env[IdOf[a.names]]
            IN  \/ infra[r] = Nothing
                \/ a # worker.seen.app[AppOf[r]]
                \/ ~a.exists \/ a.names = NoName
                \/ e # worker.seen.env[IdOf[a.names]]
                \/ ~e.exists \/ ~e.recipe ]_vars
  BY DEF IInv, RemovesRightly, AppAsSeen, NoRecipe, RemovesRecord, Mine
<1> QED BY <1>1, Invariant, PTL DEF Spec, RemovedIsDestroyed

(* PreventEnvironmentDeleteIfInUse protects an application that has named  *)
(* the environment since before the DELETE, whatever happens between the   *)
(* filter's query and the deletion.                                        *)
THEOREM KeepsWhatIsInUse == Spec => InUseIsKept
<1>1. IInv =>
        \A q \in Requests, a \in Apps :
          ( /\ DeletesEnv(q)
            /\ app[a].exists /\ app[a] = request[q].seen[a]
            /\ env[request[q].env].exists /\ env[request[q].env] = request[q].read )
          => app[a].names # env[request[q].env].name
  BY DEF IInv, Filtered, DeletesEnv
<1> QED BY <1>1, Invariant, PTL DEF InUseIsKept
=============================================================================
