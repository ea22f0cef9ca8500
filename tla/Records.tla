------------------------------ MODULE Records ------------------------------
(***************************************************************************)
(* The synchronous API: PUT and DELETE of environments and applications,   *)
(* each served by an HTTP goroutine that reads the record, runs its        *)
(* filters and writes, beside the agents, whose Register and Unregister    *)
(* write the environments' records without reading them.                   *)
(*                                                                         *)
(* A record is kept under its id in lower case, an application names its   *)
(* environment as its author spelled it.  The bodies of environments are   *)
(* abstracted to whether they have the recipe that resources ask for.      *)
(* Requests that only read are left out, and so are those of credentials,  *)
(* placements, catalog items and resource types, which are one call of the *)
(* database each.                                                          *)
(***************************************************************************)
EXTENDS Integers, Sequences, FiniteSets

CONSTANTS
    Requests,      (* the HTTP goroutines, one request each                 *)
    Apps,          (* applications                                          *)
    EnvIds,        (* ids of environments                                   *)
    Names, IdOf,   (* the environments' names and the ids they make         *)
    NoName,        (* an application need not name one                      *)
    AgentName,     (* id -> name its agent registers with                   *)
    MaxAgentCalls  (* bound: Register and Unregister calls                  *)

ASSUME RecordsAssumption ==
    /\ NoName \notin Names
    /\ IdOf \in [Names -> EnvIds]
    /\ AgentName \in [EnvIds -> Names]
    /\ \A i \in EnvIds : IdOf[AgentName[i]] = i
    /\ MaxAgentCalls \in Nat

VARIABLES
    app,           (* application -> record                                 *)
    env,           (* environment id -> record                              *)
    request,       (* the HTTP goroutines                                   *)
    agentCalls     (* calls made by agents                                  *)

recordVars == <<app, env, request, agentCalls>>

(* As in ControlPlane, the ETag survives a deletion: no UUID comes twice.  *)
AppRecord == [exists : BOOLEAN, names : Names \cup {NoName}, etag : Nat]
EnvRecord == [exists : BOOLEAN, name : Names, recipe : BOOLEAN, etag : Nat]
NoApp     == [exists |-> FALSE, names |-> NoName, etag |-> 0]
NoEnv(i)  == [exists |-> FALSE, name |-> AgentName[i], recipe |-> FALSE, etag |-> 0]

Idle == [pc |-> "idle", kind |-> "none"]
PutApp    == [pc : {"save"}, kind : {"putApp"}, app : Apps, read : AppRecord,
              names : Names \cup {NoName}]
PutEnv    == [pc : {"save"}, kind : {"putEnv"}, env : EnvIds, read : EnvRecord,
              name : Names, recipe : BOOLEAN]
DeleteApp == [pc : {"delete"}, kind : {"deleteApp"}, app : Apps]
DeleteEnv == [pc : {"filter", "delete"}, kind : {"deleteEnv"}, env : EnvIds,
              read : EnvRecord,
              seen : [Apps -> AppRecord]]     (* history: when it was read *)
Answers   == {"none", "done", "conflict", "error"}
Ended     == [pc : {"ended"}, kind : {"none"}, answer : Answers]
Ends(q, a) == request' = [request EXCEPT ![q] =
                            [pc |-> "ended", kind |-> "none", answer |-> a]]

RecordsTypeOK ==
    /\ app \in [Apps -> AppRecord]
    /\ env \in [EnvIds -> EnvRecord]
    /\ \A i \in EnvIds : env[i].exists => IdOf[env[i].name] = i
    /\ request \in [Requests -> {Idle} \cup PutApp \cup PutEnv
                                 \cup DeleteApp \cup DeleteEnv \cup Ended]
    /\ agentCalls \in 0..MaxAgentCalls

RecordsInit ==
    /\ app = [a \in Apps |-> NoApp]
    /\ env = [i \in EnvIds |-> NoEnv(i)]
    /\ request = [q \in Requests |-> Idle]
    /\ agentCalls = 0

-----------------------------------------------------------------------------
(* database.Save and Delete.  read is the record an update is based on; a  *)
(* record that was not there is created without an ETag, and replaces what *)
(* was saved under the id since.                                           *)
Saves(table, id, data) ==
    [table EXCEPT ![id] = [data EXCEPT !.exists = TRUE, !.etag = table[id].etag + 1]]
Removes(table, id) ==
    [table EXCEPT ![id].exists = FALSE]
IsAsRead(table, id, read) ==
    table[id].exists /\ table[id].etag = read.etag
MaySave(table, id, read) ==
    read.exists => IsAsRead(table, id, read)

Starts(q, r) == request[q] = Idle /\ request' = [request EXCEPT ![q] = r]

(* DefaultSyncPut and DefaultSyncDelete up to their read.  Bodies without  *)
(* a name are refused before and left out.  A name may be spelled in any   *)
(* way that makes the id of the URL.                                       *)
GetsForPutApp(q, a, n) ==
    /\ Starts(q, [pc |-> "save", kind |-> "putApp", app |-> a, read |-> app[a], names |-> n])
    /\ UNCHANGED <<app, env, agentCalls>>

GetsForPutEnv(q, i, n, recipe) ==
    /\ IdOf[n] = i
    /\ Starts(q, [pc |-> "save", kind |-> "putEnv", env |-> i, read |-> env[i],
                  name |-> n, recipe |-> recipe])
    /\ UNCHANGED <<app, env, agentCalls>>

GetsForDeleteApp(q, a) ==
    /\ request[q] = Idle
    /\ IF app[a].exists THEN Starts(q, [pc |-> "delete", kind |-> "deleteApp", app |-> a])
                        ELSE Ends(q, "none")
    /\ UNCHANGED <<app, env, agentCalls>>

GetsForDeleteEnv(q, i) ==
    /\ request[q] = Idle
    /\ IF env[i].exists
       THEN Starts(q, [pc |-> "filter", kind |-> "deleteEnv", env |-> i,
                       read |-> env[i], seen |-> app])
       ELSE Ends(q, "none")
    /\ UNCHANGED <<app, env, agentCalls>>

MutantFiltersDelete(q) ==
    /\ request[q].pc = "filter"
    /\ request' = [request EXCEPT ![q].pc = "delete"]
    /\ UNCHANGED <<app, env, agentCalls>>

(* The applications the database has.                                      *)
Query == {a \in Apps : app[a].exists}

(* PreventEnvironmentDeleteIfInUse compares names as they are spelled.     *)
FiltersDelete(q) ==
    LET n == request[q].read.name IN
    /\ request[q].pc = "filter"
    /\ IF \E a \in Query : app[a].names = n
       THEN Ends(q, "conflict")
       ELSE request' = [request EXCEPT ![q].pc = "delete"]
    /\ UNCHANGED <<app, env, agentCalls>>

(* The body replaces the whole record.                                     *)
ApplicationFromJSON(names) == [NoApp EXCEPT !.names = names]
EnvironmentFromJSON(i, name, recipe) ==
    [NoEnv(i) EXCEPT !.name = name, !.recipe = recipe]

SavesApp(q) ==
    LET r == request[q] IN
    /\ r.pc = "save" /\ r.kind = "putApp"
    /\ IF MaySave(app, r.app, r.read)
       THEN app' = Saves(app, r.app, ApplicationFromJSON(r.names)) /\ Ends(q, "done")
       ELSE UNCHANGED app /\ Ends(q, "error")
    /\ UNCHANGED <<env, agentCalls>>

SavesEnv(q) ==
    LET r == request[q] IN
    /\ r.pc = "save" /\ r.kind = "putEnv"
    /\ IF MaySave(env, r.env, r.read)
       THEN /\ env' = Saves(env, r.env, EnvironmentFromJSON(r.env, r.name, r.recipe))
            /\ Ends(q, "done")
       ELSE UNCHANGED env /\ Ends(q, "error")
    /\ UNCHANGED <<app, agentCalls>>

(* The deletion itself, whatever the record has become since the read.     *)
DeletesApp(q) ==
    /\ request[q].pc = "delete" /\ request[q].kind = "deleteApp"
    /\ app' = Removes(app, request[q].app)
    /\ Ends(q, "done")
    /\ UNCHANGED <<env, agentCalls>>

DeletesEnv(q) ==
    /\ request[q].pc = "delete" /\ request[q].kind = "deleteEnv"
    /\ env' = Removes(env, request[q].env)
    /\ Ends(q, "done")
    /\ UNCHANGED <<app, agentCalls>>

-----------------------------------------------------------------------------
(* An agent's Register, at its start, after a reconnect or when its        *)
(* capabilities are set, and its Unregister.                               *)
AgentCall ==
    /\ agentCalls < MaxAgentCalls
    /\ agentCalls' = agentCalls + 1
    /\ UNCHANGED <<app, request>>

Register(i) ==
    /\ AgentCall
    /\ env' = Saves(env, i, [NoEnv(i) EXCEPT !.recipe = TRUE])

Unregister(i) ==
    /\ AgentCall
    /\ env' = Removes(env, i)

RecordsNext ==
    \/ \E q \in Requests :
         \/ \E a \in Apps, n \in Names \cup {NoName} : GetsForPutApp(q, a, n)
         \/ \E i \in EnvIds, n \in Names, b \in BOOLEAN : GetsForPutEnv(q, i, n, b)
         \/ \E a \in Apps : GetsForDeleteApp(q, a)
         \/ \E i \in EnvIds : GetsForDeleteEnv(q, i)
         \/ FiltersDelete(q)
         \/ SavesApp(q) \/ SavesEnv(q) \/ DeletesApp(q) \/ DeletesEnv(q)
    \/ \E i \in EnvIds : Register(i) \/ Unregister(i)

-----------------------------------------------------------------------------
(* The API removes no environment from under an application: one that has  *)
(* named it, as its record spells it, since before the DELETE began keeps  *)
(* it, whatever other requests and the agents do meanwhile.  (An           *)
(* application put between the query and the deletion loses it, and so     *)
(* does one when the record was replaced in between.)                      *)
InUseIsKept ==
    [][ \A q \in Requests, a \in Apps :
          ( /\ DeletesEnv(q)
            /\ app[a].exists /\ app[a] = request[q].seen[a]
            /\ env[request[q].env].exists /\ env[request[q].env] = request[q].read )
          => app[a].names # env[request[q].env].name ]_recordVars
=============================================================================
