----------------------------- MODULE Placement -----------------------------
(***************************************************************************)
(* The placement engine of ryobid (pkg/placement) over the registry it     *)
(* reads: what agents registered and report by heartbeat, which of them    *)
(* watch for events (pkg/grpcapi/server.go), and the placement rules of    *)
(* the administrators (resources of the generic API).                      *)
(*                                                                         *)
(* Place is a pure function of two sequences, the rules and the            *)
(* environments.  Both come out of Go maps, so their orders are arbitrary, *)
(* and sort.Slice keeps no order between rules of equal priority: Outcomes *)
(* is the set of everything Place can answer in a state.                   *)
(*                                                                         *)
(* Strings are compared in two ways, exactly and with EqualFold; Fold maps *)
(* a spelling of a resource type to its lower-case form.  Regions and      *)
(* capabilities are only ever folded, so a value stands for all spellings; *)
(* Sovereignty is filtered exactly as Region is and is left out.  Scores   *)
(* are floats in the code and exact fractions here.                        *)
(***************************************************************************)
EXTENDS Integers, Sequences, SequencesExt

CONSTANTS
    Names,            (* of environments                                    *)
    Types, Fold,      (* resource types as spelled, and their folding       *)
    Regions,
    AnyRegion,        (* a region constraint that is not set                *)
    Capabilities,
    RuleNames,
    Statics,          (* what agents register                               *)
    Dynamics,         (* what they report by heartbeat                      *)
    RuleBodies,       (* what administrators store                          *)
    CostUnit,         (* one currency unit in the units of cost             *)
    FullCPU, FullMemory   (* 64000 millicores and 262144 MB in the code     *)

Static  == [recipes : SUBSET Types, region : Regions,
            capabilities : SUBSET Capabilities, cost : Nat, maxReplicas : Nat]
Dynamic == [cpu : Nat, memory : Nat, running : Nat]
Rule    == [type : Types, region : Regions \cup {AnyRegion},
            capabilities : SUBSET Capabilities,
            cheap : BOOLEAN, roomy : BOOLEAN, priority : Int]

(* The rule of an answer that no rule gave: "" in the code, where every    *)
(* rule has a name.                                                        *)
NoRule == "none"

ASSUME PlacementAssumption ==
    /\ NoRule \notin RuleNames
    /\ Fold \in [Types -> Types]
    /\ AnyRegion \notin Regions
    /\ Statics \subseteq Static /\ Dynamics \subseteq Dynamic /\ RuleBodies \subseteq Rule
    /\ {CostUnit, FullCPU, FullMemory} \subseteq Nat \ {0}

VARIABLES
    environments,     (* name -> registered info, for the registered names  *)
    watched,          (* names with at least one watch stream               *)
    rules             (* name -> placement rule in the database             *)

vars == <<environments, watched, rules>>

NoLoad == [cpu |-> 0, memory |-> 0, running |-> 0]

Info == [static : Statics, dynamic : Dynamics \cup {NoLoad}]

TypeOK ==
    /\ DOMAIN environments \subseteq Names
    /\ \A n \in DOMAIN environments : environments[n] \in Info
    /\ watched \subseteq Names
    /\ DOMAIN rules \subseteq RuleNames
    /\ \A r \in DOMAIN rules : rules[r] \in RuleBodies

Init ==
    /\ environments = <<>>
    /\ watched = {}
    /\ rules = <<>>

With(f, x, y) == [z \in DOMAIN f \cup {x} |-> IF z = x THEN y ELSE f[z]]
Minus(f, x)   == [z \in DOMAIN f \ {x} |-> f[z]]

-----------------------------------------------------------------------------
(* Register replaces the whole entry: the load reported before is gone     *)
(* until the next heartbeat.                                               *)
Register(n, static) ==
    /\ environments' = With(environments, n, [static |-> static, dynamic |-> NoLoad])
    /\ UNCHANGED <<watched, rules>>

MutantHeartbeat(n, dynamic) ==
    /\ environments' = With(environments, n, [static |-> NoLoad, dynamic |-> dynamic])
    /\ UNCHANGED <<watched, rules>>

(* Heartbeat of an environment that is not registered changes nothing.     *)
Heartbeat(n, dynamic) ==
    /\ n \in DOMAIN environments
    /\ environments' = [environments EXCEPT ![n].dynamic = dynamic]
    /\ UNCHANGED <<watched, rules>>

(* Unregister closes every watch of the environment.                       *)
Unregister(n) ==
    /\ environments' = Minus(environments, n)
    /\ watched' = watched \ {n}
    /\ UNCHANGED rules

(* A watch may be opened for a name that is not registered.                *)
Watch(n) ==
    /\ watched' = watched \cup {n}
    /\ UNCHANGED <<environments, rules>>

WatchEnds(n) ==
    /\ watched' = watched \ {n}
    /\ UNCHANGED <<environments, rules>>

PutRule(r, body) ==
    /\ rules' = With(rules, r, body)
    /\ UNCHANGED <<environments, watched>>

DeleteRule(r) ==
    /\ rules' = Minus(rules, r)
    /\ UNCHANGED <<environments, watched>>

Next ==
    \/ \E n \in Names : \/ \E static \in Statics : Register(n, static)
                        \/ \E dynamic \in Dynamics : Heartbeat(n, dynamic)
                        \/ Unregister(n) \/ Watch(n) \/ WatchEnds(n)
    \/ \E r \in RuleNames : DeleteRule(r) \/ \E body \in RuleBodies : PutRule(r, body)

Spec == Init /\ [][Next]_vars

-----------------------------------------------------------------------------
(* Scores, as fractions <<numerator, denominator>>.                        *)
Neutral      == <<1, 2>>
Least(a, b)  == IF a < b THEN a ELSE b
Sum(x, y)    == <<x[1] * y[2] + y[1] * x[2], x[2] * y[2]>>
Over(x, k)   == <<x[1], x[2] * k>>
Above(x, y)  == x[1] * y[2] > y[1] * x[2]

ScoreCost(info) ==
    IF info.static.cost <= 0 THEN Neutral
    ELSE <<CostUnit, CostUnit + info.static.cost>>

ScoreAvailableResources(info) ==
    LET cpu    == info.dynamic.cpu
        memory == info.dynamic.memory
    IN
    IF cpu <= 0 /\ memory <= 0 THEN Neutral
    ELSE Over(Sum(<<Least(cpu, FullCPU), FullCPU>>,
                  <<Least(memory, FullMemory), FullMemory>>), 2)

MutantScoreRunningResources(info) ==
    LET max == info.static.maxReplicas IN
    IF max <= 0 THEN Neutral ELSE <<Least(info.dynamic.running, max), max>>

ScoreRunningResources(info) ==
    LET max == info.static.maxReplicas IN
    IF max <= 0 THEN Neutral ELSE <<max - Least(info.dynamic.running, max), max>>

(* The mean of the preferred scores; without a preference, the load.       *)
ComputeScore(prefs, info) ==
    IF prefs.cheap /\ prefs.roomy
    THEN Over(Sum(ScoreCost(info), ScoreAvailableResources(info)), 2)
    ELSE IF prefs.cheap THEN ScoreCost(info)
    ELSE IF prefs.roomy THEN ScoreAvailableResources(info)
    ELSE ScoreRunningResources(info)

MutantScoreAndSelect(prefs, candidates) ==
    candidates[1]

(* The first candidate with the highest score.                             *)
ScoreAndSelect(prefs, candidates) ==
    LET score(i) == ComputeScore(prefs, environments[candidates[i]])
        best[i \in DOMAIN candidates] ==
            IF i = 1 THEN 1
            ELSE IF Above(score(i), score(best[i - 1])) THEN i ELSE best[i - 1]
    IN candidates[best[Len(candidates)]]

-----------------------------------------------------------------------------
EqualFold(s, t) == Fold[s] = Fold[t]

(* A rule without constraints and preferences.                             *)
NoConstraints == [region |-> AnyRegion, capabilities |-> {}]
NoPreferences == [cheap |-> FALSE, roomy |-> FALSE]

MutantEligible(t, constraints, n) ==
    LET static == environments[n].static IN
    /\ t \in static.recipes
    /\ constraints.region = AnyRegion \/ static.region = constraints.region
    /\ constraints.capabilities \subseteq static.capabilities

Eligible(t, constraints, n) ==
    LET static == environments[n].static IN
    /\ n \in watched
    /\ t \in static.recipes
    /\ constraints.region = AnyRegion \/ static.region = constraints.region
    /\ constraints.capabilities \subseteq static.capabilities

(* The loop over the environments keeps those that qualify, in order.      *)
FilterByConstraints(t, constraints, envs) ==
    LET result[i \in 0..Len(envs)] ==
            IF i = 0 THEN <<>>
            ELSE IF Eligible(t, constraints, envs[i]) THEN Append(result[i - 1], envs[i])
            ELSE result[i - 1]
    IN result[Len(envs)]

(* An answer names the environment and the rule that chose it.             *)
Failed == [failed |-> TRUE]

Chosen(prefs, candidates, rule) ==
    IF candidates = <<>> THEN Failed
    ELSE [failed |-> FALSE, env |-> ScoreAndSelect(prefs, candidates), rule |-> rule]

PlaceWithRule(t, r, envs) ==
    Chosen(rules[r], FilterByConstraints(t, rules[r], envs), r)

PlaceFallback(t, envs) ==
    Chosen(NoPreferences, FilterByConstraints(t, NoConstraints, envs), NoRule)

(* The matching rules in every order sort.Slice may leave them in.         *)
FindMatchingRules(t) ==
    { s \in SetToSeqs({ r \in DOMAIN rules : EqualFold(rules[r].type, t) }) :
        \A i, j \in DOMAIN s : i < j => rules[s[i]].priority >= rules[s[j]].priority }

MutantPlace(t, matching, envs) ==
    IF matching = <<>> THEN PlaceFallback(t, envs)
    ELSE PlaceWithRule(t, Head(matching), envs)

(* The first rule that produces a result decides.                          *)
Place(t, matching, envs) ==
    LET answer(i)  == PlaceWithRule(t, matching[i], envs)
        successful == {i \in DOMAIN matching : ~answer(i).failed}
    IN
    IF matching = <<>> THEN PlaceFallback(t, envs)
    ELSE IF successful = {} THEN Failed
    ELSE answer(Min(successful))

GetEnvironments == SetToSeqs(DOMAIN environments)

Outcomes(t) ==
    { Place(t, matching, envs) : matching \in FindMatchingRules(t), envs \in GetEnvironments }

-----------------------------------------------------------------------------
(* What placement promises, said without its loops.                        *)

Governing(t) == { r \in DOMAIN rules : Fold[rules[r].type] = Fold[t] }

Meets(n, t, r) ==
    LET static == environments[n].static IN
    /\ n \in watched /\ t \in static.recipes
    /\ rules[r].region \in {AnyRegion, static.region}
    /\ rules[r].capabilities \ static.capabilities = {}

(* The dispatcher sends an event only to an environment that is connected, *)
(* has a recipe for exactly this type and meets every constraint of the    *)
(* rule it was chosen by, however the rule spells the type; and no rule of *)
(* higher priority could have been satisfied.                              *)
PlacedByTheRules ==
    \A t \in Types : \A a \in Outcomes(t) :
        ~a.failed =>
          /\ a.env \in watched \cap DOMAIN environments
          /\ t \in environments[a.env].static.recipes
          /\ IF a.rule = NoRule THEN Governing(t) = {}
             ELSE /\ a.rule \in Governing(t) /\ Meets(a.env, t, a.rule)
                  /\ \A r \in Governing(t) :
                       rules[r].priority > rules[a.rule].priority
                         => \A n \in DOMAIN environments : ~Meets(n, t, r)

(* Somebody can be chosen: without a governing rule any environment that   *)
(* is connected and has the recipe, with one only those that meet one.     *)
CanBePlaced(t) ==
    IF Governing(t) = {}
    THEN \E n \in DOMAIN environments \cap watched : t \in environments[n].static.recipes
    ELSE \E r \in Governing(t), n \in DOMAIN environments : Meets(n, t, r)

(* Placement fails exactly when nobody can be chosen: never for the order  *)
(* of the rules or the maps, and always when rules govern the type and     *)
(* none can be met.  Then there is no fallback, even with environments     *)
(* that have the recipe; the design asks for one, see README.              *)
FailsWithoutFallback ==
    \A t \in Types : \A a \in Outcomes(t) : a.failed <=> ~CanBePlaced(t)

(* A rule that minimizes cost passes over an environment of known cost     *)
(* only for a cheaper one, or for one of unknown cost if this one costs at *)
(* least a unit per hour - whatever else is compared on the way.           *)
CostIsMinimized ==
    \A t \in Types : \A a \in Outcomes(t) :
        (~a.failed /\ a.rule # NoRule /\ rules[a.rule].cheap /\ ~rules[a.rule].roomy) =>
          \A n \in DOMAIN environments :
            LET cost == environments[n].static.cost
                paid == environments[a.env].static.cost
            IN (Meets(n, t, a.rule) /\ cost > 0) => IF paid > 0 THEN paid <= cost
                                                               ELSE cost >= CostUnit

(* Where no rule matches the type, an environment that is full is chosen   *)
(* only if every other candidate is full as well.  (The agents of this     *)
(* repository report no load: full is what a heartbeat with one can make.) *)
FullIsTheLastChoice ==
    LET Full(n) == /\ environments[n].static.maxReplicas > 0
                   /\ environments[n].dynamic.running >= environments[n].static.maxReplicas
    IN
    \A t \in Types : \A a \in Outcomes(t) :
        (~a.failed /\ a.rule = NoRule /\ Full(a.env)) =>
          \A n \in DOMAIN environments \cap watched :
            t \in environments[n].static.recipes => Full(n)
=============================================================================
