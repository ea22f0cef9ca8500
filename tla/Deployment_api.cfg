\* Two requests at a time, three operations, the agents come and go.
SPECIFICATION Spec
CONSTANTS
    prod = prod
    dev = dev
    a1 = a1
    r1 = r1
    Requests = {q1, q2}
    Apps = {a1}
    EnvIds = {prod, dev}
    Names <- MCNames
    IdOf <- MCIdOf
    NoName = NoName
    AgentName <- MCAgentName
    MaxAgentCalls = 1
    Resources = {r1}
    AppOf <- MCAppOf
    MaxPuts = 3
INVARIANTS
    TypeOK
    SucceededIsApplied
PROPERTIES
    InUseIsKept
    RemovedIsDestroyed
CHECK_DEADLOCK FALSE
