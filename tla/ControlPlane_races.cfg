\* Every race of two requests, their results, health reports and faults.
SPECIFICATION Spec
CONSTANTS
    o1 = o1
    o2 = o2
    o3 = o3
    r1 = r1
    r2 = r2
    e1 = e1
    e2 = e2
    c1 = c1
    c2 = c2
    c3 = c3
    NoOp = NoOp
    NoEnv = NoEnv
    Operations <- TwoOperations
    Resources <- OneResource
    Envs <- OneEnv
    Calls <- TwoCalls
    AppEnv = e1
    NamesRecipe = FALSE
    Capacity = 1
    MaxETag = 5
    Faults = {"impolite", "disconnect", "lostReport", "health", "appDelete"}
INVARIANTS
    TypeOK
    SpecIsLastPut
PROPERTIES
    OnlyPutCreates
    RefinesOperations
SYMMETRY Symmetry
CHECK_DEADLOCK FALSE
