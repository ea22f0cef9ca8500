\* Liveness without faults: two resources, whose second event can find the
\* channel full.
SPECIFICATION FairSpec
CONSTANTS
    o1 = o1
    o2 = o2
    o3 = o3
    r1 = r1
    r2 = r2
    e1 = e1
    e2 = e2
    c1 = c1
    c2 = c2
    c3 = c3
    NoOp = NoOp
    NoEnv = NoEnv
    Operations <- TwoOperations
    Resources <- TwoResources
    Envs <- OneEnv
    Calls <- TwoCalls
    AppEnv = e1
    NamesRecipe = TRUE
    Capacity = 1
    MaxETag = 5
    Faults = {"impolite"}
PROPERTY
    EventuallySettled
CHECK_DEADLOCK FALSE
