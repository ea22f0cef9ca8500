\* One user who starts a request when nothing is under way for its resource;
\* agents crash, reports and answers are lost.
SPECIFICATION CliSpec
CONSTANTS
    o1 = o1
    o2 = o2
    r1 = r1
    e1 = e1
    c1 = c1
    c2 = c2
    NoOp = NoOp
    NoEnv = NoEnv
    Operations <- TwoOperations
    Resources <- OneResource
    Envs <- OneEnv
    Calls <- TwoCalls
    AppEnv = e1
    NamesRecipe = TRUE
    Capacity = 1
    MaxETag = 4
    Faults = {"disconnect", "crash", "lostReport", "health", "appDelete"}
    Unreliable = TRUE
PROPERTIES
    NotFoundIsGone
    SaidDeployedIsLive
SYMMETRY Symmetry
CHECK_DEADLOCK FALSE
