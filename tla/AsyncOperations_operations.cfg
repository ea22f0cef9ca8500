\* Safety, refinement and liveness: two operations with a controller and one without,
\* two ReportResult calls.  The system stops when everything is concluded.
SPECIFICATION FairSpec
CONSTANTS
    o1 = o1
    o2 = o2
    o3 = o3
    c1 = c1
    c2 = c2
    NoOp = NoOp
    Operations <- MCOperations
    Registered <- MCRegistered
    Calls <- MCCalls
INVARIANTS
    TypeOK
    UnfinishedIsQueued
    RunAtMostOnce
    VerdictIsGrounded
PROPERTIES
    NeverReopened
    RefinesOperationStatus
    EventuallyConcluded
CHECK_DEADLOCK FALSE
