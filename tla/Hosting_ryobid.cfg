\* ryobid's services, with either kind of caller.
SPECIFICATION FairSpec
CONSTANTS
    http = http
    grpc = grpc
    worker = worker
    Services <- RyobidServices
    Names <- ServiceNames
    Namings <- ServiceNamings
    Grpc = grpc
    Worker = worker
INVARIANTS
    TypeOK
    NilMeansAllTold
    FailuresAreHandedOn
    CrashesOnlyAfterTimeout
PROPERTIES
    SignalEndsTheHost
    AllEndedEndsTheHost
CHECK_DEADLOCK FALSE
