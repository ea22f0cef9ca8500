\* Two agents of an environment.
SPECIFICATION FairSpec
CONSTANTS
    a1 = a1
    a2 = a2
    Nobody = Nobody
    Agents <- TwoAgents
    Streams = {1, 2, 3}
    Arrays = {1, 2, 3}
    Management = FALSE
    Capacity = 1
    MaxEvents = 1
    MaxBreaks = 0
INVARIANTS
    TypeOK
    WatchersAreTheOpenStreams
    StoredIsRegistered
PROPERTY
    EventuallyWatching
CHECK_DEADLOCK FALSE
