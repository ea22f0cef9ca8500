\* One agent whose stream breaks once, two events.
SPECIFICATION FairSpec
CONSTANTS
    a1 = a1
    a2 = a2
    Nobody = Nobody
    Agents <- OneAgent
    Streams = {1, 2}
    Arrays = {1, 2, 3}
    Management = TRUE
    Capacity = 2
    MaxEvents = 2
    MaxBreaks = 1
PROPERTY
    ReceivedInOrder
CHECK_DEADLOCK FALSE
