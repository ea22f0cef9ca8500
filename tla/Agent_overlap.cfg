\* Overlapping events, a restart and lost reports, two resources in one directory.
SPECIFICATION Spec
CONSTANTS
    r1 = r1
    r2 = r2
    d1 = d1
    Resources = {r1, r2}
    NoResource = NoResource
    Containers = {r1}
    Dirs = {d1}
    DirOf <- OneDir
    Healths = {"Running", "Down"}
    NoHealth = NoHealth
    Before = {r2}
    MaxEvents = 3
    MaxOf <- MostlyOne
    MaxTogether = 2
    MaxCrashes = 1
    MaxChanges = 1
INVARIANTS
    TypeOK
    AppliesItsOwn
    WatchedIsLive
    RememberedIsShown
CHECK_DEADLOCK FALSE
