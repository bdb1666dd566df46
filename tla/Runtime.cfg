SPECIFICATION RSpec
CONSTANTS
    CountChannels = 2
    Resources = {r1}
    EpochBound = 3
    FirstStart = FALSE
    PrefetchDistance = 0
    Spawned = {"once", "again", "asks"}
    SpawnBound = 2
    AgainBound = 1
    StartBound = 2
INVARIANTS
    ReadsAreProtected
    QuietOutside
PROPERTIES
    ReclaimedWhenPassed
    GarbageIsReclaimed
    StopReturns
CHECK_DEADLOCK FALSE
