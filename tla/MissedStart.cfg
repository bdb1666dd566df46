SPECIFICATION FairSpec
CONSTANTS
    CountChannels = 2
    PrefetchDistance = 0
    Spawned = {"asks"}
    SpawnBound = 1
    AgainBound = 0
    StartBound = 1
PROPERTIES
    StopAlwaysReturns
CHECK_DEADLOCK FALSE
