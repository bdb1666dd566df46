SPECIFICATION FairSpec
CONSTANTS
    S = 2
    PrefetchDistance = 1
    Tasks = {t1, t2, t3, pt}
    Nil = Nil
    NumaNodes = 2
    OwnNode = 1
    Profiling = pt
    SpawnBound = 5
INVARIANTS
    BufferIsRing
PROPERTIES
    InOrder
    
    Drains
CHECK_DEADLOCK FALSE
