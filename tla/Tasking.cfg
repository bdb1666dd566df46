SPECIFICATION FairSpec
CONSTANTS
    Channels = {c1, c2}
    Resources = {r1}
    Tasks = {t1, t2}
    SpawnBound = 5
    Nil = Nil
INVARIANTS
    ExclusiveIsolation
    WriterIsolation
    ReadersDiscardOverlaps
    OnePlace
PROPERTIES
    Drains
CHECK_DEADLOCK FALSE
