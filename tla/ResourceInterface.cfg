SPECIFICATION ResourceSpec
CONSTANTS
    Readers = {r1}
    Writers = {w1, w2}
    VersionModulus = 12
    OvertakeBound = 2
    Value <- MCValue
    Modify <- MCModify
    Initial <- MCInitial
INVARIANTS
    AcceptedReadIsSnapshot
    AcceptedTaskRanOnce
    NoStrayUpgrade
PROPERTIES
    ImplementsAtomicResource
    ReadsComplete
    LatchesAreAtomic
    WaitersAreServed
