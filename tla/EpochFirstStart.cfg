SPECIFICATION Spec
CONSTANTS
    CountChannels = 2
    Resources = {r1}
    EpochBound = 2
    FirstStart = TRUE
INVARIANTS
    ReadsAreProtected
CHECK_DEADLOCK FALSE
