CONSTANTS
    Inputs <- MCInputs
    CoreSets <- MCCoreSets
    Batches <- MCBatches
    Iterations = 2
    KeysPerLine = 2
    Hash <- MCHash
SPECIFICATION Spec
INVARIANTS
    
    PhasesInOrder
    JoinIsComplete
PROPERTIES
    JoinsEnd
CHECK_DEADLOCK FALSE
