CONSTANTS
    Keys = {1, 2, 3, 4, 5, 6, 7}
    Values = {"a", "b"}
    MaxItems = 2
    MaxKeys = 2
    Requests = {1, 2, 3, 4, 5, 6}
    Listeners = {1, 2}
    Workloads <- MCWorkloads
    CoreSets <- MCCoreSets
    Iterations = 2
    BatchSize = 2
    MaxParallel = 3
SPECIFICATION Spec
INVARIANTS
    
    ContainerOutlivesRequests
PROPERTIES
    
    PhaseAnswersAll
    BenchmarkEnds
CHECK_DEADLOCK FALSE
