SPECIFICATION MemorySpec
CONSTANTS
    CoreCount = 2
    Chunks = 2
    Objects = 1
    Modulus = 8
    MaxRegions = 2
    Prompt = FALSE
    Threads = {t1, t2}
    Sizes = {4, 5}
    Alignments = {1, 4}
    FirstSize = 12
    BlockSize = 12
    Line = 4
    Header = 1
    Spare = 2
    Word = 16
    MaxLive = 3
    MaxBlocks = 2
    Roomy = TRUE
INVARIANTS
    ObjectsDistinct
CHECK_DEADLOCK FALSE
