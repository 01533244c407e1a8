SPECIFICATION Spec
CONSTANTS
    Bits = 2
    Capacity = 6
    MaxSliceIndex = 5
    MemMax = 4
    Gaps = {0}
    MinGrow = 1
    MaxGrow = 1
    StepDivisor = 4
    SliceWords = 5
    BlockWords = 2
    PerPage = 2
    Batch = 2
    InitialEnd = 2
    Sizes = {2, 5, 8}
    MaxLive = 2
PROPERTIES
    ZeroedReadsZero
    KeepsContents
