CONSTANTS
    Bits = 2
    Capacity = 8
    MaxSliceIndex = 9
    MemMax = 10
    Gaps = {0, 1}
    MinGrow = 2
    MaxGrow = 3
    StepDivisor = 2
    SliceSize = 4
    HeapBase = 5
    InitialEnd = 3
    Counts = {1, 2, 3}
    Aligns = {1, 2, 4}
SPECIFICATION Spec
INVARIANTS
    Exclusive
    Accounted
    InsideMemory
    ZeroExact
    RunsAligned
    ContiguousGrowthServes
    FailsOnlyClipped
    TopRunExtends
PROPERTIES
    FailureKeeps
