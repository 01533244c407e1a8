CONSTANTS
    Bits = 2
    Capacity = 6
    MaxSliceIndex = 5
    MemMax = 5
    Gaps = {0, 1}
    MinGrow = 1
    MaxGrow = 2
    StepDivisor = 4
    SliceWords = 8
    HeaderWords = 1
    BlockSize <- LargeBlockSize
    PageSlices <- LargePageSlices
    MaxNatural = 4
    SmallMax = 3
    DirectMax = 3
    ExtendWords = 2
    RetireSmall = 2
    RetireOther = 1
    RetireMaxPages = 2
    MaxCandidates = 1
    CollectPeriod = 2
    HeapBase = 5
    InitialEnd = 2
    Layouts <- LargeLayouts
SPECIFICATION Spec
INVARIANTS
    SlicesAccounted
    BlocksAccounted
PROPERTIES
    GrowthReleasesEmpty
    ImplementsContract
