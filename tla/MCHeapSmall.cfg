CONSTANTS
    Bits = 2
    Capacity = 6
    MaxSliceIndex = 5
    MemMax = 5
    Gaps = {0}
    MinGrow = 1
    MaxGrow = 2
    StepDivisor = 4
    SliceWords = 8
    HeaderWords = 1
    BlockSize <- SmallBlockSize
    PageSlices <- SmallPageSlices
    MaxNatural = 4
    SmallMax = 4
    DirectMax = 4
    ExtendWords = 2
    RetireSmall = 2
    RetireOther = 1
    RetireMaxPages = 1
    MaxCandidates = 1
    CollectPeriod = 2
    HeapBase = 5
    InitialEnd = 2
    Layouts <- SmallLayouts
SPECIFICATION Spec
INVARIANTS
    QueuesValid
    EmptyPageCountsDown
    RetiredBounded
PROPERTIES
    GrowthIsLastResort
    GrowthReleasesEmpty
