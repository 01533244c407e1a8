SPECIFICATION Spec
CONSTANTS
    NumPages = 3
    NumBins = 2
    DirectBins = {1}
    BelowDirect = {1}
    Reserved <- MCReserved
    RetireCycles <- MCRetire
    Batch = 1
    RetireMaxPages = 2
    MaxCandidates = 1
    CollectPeriod = 2
INVARIANTS LinksValid CursorInQueue
PROPERTIES CallReturns ListsKept
