CONSTANTS
    SliceUnits = 2
    First = 1
    Capacity = 4
    MaxSliceIndex = 4
    EarlyOthers = FALSE
SPECIFICATION Spec
PROPERTY KeepsContract
CHECK_DEADLOCK FALSE
