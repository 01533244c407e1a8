CONSTANTS
    Bits = 4
    WORDS = 2
    MaxSliceIndex = 11
    Groups = {1, 2, 4}
    BaseSlice = 6
    Gives = {2, 3, 8}
    Counts = {1, 2, 4}
    Aligns = {1, 2, 4, 8}
    Ends = {10, 12, 13}
SPECIFICATION Spec
INVARIANT SearchesExact
PROPERTY ImplementsPool
