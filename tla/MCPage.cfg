CONSTANTS
    Reserved = 3
    Batch = 2
    BlockWords = 3
    Junk = Junk
SPECIFICATION Spec
INVARIANTS
    ListSound
    BlocksPartitioned
    FlagSound
PROPERTIES
    ZeroedIsZero
    LiveUntouched
