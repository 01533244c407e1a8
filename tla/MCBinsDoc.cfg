CONSTANTS
    Sizes <- MCSizes
    NewSizes <- MCNewSizes
    Aligns <- MCAligns
SPECIFICATION Spec
CHECK_DEADLOCK FALSE
INVARIANT WasteWithinAnEighth
