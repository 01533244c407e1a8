CONSTANTS
    Sizes <- MCSizes
    NewSizes <- MCNewSizes
    Aligns <- MCAligns
SPECIFICATION Spec
INVARIANT LayoutServed
INVARIANT FreeFindsPage
INVARIANT DirectAgrees
CHECK_DEADLOCK FALSE
