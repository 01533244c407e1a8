CONSTANTS
    Variants <- MCAll
    Natives = {TRUE, FALSE}
    PageUnits = 8
    Granule = 2
    MaxSmall = 4
    ListBlock = 4
    HeaderUnits = 2
    Chunk = 8
    Reserve = 2
    Layouts <- MCLayouts
    FirstPage = 1
    MaxPages = 4
    MaxLive = 2
SPECIFICATION Spec
INVARIANTS MemoryPartitioned PagesKnow
PROPERTY KeepsBench
CHECK_DEADLOCK FALSE
