CONSTANTS
    Onlys <- MCOnlys
    Reps = 2
    MinWarm = 2
    MaxWarm = 3
    Iters = 2
    Actions = 6
    Batch = 3
    ChurnLive = 2
    ChurnSizes = {1, 2}
    RaFloor = 1
    RaCap = 3
    RaSizes = {1, 2}
    RaAligns = {1, 2}
    Target = 4
    LargeSizes <- MCLargeSizes
    MaxGrows = 20
SPECIFICATION Spec
INVARIANTS TablesAgree DeadAtReset
CHECK_DEADLOCK FALSE
