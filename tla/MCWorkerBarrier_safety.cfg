SPECIFICATION SteadySpec
CONSTANTS
    w1 = w1
    w2 = w2
    w3 = w3
    Workers <- ThreeWorkers
    MaxGraph = 2
    MaxRecursion = 2
    MaxSyncs = 2
    BarrierFreeRoutes = TRUE
    Timeouts = TRUE
INVARIANTS
    TypeOK
    ParkedWhileHeld
    NoStaleClone
    ReforkIsolated
    NoUseAfterFree
    SyncExclusive
    SyncRequested
SYMMETRY WorkerSymmetry
CHECK_DEADLOCK FALSE
