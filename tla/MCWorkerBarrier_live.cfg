SPECIFICATION FairSteadySpec
CONSTANTS
    w1 = w1
    w2 = w2
    w3 = w3
    Workers <- TwoWorkers
    MaxGraph = 1
    MaxRecursion = 1
    MaxSyncs = 2
    BarrierFreeRoutes = TRUE
    Timeouts = FALSE
PROPERTIES
    BarrierCloses
    BarrierOpens
    SyncServed
    OneLoopReturns
CHECK_DEADLOCK FALSE
