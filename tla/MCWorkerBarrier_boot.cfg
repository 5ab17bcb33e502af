SPECIFICATION FairBootSpec
CONSTANTS
    w1 = w1
    w2 = w2
    w3 = w3
    Workers <- ThreeWorkers
    MaxGraph = 1
    MaxRecursion = 1
    MaxSyncs = 0
    BarrierFreeRoutes = TRUE
    Timeouts = FALSE
PROPERTIES
    StartupCompletes
