\* Three threads hold the handle and make up to two calls each.
SPECIFICATION FairSpec
CONSTANTS
    c1 = c1
    c2 = c2
    c3 = c3
    Client <- ThreeClients
    MaxCalls = 2
    MaxBatches = 1
INVARIANTS
    TypeOK
    Accounted
    MonitorNotOrphaned
PROPERTIES
    ServiceSpec
    EveryCallReturns
    ShutdownEnds
CHECK_DEADLOCK FALSE
