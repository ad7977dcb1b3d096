\* Liveness under two faults of any kind.
CONSTANTS
    MaxHeight = 4
    MaxFaults = 2
    MaxDelays = 3
    FaultKinds <- AllFaults
SPECIFICATION FairSpec
PROPERTIES Recovers ShutdownObeyedUnlessBlocked BlocksArrive
\* The thread ends, and a monitor that gave up waits for ever.
CHECK_DEADLOCK FALSE
