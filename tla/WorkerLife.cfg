\* Two threads hold handles of a worker whose monitor meets one fault.
SPECIFICATION FairSpec
CONSTANTS
    c1 = c1
    c2 = c2
    Client <- TwoClients
    MaxCalls = 1
    MaxHeight = 2
    MaxFaults = 2
    MaxDelays = 1
    FaultKinds <- WorkerFaults
INVARIANT TypeOK
PROPERTIES RuntimeSpec ShutdownEndsMonitor NeverStopped BacklogDrained
\* A worker that was shut down does nothing more.
CHECK_DEADLOCK FALSE
