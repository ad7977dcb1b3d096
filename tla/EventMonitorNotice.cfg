\* A disconnection the consumer is not told about.
CONSTANTS
    MaxHeight = 4
    MaxFaults = 1
    MaxDelays = 1
    FaultKinds <- OnlyDisconnect
SPECIFICATION FairSpec
PROPERTIES GapsAreNoticed
\* The thread ends, and a monitor that gave up waits for ever.
CHECK_DEADLOCK FALSE
