\* An outage that outlasts the reconnection strategy.
CONSTANTS
    MaxHeight = 2
    MaxFaults = 2
    MaxDelays = 1
    FaultKinds <- Outage
SPECIFICATION FairSpec
PROPERTIES PicksUpTheWork
\* The thread ends, and a monitor that gave up waits for ever.
CHECK_DEADLOCK FALSE
