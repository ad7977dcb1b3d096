\* Every kind of fault, three of them, in every order.
CONSTANTS
    MaxHeight = 4
    MaxFaults = 3
    MaxDelays = 2
    FaultKinds <- AllFaults
SPECIFICATION Spec
INVARIANTS
    TypeOK
    IInv
    ReconnectionsBounded
    NoLeakedDriver
    WedgedOnlyAfterGivingUp
PROPERTY FeedSpec
\* The thread ends, and a monitor that gave up waits for ever.
CHECK_DEADLOCK FALSE
