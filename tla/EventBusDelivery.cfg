\* Four subscribers come and go during three broadcasts.
SPECIFICATION Spec
CONSTANTS
    MaxSubscribers = 4
    MaxBroadcasts = 3
INVARIANTS
    TypeOK
    Consecutive
PROPERTIES
    FirstRemovalIsRight
CHECK_DEADLOCK FALSE
