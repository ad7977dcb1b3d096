\* Two of three subscribers drop their receivers before one broadcast.
SPECIFICATION Spec
CONSTANTS
    MaxSubscribers = 3
    MaxBroadcasts = 1
INVARIANTS
    LiveStayRegistered
CHECK_DEADLOCK FALSE
