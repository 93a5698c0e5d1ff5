SPECIFICATION FairSpec
CONSTANTS
    QueueMax = 2
    Delays = 2
    MaxCalls = 4
    MaxDrops = 1
    MaxMessages = 3
INVARIANTS
    TypeOK
    BusyEnds
    NeverStranded
    SentOnceInOrder
    QueuedOnlyOffline
PROPERTIES
    Recovers
CHECK_DEADLOCK FALSE
