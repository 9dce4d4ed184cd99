SPECIFICATION FairSpec
CONSTANTS
    w1 = w1
    w2 = w2
    Writers = {w1}
    Subscribers = {1, 2}
    InitialSubscribers = {1, 2}
    CACHE_SIZE = 2
    MaxCalls = 3
    MaxCrashes = 2
    Faults = {"serialize", "write", "page"}
    MayUnsubscribe = FALSE
    MayClose = TRUE
INVARIANTS
    DeliveredInIdOrder
    PersistedBeforeDelivered
PROPERTIES
    LogSpec
    EventuallyDelivered
    CloseTerminates
CHECK_DEADLOCK FALSE
