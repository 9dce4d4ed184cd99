SPECIFICATION Spec
CONSTANTS
    w1 = w1
    w2 = w2
    Writers = {w1, w2}
    Subscribers = {1, 2}
    InitialSubscribers = {1}
    CACHE_SIZE = 2
    MaxCalls = 4
    MaxCrashes = 0
    Faults = {}
    MayUnsubscribe = TRUE
    MayClose = TRUE
SYMMETRY Symmetry
INVARIANTS
    SameOrderEverywhere
    DeliveredOnce
    SearchAgreesWithGet
PROPERTIES
    NoDeliveryAfterClose
CHECK_DEADLOCK FALSE
