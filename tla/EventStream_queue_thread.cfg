SPECIFICATION Spec
CONSTANTS
    w1 = w1
    w2 = w2
    Writers = {w1, w2}
    Subscribers = {1, 2}
    InitialSubscribers = {1, 2}
    CACHE_SIZE = 2
    MaxCalls = 2
    MaxCrashes = 0
    Faults = {}
    MayUnsubscribe = TRUE
    MayClose = FALSE
SYMMETRY Symmetry
INVARIANTS
    QueueThreadSurvives
