SPECIFICATION MSpec
CONSTANTS
    a = a
    b = b
    c1 = c1
    c2 = c2
    r1 = r1
    r2 = r2
    stop = stop
    n1 = n1
    n2 = n2
    Sids = {a, b}
    Clients = {c1, c2}
    Requests = {r1, r2}
    Stopper = stop
    MaxConcurrent = 1
    MaxOps = 3
    LNodes = {n1, n2}
    LSlots = {1}
    LMaxJoins = 2
    LMaxTroubles = 1
INVARIANTS
    HeldIsConnected
    NoSilentLoop
    JoinedHasLoop
    OneOwner
PROPERTIES
    CallsReturn
    ConnectedGetsLoop
CHECK_DEADLOCK FALSE
