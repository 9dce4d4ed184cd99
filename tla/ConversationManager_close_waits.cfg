SPECIFICATION Spec
CONSTANTS
    a = a
    b = b
    c1 = c1
    c2 = c2
    r1 = r1
    r2 = r2
    stop = stop
    Sids = {a, b}
    Clients = {c1}
    Requests = {}
    Stopper = stop
    MaxConcurrent = 1
    MaxOps = 3
PROPERTIES
    CloseWaitsForStart
CHECK_DEADLOCK FALSE
