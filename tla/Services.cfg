CONSTANTS
    p1 = p1
    p2 = p2
    w1 = w1
    w2 = w2
    e1 = e1
    e2 = e2
    h1 = h1
    h2 = h2
    HPaths = {p1, p2}
    HWriters = {w1, w2}
    HSizes <- MCSizes
    HLimit = 3
    HMaxTries = 2
    HMaxCalls = 3
    PWorkers = {w1, w2}
    Nobody = Nobody
    n1 = n1
    n2 = n2
    PNames = {n1, n2}
    PPorts = {1}
    NoPort = 0
    PMaxTries = 2
    PMaxFiles = 2
    Errors = {e1, e2}
    EHour = 3
    EWindow = 2
    ECooldown = 2
    EMaxPerHour = 1
    ERequestTime = 1
    EMaxClock = 5
    EMaxReports = 3
    AHandlers = {h1, h2}
    AMaxCalls = 4
    AMaxCost = 1
    CMaxSize = 6
    CKeepFirst = 1
    CMaxEvents = 11
    DIterations = 2
    DMaxInputs = 2
    DMaxRestarts = 1
    KMaxMoves = 6
    KPalette = 2
    RMaxEvents = 3
    RMaxDrops = 2
SPECIFICATION MCSpec
INVARIANTS
    ServicesTypeOK
    RemoteFollowsStore
    PortGivenOnce
    StartFindsPortFree
    TwiceTheLimit
    ViewKeepsHead
    ForgottenOnlyWhen
    ReopenKeepsHistory
    StuckIffLoop
    LacksOnlyLost
PROPERTIES
    HookDrains
    OneActiveSession
    
    CallbackStaysOff
    RecentKept
    CondensationSettles
CHECK_DEADLOCK FALSE
