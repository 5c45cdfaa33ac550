CONSTANTS
    r1 = r1
    r2 = r2
    r3 = r3
    norequest = norequest
    NoRequest = norequest
    Requests = {r1, r2}
    PoolSize = 1
    MaxPendingRequests = 1
    RetrySafe = {r1}
    Cancellable = {}
    MaxAttempts = 2
    Endpoints = 1
    MayFail = TRUE
    MayElapse = TRUE
    MayClose = TRUE
SPECIFICATION Spec
PROPERTIES
    EveryCallReturns
    CloseEnds
CHECK_DEADLOCK FALSE
