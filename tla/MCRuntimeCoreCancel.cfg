CONSTANTS
    r1 = r1
    r2 = r2
    r3 = r3
    norequest = norequest
    NoRequest = norequest
    Requests = {r1}
    PoolSize = 1
    MaxPendingRequests = 1
    RetrySafe = {}
    Cancellable = {r1}
    MaxAttempts = 2
    Endpoints = 1
    MayFail = FALSE
    MayElapse = FALSE
    MayClose = FALSE
SPECIFICATION Spec
INVARIANTS
    EngineStaysHealthy
CHECK_DEADLOCK FALSE
