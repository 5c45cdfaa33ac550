CONSTANTS
    r1 = r1
    r2 = r2
    r3 = r3
    norequest = norequest
    NoRequest = norequest
    Requests = {r1, r2}
    PoolSize = 1
    MaxPendingRequests = 1
    RetrySafe = {r1}
    Cancellable = {r1}
    MaxAttempts = 2
    Endpoints = 2
    MayFail = TRUE
    MayElapse = TRUE
    MayClose = TRUE
SPECIFICATION Spec
INVARIANTS
    TypeOK
    TrackerMatchesAdmission
    SentAsOftenAsAllowed
    IOOnlyUnderLease
    NoOrphanPlan
    ClosedLeavesNothing
    BrokenConnectionsAreNotFatal
PROPERTIES
    NothingAfterTheAnswer
    DispatchFindsRoom
CHECK_DEADLOCK FALSE
