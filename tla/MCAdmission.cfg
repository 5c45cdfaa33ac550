CONSTANTS
    nobody = nobody
    Requests = {r1, r2, r3, r4}
    PoolSize = 2
    MaxPendingRequests = 2
    MaxEpoch = 2
SYMMETRY RequestSymmetry
SPECIFICATION Spec
INVARIANTS
    TypeOK
    SlotsHaveOneOwner
    NobodyWaitsForAnIdleSlot
    NoOvertaking
    BooksAgree
PROPERTIES
    AnsweredOnce
    LeasesGoToTheLiving
    ImplementsSlotPool
CHECK_DEADLOCK FALSE
