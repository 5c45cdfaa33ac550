CONSTANTS
    p1 = p1
    p2 = p2
    w1 = w1
    w2 = w2
    Pollers = {p1, p2}
    Workers = {w1}
    MaxFrames = 2
    MaxBytes = 2
    MaxWaiters = 1
    Sizes = {1, 2, 3}
    MaxSent = 3
SPECIFICATION FairSpec
INVARIANTS
    TypeOK
    EveryFrameIsAccounted
    DeliveredInOrder
    NobodyWaitsBesideAFrame
PROPERTIES
    NoSilentGap
    ClosedFeedIsSilent
    PollersReturn
