CONSTANTS
    Calls = {"c1"}
    Others = {}
    Closers = {"k1"}
    MaxWaiting = 2
    Cancellable = {}
    MayFail = FALSE
SPECIFICATION PinsSpec
INVARIANT CloseSparesTheEngine
CHECK_DEADLOCK FALSE
