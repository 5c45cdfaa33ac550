CONSTANTS
    Parts = {"probe", "facade", "subs", "flows", "registry", "gateway", "queue", "host", "weakpin"}
    NHosts = 1
    Commands = {1, 2}
    MaxLate = 1
    Kinds = {"mac", "macex", "ex", "explain"}
    Probed = 2
    Threads = 2
    NRanked = 2
    Probers = {a, b}
    MaxProbes = 2
    Users = {u1, u2}
    Markets = {m1}
    MaxClientOps = 2
    PoolSize = 2
    Subscribers = {s1}
    PageSize = 2
    MaxSize = 1
    MaxPages = 4
    Codes = {"a", "b"}
    MaxAsked = 2
    RecoveryRequests = 3
    Capacity = 2
    BatchSizes = {1, 3}
    MaxItems = 5
    PageItems = 2
    PageLimit = 3
    Addresses = 2
    NCandidates = 2
    FlowProbes = 1
    BudgetCodes = 1
    Workers = 2
    MaxCloses = 1
    HelperUsers = {h1, h2}
    HelperNames = {"daily_share_capital", "stock_profile_table"}
    Lacking = {2}
    LastDay = 3
    MaxHelperCalls = 2
    BoardCallers = {c1, c2}
    Days = 2
    MaxBoardCalls = 2
    MaxRestarts = 1
    Writers = {w1}
    Dates = 3
    MaxFileOps = 2
    MaxCrashes = 2
    LastSession = 3
    MaxChanges = 0
    Closes = {1, 3}
    FirstDays = 1
    Target = 4
    Listings = {"main", "st", "new"}
    ClientKeys = {k1, k2}
    Callers = {t1, t2, t3}
    MaxClients = 1
    MaxCalls = 1
    Sockets = {w1}
    MaxRequests = 2
    MaxPushes = 1
    MaxResponses = 1
    MaxEvents = 1
    Ahead = 1
    Requests = {"r1", "r2", "r3"}
    MaxPendingRequests = 1
    MaxEpoch = 1
    NEndpoints = 2
    MaxExchanges = 5
    MaxUnasked = 2
    FlowIds = 1
    RefreshIds = 1
    FrameBudget = 2
    Readers = {x, y, z}
    RawMax = 3
    Staging = 2
    DecodedMax = 4
    Share = 2
    FrameRaw = 2
    FrameDecoded = 1
    HostThreads = {e1, e2}
    MaxRuntimes = 2
    MaxHostCalls = 3
    HostCapacity = 1
    MaxStartFailures = 0
    MaxFatals = 1
    PinCalls = {"c1", "c2"}
    FewerCalls = {"c1", "c2"}
    PinOthers = {}
    PinClosers = {"k1"}
    MaxPinWaiting = 1
    Interrupted = {"c1"}
    MaxPayload = 2
    MaxBuffer = 6
    MaxResync = 2
    QueueFrames = 2
    MaxPieces = 0
SPECIFICATION FairSpec
PROPERTIES
    CallsEnd
    WaitersLeave
CHECK_DEADLOCK FALSE
