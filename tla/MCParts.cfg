CONSTANTS
    Parts = {"sessions", "probe", "ranks", "facade", "subs", "loops", "batches", "f10", "flow", "flows", "helpers", "boards", "offline", "prices", "rows", "registry", "gateway", "faces", "wire", "memory", "host", "pin", "weakpin", "frames"}
    NHosts = 3
    Commands = {1, 2}
    MaxLate = 1
    Kinds = {"mac", "macex", "ex", "explain"}
    Probed = 3
    Threads = 2
    NRanked = 2
    Probers = {p, q}
    MaxProbes = 2
    Users = {p, q}
    Markets = {m1, m2}
    MaxClientOps = 3
    PoolSize = 2
    Subscribers = {p, q}
    PageSize = 2
    MaxSize = 4
    MaxPages = 4
    Codes = {"a", "b"}
    MaxAsked = 3
    RecoveryRequests = 3
    Capacity = 2
    BatchSizes = {1, 3}
    MaxItems = 5
    PageItems = 2
    PageLimit = 3
    Addresses = 2
    NCandidates = 2
    FlowProbes = 2
    BudgetCodes = 1
    Workers = 2
    MaxCloses = 1
    HelperUsers = {p, q}
    HelperNames = {"daily_share_capital", "stock_profile_table"}
    Lacking = {2}
    LastDay = 3
    MaxHelperCalls = 2
    BoardCallers = {p, q}
    Days = 2
    MaxBoardCalls = 2
    MaxRestarts = 1
    Writers = {w1}
    Dates = 3
    MaxFileOps = 2
    MaxCrashes = 2
    LastSession = 3
    MaxChanges = 2
    Closes = {1, 3}
    FirstDays = 1
    Target = 4
    Listings = {"main", "st", "new"}
    ClientKeys = {k1, k2}
    Callers = {t1, t2, t3}
    MaxClients = 1
    MaxCalls = 1
    Sockets = {p, q}
    MaxRequests = 2
    MaxPushes = 1
    MaxResponses = 1
    MaxEvents = 1
    Ahead = 1
    Requests = {"r1", "r2", "r3"}
    MaxPendingRequests = 2
    MaxEpoch = 1
    NEndpoints = 2
    MaxExchanges = 5
    MaxUnasked = 2
    FlowIds = 1
    RefreshIds = 1
    FrameBudget = 2
    Readers = {p, q, z}
    RawMax = 3
    Staging = 2
    DecodedMax = 4
    Share = 2
    FrameRaw = 2
    FrameDecoded = 1
    HostThreads = {p, q}
    MaxRuntimes = 2
    MaxHostCalls = 4
    HostCapacity = 1
    MaxStartFailures = 1
    MaxFatals = 1
    PinCalls = {"c1", "c2", "c3"}
    FewerCalls = {"c1", "c2"}
    PinOthers = {"o"}
    PinClosers = {p, q}
    MaxPinWaiting = 2
    Interrupted = {"c1", "o", "pin"}
    MaxPayload = 2
    MaxBuffer = 6
    MaxResync = 2
    QueueFrames = 2
    MaxPieces = 3
SPECIFICATION Spec
SYMMETRY ThreadSymmetry
INVARIANTS
    TypeOK
    OwnAnswers
    ProbesAreWhole
    AnswersAreWhole
    PinsAreGivenBack
    ClientsLiveWhileUsed
    GatewaySessionsAreOrderly
    EmptyWasLookedFor
    HelpersKeepTheirWord
    PricesAgree
    FilesSurviveCrashes
    CallsLeaveNothing
CHECK_DEADLOCK FALSE
