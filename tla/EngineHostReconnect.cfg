CONSTANTS
    HostThreads = {e1, e2}
    MaxRuntimes = 2
    MaxHostCalls = 3
    HostCapacity = 1
    MaxStartFailures = 0
    MaxFatals = 0
SPECIFICATION EngineSpec
PROPERTIES
    ConnectReturns
CHECK_DEADLOCK FALSE
