SPECIFICATION TimedSpec
CONSTANTS
    Requests = {r1, r2}
    MaxConcurrency = 2
    GatewayConcurrency = 2
    ProviderTimeout = 5
    CodexTimeout = 3
    CleanupTime = 1
    FetchTime = 0
    GenerateTime = 3
INVARIANT
    TypedTimeoutReachesGateway
CHECK_DEADLOCK FALSE
