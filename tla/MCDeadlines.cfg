SPECIFICATION TimedSpec
CONSTANTS
    Requests = {r1, r2, r3}
    MaxConcurrency = 2
    GatewayConcurrency = 2
    ProviderTimeout = 4
    CodexTimeout = 2
    CleanupTime = 1
    FetchTime = 1
    GenerateTime = 3
INVARIANTS
    DeadlinesTypeOK
    UndelayedIsAnswered
    LockWaitBounded
CHECK_DEADLOCK FALSE
SYMMETRY Symmetry
