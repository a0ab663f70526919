SPECIFICATION FairSpec
CONSTANTS
    Requests = {r1, r2, r3, r4}
    MaxConcurrency = 2
    Kinds = {"luna", "image"}
    Configurations <- PayingConfiguration
    QuotaOpen = 2
    AuthOpen = 1
    TransientOpen = 1
    Window = 2
    Threshold = 2
    MaxTime = 0
INVARIANT
    NoLostWakeup
PROPERTY
    EveryRequestAnswered
CHECK_DEADLOCK FALSE
