SPECIFICATION FairSpec
CONSTANTS
    Requests = {r1, r2, r3}
    MaxConcurrency = 2
INVARIANTS
    SidecarTypeOK
    NothingLeaks
    CredentialSerialized
    NobodyForgotten
PROPERTY
    EveryRequestEnds
CHECK_DEADLOCK FALSE
