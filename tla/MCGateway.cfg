SPECIFICATION Spec
CONSTANTS
    Requests = {r1, r2, r3}
    MaxConcurrency = 2
    Kinds = {"luna", "forced", "api_only", "passthrough", "image"}
    Configurations <- AnyConfiguration
    QuotaOpen = 2
    AuthOpen = 1
    TransientOpen = 1
    Window = 2
    Threshold = 2
    MaxTime = 4
INVARIANTS
    GatewayTypeOK
    PermitsConserved
    CircuitsFollowReports
PROPERTY
    PaidOnlyForQuota
CHECK_DEADLOCK FALSE
SYMMETRY Symmetry
