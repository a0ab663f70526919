SPECIFICATION Spec
CONSTANTS
    Requests = {r1, r2, r3}
    MaxConcurrency = 2
    Kinds = {"luna"}
    Configurations <- DeployedConfiguration
    QuotaOpen = 2
    AuthOpen = 1
    TransientOpen = 1
    Window = 2
    Threshold = 2
    MaxTime = 1
PROPERTY
    LaterRequestsFallBack
CHECK_DEADLOCK FALSE
