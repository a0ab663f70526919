SPECIFICATION Spec
CONSTANTS
    Requests = {r1, r2}
    MaxConcurrency = 1
    Kinds = {"luna"}
    Configurations <- DeployedConfiguration
    QuotaOpen = 2
    AuthOpen = 1
    TransientOpen = 1
    Window = 2
    Threshold = 2
    MaxTime = 1
PROPERTY
    NoCodexInQuotaWindow
CHECK_DEADLOCK FALSE
