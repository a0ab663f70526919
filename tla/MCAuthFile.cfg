SPECIFICATION MCSpec
CONSTANTS
    r1 = r1
    r2 = r2
    Requests = {r1, r2}
    Others = {p1}
    Creations <- SomeCreations
    MaxLogins = 1
    MaxRefreshes = 1
    MaxCrashes = 1
INVARIANTS
    AuthTypeOK
    FileHoldsLatest
    NoRaceForRotation
    LoginsUndoneOnlyMidUse
PROPERTY
    AccessRestored
CHECK_DEADLOCK FALSE
