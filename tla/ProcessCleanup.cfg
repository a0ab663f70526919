SPECIFICATION Spec
CONSTANTS
    Leader = leader
    Descendants = {d1, d2}
    Timeout = 1
    Grace = 2
    KillWait = 1
INVARIANTS
    CleanupTypeOK
    SurvivorsWereKilled
    CleanupWithinBudget
PROPERTY
    EveryRunEnds
CHECK_DEADLOCK FALSE
