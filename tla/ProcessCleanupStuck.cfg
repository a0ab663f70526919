SPECIFICATION Spec
CONSTANTS
    Leader = leader
    Descendants = {d1}
    Timeout = 1
    Grace = 1
    KillWait = 1
INVARIANT
    TimeoutAfterGroupGone
CHECK_DEADLOCK FALSE
