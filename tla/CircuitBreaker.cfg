SPECIFICATION Spec
CONSTANTS
    QuotaOpen = 4
    AuthOpen = 2
    TransientOpen = 3
    Window = 2
    Threshold = 3
    MaxTime = 8
INVARIANTS
    BreakerTypeOK
    DequeBounded
    OpenIsExplained
PROPERTY
    LazyImplementsEager
