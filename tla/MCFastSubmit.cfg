SPECIFICATION FairSpec
CONSTANTS
    s1 = s1
    s2 = s2
    Signals <- MCSignals
    CompactAt = 3
    Cap = 1
    Scenarios <- MCScenarios
INVARIANTS
    RowsInv
    FiredOnce
    CapHolds
    TrackedUnlessCut
PROPERTY
    IntentsResolve
CHECK_DEADLOCK FALSE
