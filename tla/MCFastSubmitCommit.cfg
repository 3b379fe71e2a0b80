SPECIFICATION Spec
CONSTANTS
    s1 = s1
    s2 = s2
    Signals <- MCSignals
    CompactAt = 3
    Cap = 1
    Scenarios <- CommitScenario
INVARIANT
    Tracked
CHECK_DEADLOCK FALSE
