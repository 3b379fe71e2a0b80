SPECIFICATION Spec
CONSTANTS
    Workers = {w1, w2}
    None = None
    NoAttempt = NoAttempt
    TTL = 1
    Skew = 0
    MaxTime = 2
    MaxFence = 2
    MaxAttempts = 3
    MaxChanges = 1
SYMMETRY Symmetry
INVARIANTS
    LeaseIsExclusive
    CurrentShowsNewestCoverage
PROPERTIES
    HealthyNeverGetsOlder
    ImplementsHead
CHECK_DEADLOCK FALSE
