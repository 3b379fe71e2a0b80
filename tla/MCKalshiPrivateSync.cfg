SPECIFICATION FairSpec
CONSTANTS
    Channels = {orders}
    MaxChanges = 2
    MaxFence = 2
    MaxFailures = 1
    MaxStale = 1
INVARIANTS
    RunnerInv
    DurableReadyIsBacked
PROPERTY
    Converges
CHECK_DEADLOCK FALSE
