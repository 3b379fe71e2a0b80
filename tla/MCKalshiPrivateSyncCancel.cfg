SPECIFICATION FairSpec
CONSTANTS
    Channels = {orders}
    MaxChanges = 1
    MaxFence = 1
    MaxFailures = 1
    MaxStale = 0
CHECK_DEADLOCK FALSE
PROPERTY
    CancelEndsRunner
