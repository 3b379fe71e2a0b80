SPECIFICATION OrderedSpec
CONSTANTS
    Levels = {l1}
    Timestamps = {1}
    MaxSeq = 6
    MaxDelta = 4
    MaxQty = 1
    MaxFaults = 2
INVARIANT
    OrderedStreamNeverTerminates
PROPERTY
    EventuallyPublished
CHECK_DEADLOCK FALSE
