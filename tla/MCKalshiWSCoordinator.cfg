SPECIFICATION FairSpec
CONSTANTS
    Starts = {s1, s2}
    Readers = {r1}
    Stoppers = {d1}
    None = None
    MaxCancels = 2
INVARIANTS
    LiveEpochIsOwned
    TransportClosedOnce
    CancelledFailsClosed
    RecoverySendIsCurrent
PROPERTIES
    TransitionsEnd
    DetachedReceiveReturns
CHECK_DEADLOCK FALSE
