SPECIFICATION Spec
CONSTANTS
    Levels = {l1}
    Timestamps = {1, 2}
    MaxSeq = 4
    MaxQty = 1
    MaxFaults = 1
CONSTRAINT
    ConnectionBound
INVARIANTS
    PublishedBookIsVenueBook
    NoPublicationBelowObserved
    RecoveryRequestedOncePerGap
PROPERTY
    SequenceNeverRewinds
CHECK_DEADLOCK FALSE
