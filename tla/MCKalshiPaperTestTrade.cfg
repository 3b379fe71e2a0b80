SPECIFICATION FairSpec
CONSTANTS
    Quantity = 2
    MaxEvents = 6
    MaxFailures = 2
    None = None
INVARIANTS
    RunInv
    EvidenceMatchesLedger
PROPERTIES
    QuietWhenStopped
    KeepsContract
    Recovers
CHECK_DEADLOCK FALSE
