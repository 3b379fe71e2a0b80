SPECIFICATION FairSpec
CONSTANTS
    Callers = {c1, c2}
    d1 = d1
    d2 = d2
    d3 = d3
    Decisions = {d1, d2, d3}
    Cancellations = {x1, x2}
    Asks <- MCAsks
    None = None
    StartingCash = 5
    One = 3
    CallersFail = TRUE
INVARIANTS
    LedgerInv
    ReservationsAreCovered
    PositionsAreConserved
PROPERTIES
    ImplementsContract
    CallsReturn
CHECK_DEADLOCK FALSE
