SPECIFICATION Spec
CONSTANTS
    One = 5
    Orders <- MCOrders
    Markets <- MCMarkets
    Depth = {0, 1, 2}
    Pending = Pending
    Refused = Refused
INVARIANTS
    ExecutionInv
PROPERTY
    ImplementsOrder
CHECK_DEADLOCK FALSE
