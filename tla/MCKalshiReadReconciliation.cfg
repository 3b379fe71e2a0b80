SPECIFICATION FairSpec
CONSTANTS
    Intents = {i1}
    Orders = {o1, o2}
    Attempts = {a1}
    Callers = {c1, c2}
    Quantity = 1
    None = None
    MaxDeaths = 1
INVARIANTS
    EvidenceInv
    OneIdentity
    AnswersAgree
PROPERTY
    AttemptsAreAnswered
CHECK_DEADLOCK FALSE
