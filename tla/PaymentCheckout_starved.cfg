\* A paid payment behind an older one whose order is never paid.
SPECIFICATION FairSpec
CONSTANTS
    p1 = p1
    p2 = p2
    Payments = {p1, p2}
    Promotions = {}
    Attempts = {a1, a2}
    Verifiers = {v1}
    SlotOf <- OwnSlots
    CreatedAt <- InOrder
    ScanLimit = 1
    Timely = TRUE
    None = None
CHECK_DEADLOCK FALSE
PROPERTY
    PaidIsAlwaysSettled
