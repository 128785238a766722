\* An order that lapses unpaid while the buyer keeps retrying.
SPECIFICATION FairSpec
CONSTANTS
    p1 = p1
    p2 = p2
    Payments = {p1}
    Promotions = {}
    Attempts = {a1, a2}
    Verifiers = {v1}
    SlotOf <- OwnSlots
    CreatedAt <- InOrder
    ScanLimit = 1
    Timely = TRUE
    None = None
CHECK_DEADLOCK FALSE
PROPERTY
    UnpaidOrderCanBeRetried
