\* Fair behaviours: two independent intents, two attempts, one verifier, and a
\* scan that takes one payment.
SPECIFICATION FairSpec
CONSTANTS
    p1 = p1
    p2 = p2
    Payments = {p1, p2}
    Promotions = {}
    Attempts = {a1, a2}
    Verifiers = {v1}
    SlotOf <- OwnSlots
    CreatedAt <- InOrder
    ScanLimit = 1
    Timely = TRUE
    None = None
CHECK_DEADLOCK FALSE
PROPERTIES
    PaidIsSettled
    DeadClaimIsReleased
