\* A cancelled intent reopened by the checkout in flight.
SPECIFICATION Spec
CONSTANTS
    p1 = p1
    p2 = p2
    Payments = {p1, p2}
    Promotions = {p1, p2}
    Attempts = {a1, a2}
    Verifiers = {v1}
    SlotOf <- OneSlot
    CreatedAt <- InOrder
    ScanLimit = 1
    Timely = TRUE
    None = None
CHECK_DEADLOCK FALSE
PROPERTY
    CancelledIsFinal
