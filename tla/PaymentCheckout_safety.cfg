\* Two promotion intents competing for one slot, three attempts, two verifiers.
SPECIFICATION Spec
CONSTANTS
    p1 = p1
    p2 = p2
    Payments = {p1, p2}
    Promotions = {p1, p2}
    Attempts = {a1, a2, a3}
    Verifiers = {v1, v2}
    SlotOf <- OneSlot
    CreatedAt <- InOrder
    ScanLimit = 1
    Timely = TRUE
    None = None
SYMMETRY Interchangeable
CHECK_DEADLOCK FALSE
INVARIANTS
    OnePayableOrder
    ExactlyOnceFulfillment
    PaidOrderIsTracked
    AbandonedOrderUnpayable
PROPERTIES
    ImplementsLedger
