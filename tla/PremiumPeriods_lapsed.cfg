\* A listing that lapses while the backfill waits for its lock.
SPECIFICATION Spec
CONSTANTS
    Payments = {p1, p2}
    Runs = {b1}
    Approval = approval
    Nobody = Nobody
    PaidDays = 1
    GrantDays = 2
    Validity = 2
    WindowFrom = 1
    WindowTo = 3
    Horizon = 4
    MaxFaults = 1
SYMMETRY Interchangeable
CHECK_DEADLOCK FALSE
INVARIANT
    GrantsReachTheValid
