SPECIFICATION Spec
CONSTANTS
    Moderators = {m1, m2}
    NoOne = NoOne
    MaxContent = 3
    MaxEdits = 1
    MaxAdjustments = 2
    MaxReviews = 3
    MaxRevision = 3
    MaxCounter = 2
SYMMETRY Interchangeable
CHECK_DEADLOCK FALSE
INVARIANTS
    AdjustmentOfThisPass
    DecidedAsShown
    PublicIsApproved
    OutcomesAreReviewed
PROPERTIES
    ClaimIsExclusive
