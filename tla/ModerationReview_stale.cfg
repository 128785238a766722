SPECIFICATION Spec
CONSTANTS
    Moderators = {m1, m2}
    NoOne = NoOne
    MaxContent = 3
    MaxEdits = 2
    MaxAdjustments = 2
    MaxReviews = 3
    MaxRevision = 3
    MaxCounter = 2
SYMMETRY Interchangeable
CHECK_DEADLOCK FALSE
INVARIANT ReviewedIsDecided
