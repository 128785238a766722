SPECIFICATION Spec
CONSTANTS
    Moderators = {m1, m2}
    NoOne = NoOne
    MaxContent = 2
    MaxEdits = 1
    MaxAdjustments = 1
    MaxReviews = 2
    MaxRevision = 3
    MaxCounter = 2
SYMMETRY Interchangeable
CHECK_DEADLOCK FALSE
INVARIANT ReturnedAsDecided
