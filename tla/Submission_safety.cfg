SPECIFICATION SubmissionSpec
CONSTANTS
    Listings = {l1, l2}
    Requests = {r1, r2, r3}
    Nobody = Nobody
    Limits = {0, 1}
    MaxRevision = 1
SYMMETRY Interchangeable
CHECK_DEADLOCK FALSE
INVARIANTS
    NumbersAreDense
    NobodyIsRefused
    FreeWithinLimit
    ReviewedIsPaid
    FrozenSinceSubmission
