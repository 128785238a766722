SPECIFICATION SubmissionSpec
CONSTANTS
    Listings = {l1, l2}
    Requests = {r1, r2}
    Nobody = Nobody
    Limits = {0}
    MaxRevision = 0
SYMMETRY Interchangeable
CHECK_DEADLOCK FALSE
INVARIANTS
    NobodyDeadlocks
