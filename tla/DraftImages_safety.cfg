SPECIFICATION Spec
CONSTANTS
    Uploads = {u1, u2}
    Requests = {r1, r2}
    Workers = {w1, w2}
    Nothing = Nothing
    ImageMax = 2
    PendingMax = 2
    MaxClaims = 2
    MaxFaults = 1
SYMMETRY Interchangeable
CHECK_DEADLOCK FALSE
INVARIANTS
    OrphansAreExplained
    ImageIsOfItsUpload
    HolderIsUndisturbed
PROPERTIES
    ImplementsImageLife
