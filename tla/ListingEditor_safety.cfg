SPECIFICATION Spec
CONSTANTS
    Fields = {f1, f2}
    Uploads = {u1}
    Reloads = {k1, k2}
    None = None
    MaxEdits = 2
    MaxRevision = 2
    MaxFaults = 1
    MaxPresses = 2
SYMMETRY Interchangeable
CHECK_DEADLOCK FALSE
INVARIANTS
    ConflictIsForeign
    NothingIsForgotten
    SentIsSaved
