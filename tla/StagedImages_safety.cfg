SPECIFICATION Spec
CONSTANTS
    Originals = {o1}
    Uploads = {u1}
    Requests = {r1, r2}
    Workers = {w1, w2}
    Nothing = Nothing
    ImageMax = 2
    MaxClaims = 2
    MaxEdits = 2
    MaxEvents = 2
    MaxFaults = 1
SYMMETRY Interchangeable
CHECK_DEADLOCK FALSE
INVARIANTS
    ReferencedAreKept
    OrphansAreAnnounced
    OneRunPerEvent
