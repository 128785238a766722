SPECIFICATION Spec
CONSTANTS
    Originals = {o1}
    Uploads = {u1}
    Requests = {r1, r2}
    Workers = {w1}
    Nothing = Nothing
    ImageMax = 2
    MaxClaims = 1
    MaxEdits = 1
    MaxEvents = 1
    MaxFaults = 0
CHECK_DEADLOCK FALSE
INVARIANTS
    PublicImagesExist
