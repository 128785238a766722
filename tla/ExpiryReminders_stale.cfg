\* A reminder that is claimed after its day.
SPECIFICATION Spec
CONSTANTS
    Validity = 3
    RenewalDuration = 2
    MaxTime = 4
    Workers = {w1, w2}
    Offsets = {1, 2}
    Horizon = 3
    Batch = 2
    MaxAttempts = 2
    MaxFaults = 0
    Timely = TRUE
CHECK_DEADLOCK FALSE
PROPERTY
    StaleIsNeverSent
