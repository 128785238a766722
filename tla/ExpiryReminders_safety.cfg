\* Two runs, two reminders of a period, one fault, a suspension and a renewal.
SPECIFICATION FairSpec
CONSTANTS
    Validity = 3
    RenewalDuration = 2
    MaxTime = 3
    Workers = {w1, w2}
    Offsets = {1, 2}
    Horizon = 3
    Batch = 2
    MaxAttempts = 2
    MaxFaults = 1
    Timely = TRUE
CHECK_DEADLOCK FALSE
INVARIANTS
    CancelledIsOver
    DuplicatesAreExplained
    ExhaustionIsEarned
PROPERTIES
    DueAreSettled
