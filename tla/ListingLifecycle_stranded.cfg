\* An edit approved while its listing is suspended.
SPECIFICATION Spec
CONSTANTS
    Validity = 3
    RenewalDuration = 2
    MaxTime = 4
CHECK_DEADLOCK FALSE
INVARIANT
    RequestAwaitsEdit
