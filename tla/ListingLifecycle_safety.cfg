\* A listing through three or four periods, with every interleaving.
SPECIFICATION Spec
CONSTANTS
    Validity = 3
    RenewalDuration = 2
    MaxTime = 9
CHECK_DEADLOCK FALSE
INVARIANTS
    PeriodsDisjoint
    VisibleIsCovered
    RequestIsStanding
PROPERTIES
    RenewalBuysVisibility
    ImplementsValidity
