\* A seller who deactivates again after asking for activation.
SPECIFICATION Spec
CONSTANTS
    Validity = 3
    RenewalDuration = 2
    MaxTime = 4
CHECK_DEADLOCK FALSE
PROPERTY
    DeactivationIsLastWord
