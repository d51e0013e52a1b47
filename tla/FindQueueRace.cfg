CONSTANTS
    Names = {n1, n2, n3}
    MaxImages = 2
    none = none

SPECIFICATION Spec

INVARIANTS
    PushedIsQueued

CHECK_DEADLOCK FALSE
