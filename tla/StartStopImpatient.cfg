CONSTANTS
    Order <- HeldUp
    MaxClicks = 2
    Patient = FALSE

SPECIFICATION LiveSpec

PROPERTIES
    ExitCodeEndsAll

CHECK_DEADLOCK FALSE
