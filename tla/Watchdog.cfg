CONSTANTS
    MaxHand = 1
    MaxRuns = 2

SPECIFICATION FairSpec

INVARIANTS
    TypeOK
    OneApp
    OneLateLaunch

PROPERTIES
    ImplementsService
    KeepsAppAlive

CHECK_DEADLOCK FALSE
