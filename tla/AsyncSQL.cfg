SPECIFICATION FairSpec
CONSTANTS
    MaxQueries = 3
    MaxFaults = 2
    SemMax = 2
INVARIANTS
    NoLostWakeup
    ExecutedInOrder
    QuitDrains
PROPERTIES
    ImplementsService
    EventuallyAnswered
    QuitTerminates
CHECK_DEADLOCK FALSE
