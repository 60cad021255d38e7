SPECIFICATION FairSpec
PROPERTIES LoginAnswered ClosedAccountReleased
CONSTANTS
    NGames = 2
    MaxDesc = 2
    MaxAuth = 1
    MaxLoss = 1
    HasIndex = TRUE
CHECK_DEADLOCK FALSE
