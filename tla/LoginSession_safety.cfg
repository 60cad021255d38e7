SPECIFICATION Spec
INVARIANTS NoDangling LogonBacked SessionToken OnlyLatestKeyValid
CONSTANTS
    NGames = 2
    MaxDesc = 2
    MaxAuth = 2
    MaxLoss = 2
    HasIndex = FALSE
CHECK_DEADLOCK FALSE
