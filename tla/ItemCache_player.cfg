SPECIFICATION Spec
CONSTANTS NPlayers = 1  MaxOps = 3  MaxSess = 2  MaxFlush = 1  MaxCrash = 0  Online = FALSE  MayStop = TRUE
INVARIANTS SavesPersist
PROPERTIES LoadsCurrent SavedWhenGone
CHECK_DEADLOCK FALSE
