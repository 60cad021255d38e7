SPECIFICATION Spec
CONSTANTS NPlayers = 2  MaxOps = 2  MaxSess = 1  MaxFlush = 0  MaxCrash = 1  Online = TRUE  MayStop = FALSE
INVARIANTS OneCopy
CHECK_DEADLOCK FALSE
