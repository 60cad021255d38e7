SPECIFICATION Spec
CONSTANTS NPlayers = 2  MaxOps = 1  MaxSess = 1  MaxFlush = 1  MaxCrash = 0  Online = TRUE  MayStop = FALSE
INVARIANTS FlushKeepsIdsUnique
CHECK_DEADLOCK FALSE
