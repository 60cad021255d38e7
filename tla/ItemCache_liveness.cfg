SPECIFICATION FairSpec
CONSTANTS NPlayers = 1  MaxOps = 2  MaxSess = 1  MaxFlush = 1  MaxCrash = 1  Online = FALSE  MayStop = FALSE
INVARIANTS CacheSets
PROPERTIES SavesReachSQL 
CHECK_DEADLOCK FALSE
