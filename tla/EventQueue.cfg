SPECIFICATION FairSpec
CONSTANTS Events = {e1, e2}  Addrs = {a1, a2, a3, a4}  MaxWhen = 2  MaxReset = 2  NULL = NULL
INVARIANTS ScheduledOnce NoneOverdue
PROPERTIES StartsRightly ProcessReturns EventRuns
CHECK_DEADLOCK FALSE
