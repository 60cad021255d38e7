SPECIFICATION Spec
CONSTANTS Events = {e1, e2}  Addrs = {a1, a2, a3}  MaxWhen = 1  MaxReset = 0  NULL = NULL
INVARIANTS OnlyItselfCancelled
CHECK_DEADLOCK FALSE
