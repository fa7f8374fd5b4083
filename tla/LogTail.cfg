CONSTANTS
    Tails = {t1, t2}
    Files = {f1, f2}
    MaxSize = 4
    MaxInodes = 2
    MaxOps = 3
SPECIFICATION TailSpec
INVARIANTS TailTypeOK UnreadNeedsGap LinesIntact RunNotStuck
PROPERTY EndNeedsStop
SYMMETRY Perms
CHECK_DEADLOCK FALSE
