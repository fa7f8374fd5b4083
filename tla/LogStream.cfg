CONSTANTS
    Tails = {"t1", "t2"}
    Files = {"f1", "f2"}
    StdOut <- Outs
    StdErr <- Errs
    Requesters = {"t1"}
    Starts <- MCStarts
    MaxSize = 4
    MaxInodes = 2
    MaxOps = 3
SPECIFICATION StreamSpec
INVARIANTS StreamPrefix EofNeedsClose LeakNeedsGone ArchiveExact
CHECK_DEADLOCK FALSE
PROPERTY CloseEnds
