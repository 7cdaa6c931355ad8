\* A timeout rolls back what a late ack then confirms.
CONSTANTS
    WqeSizes = {3}
    MaxPsn = 3
    SegPkts = 2
    MaxWqeSegs = 3
    MaxInflight = 2
    OooThreshold = 2
    PsnMod = 16
    EnableRetrans = TRUE
    Caqm = TRUE
    MaxRetransAttempts = 3
    Reorder = FALSE
    MaxLoss = 0
SPECIFICATION Spec
INVARIANTS
    LimitedOnlyWhenFull
\* The program stops when the attempts are used up.
CHECK_DEADLOCK FALSE
