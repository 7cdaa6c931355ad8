\* The first packet of a channel is lost twice.
CONSTANTS
    WqeSizes = {2}
    MaxPsn = 2
    SegPkts = 2
    MaxWqeSegs = 3
    MaxInflight = 2
    OooThreshold = 2
    PsnMod = 16
    EnableRetrans = TRUE
    Caqm = TRUE
    MaxRetransAttempts = 3
    Reorder = FALSE
    MaxLoss = 2
SPECIFICATION Spec
INVARIANTS
    AckIsLargestInSequence
\* The program stops when the attempts are used up.
CHECK_DEADLOCK FALSE
