\* Retransmission over a FIFO network that loses packets and acks, with a bitmap
\* narrower than the window; timeouts also race answers under way.  The first packet
\* of the channel may be lost twice.
CONSTANTS
    WqeSizes = {1, 3}
    MaxPsn = 4
    SegPkts = 2
    MaxWqeSegs = 3
    MaxInflight = 3
    OooThreshold = 2
    PsnMod = 16
    EnableRetrans = TRUE
    Caqm = FALSE
    MaxRetransAttempts = 2
    Reorder = FALSE
    MaxLoss = 2
SPECIFICATION Spec
INVARIANTS
    BitmapSound
    NoLostTrigger
    TimerCoversInflight
    RepeatIsDuplicate
PROPERTIES
    ReliableButForUnderflow
\* The program stops when the attempts are used up.
CHECK_DEADLOCK FALSE
