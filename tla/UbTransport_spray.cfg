\* Defaults: no retransmission, packet spray, no loss.
CONSTANTS
    WqeSizes = {2, 3, 7}
    MaxPsn = 7
    SegPkts = 2
    MaxWqeSegs = 3
    MaxInflight = 3
    OooThreshold = 3
    PsnMod = 16
    EnableRetrans = FALSE
    Caqm = TRUE
    MaxRetransAttempts = 1
    Reorder = TRUE
    MaxLoss = 0
SPECIFICATION FairSpec
INVARIANTS
    TypeOK
    CompletedWereReceived
    AckedWereReceived
    WindowFitsBitmap
    NeverEmptyHanded
    NoLostRequest
PROPERTIES
    EveryWqeCompletes
    ReliableFairSpec
\* A workload is finite: the channel stops when it is done.
CHECK_DEADLOCK FALSE
