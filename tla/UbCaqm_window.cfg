\* Congestion control enabled, data sprayed, acks routed per flow.
CONSTANTS
    MaxPsn = 5
    Bytes <- HalfPackets
    Mtu = 2
    MaxInflight = 3
    InitCwnd = 4
    BetaMtu = 1
    GammaMtu = 1
    Carried <- NewAndOld
    FieldMod = 64
    ResetThreshold = 57
    ResetNum = 32
    HintMod = 4
    CMod = 4
    Adaptive = FALSE
SPECIFICATION FairSpec
INVARIANTS
    InFlightIsUnacked
    ProbeIsSent
PROPERTIES
    AllAcknowledged
\* A workload is finite: the channel stops when it is done.
CHECK_DEADLOCK FALSE
