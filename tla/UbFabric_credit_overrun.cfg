CONSTANTS
    VlNum = 2
    CellBytes = 2
    Grain = 1
    CreditMod = 64
    InitCrd = 3
    SharedCrd = 0
    PfcUpThld = 4
    PfcLowThld = 3
    CtrlBytes = 1
    Ports <- ChainPorts
    NodeOf <- ChainNodeOf
    Peer <- ChainPeer
    Devices <- ChainDevices
    Route <- ChainRoute
    Flows <- LongHeaders
    Scenarios <- ThreeUnderCredits
    InPortLimit = 12
    MaxEgressBytes = 12
SPECIFICATION Spec
CHECK_DEADLOCK FALSE
INVARIANTS
    CreditsWithinBuffer
