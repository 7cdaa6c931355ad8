CONSTANTS
    VlNum = 2
    CellBytes = 2
    Grain = 2
    CreditMod = 64
    InitCrd = 4
    SharedCrd = 1
    PfcUpThld = 4
    PfcLowThld = 3
    CtrlBytes = 1
    Ports <- ChainPorts
    NodeOf <- ChainNodeOf
    Peer <- ChainPeer
    Devices <- ChainDevices
    Route <- ChainRoute
    Flows <- ThreeFlows
    Scenarios <- Loads
    InPortLimit = 11
    MaxEgressBytes = 18
SPECIFICATION Spec
CHECK_DEADLOCK FALSE
INVARIANTS
    TypeOK
    CreditsConserved
    LosslessUnderCredits
    ViewsAgree
    NoIdlePort
    PauseStateTold
    NothingLeftBehind
