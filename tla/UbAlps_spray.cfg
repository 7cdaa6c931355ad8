CONSTANTS
    t1 = t1
    t2 = t2
    p1 = p1
    p2 = p2
    Tps = {t1, t2}
    Paths = {p1, p2}
    NoTp = NoTp
    Scenarios <- Spraying
    MaxInflight = 3
    OooThreshold = 2
    PsnMod = 16
SPECIFICATION FairSpec
INVARIANTS
    TypeOK
    NothingForgotten
    AckedAheadOnlyOfZero
    InflightMatchesPending
    NoLostTrigger
    OnlyLostAreFiled
PROPERTIES
    Settles
    SentArrives
CHECK_DEADLOCK FALSE
