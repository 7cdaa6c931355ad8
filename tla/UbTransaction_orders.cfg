\* One jetty on two TPs, WQEs of every order; two of them, so that none overtakes a blocked one.
\* The bitmap is narrower than what the jetty may have outstanding, as it is by default.
CONSTANTS
    j1 = j1
    t1 = t1
    t2 = t2
    Jetties = {j1}
    Tps = {t1, t2}
    Paths <- BothPaths
    Orders = {"NO", "RO", "SO"}
    WqeSizes = {1, 4}
    MaxWqes = 2
    JettyInflight = 10
    OooThreshold = 2
    MaxWqeSegs = 3
    RemoveUseless = FALSE
SPECIFICATION Spec
INVARIANTS
    TypeOK
    SegmentsAccountedFor
    StrongOrder
    NoLostRound
PROPERTIES
    CompletedWhole
\* A workload is finite: the node stops when it is done.
CHECK_DEADLOCK FALSE
