\* The default proportion: the jetty may run further ahead than its bitmap.
CONSTANTS
    j1 = j1
    t1 = t1
    t2 = t2
    Jetties = {j1}
    Tps = {t1, t2}
    Paths <- BothPaths
    Orders = {"NO"}
    WqeSizes = {5}
    MaxWqes = 1
    JettyInflight = 10
    OooThreshold = 2
    MaxWqeSegs = 2
    RemoveUseless = FALSE
SPECIFICATION FairSpec
PROPERTIES
    AckedSegmentsComplete
\* A workload is finite: the node stops when it is done.
CHECK_DEADLOCK FALSE
