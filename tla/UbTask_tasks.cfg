\* WQE tasks with removal of useless TPs, memory tasks, and their order.
CONSTANTS
    w1 = w1
    w2 = w2
    m1 = m1
    m2 = m2
    t1 = t1
    t2 = t2
    Tasks = {w1, w2, m1, m2}
    Jetties = {w1, w2}
    MemTasks = {m1, m2}
    Phases = {0, 1}
    Files <- TrafficFiles
    Tps = {t1, t2}
    Paths <- SharedPath
    Orders = {"NO"}
    WqeSizes = {1, 3}
    MaxWqes = 1
    JettyInflight = 1
    OooThreshold = 2
    MaxWqeSegs = 2
    RemoveUseless = TRUE
    ThreadIds <- TwoThreads
    Outstanding <- OneLoadTwoStores
    DataSize = 2
    IdMod = 8
    MemLength <- FiveAndTwo
SPECIFICATION FairTaskSpec
INVARIANTS
    DestroyedIsIdle
    DependenciesKept
    SlotsConserved
PROPERTIES
    EveryTaskCompletes
\* A workload is finite: the node stops when it is done.
CHECK_DEADLOCK FALSE
