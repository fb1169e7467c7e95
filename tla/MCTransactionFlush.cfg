SPECIFICATION FairSpec
CONSTANTS
    None = None
    t1 = t1
    t2 = t2
    a1 = a1
    a2 = a2
    b1 = b1
    b2 = b2
    layer = layer
    Threads = {t1, t2}
    ApplyTokens = {a1, a2}
    BarrierTokens = {b1, b2}
    Layers = {layer}
    Scripts <- MCScripts
    MaxTime = 2
    MaxPostTime = 1
    enableLatchUnsignaledConfig = "AutoSingleLayer"
    TransactionBarrierTtl = 0
    BufferTimeout = 0
    MaxEarlyTime = 0
INVARIANTS
    QueuesKeepOrder
    BarriersRespected
    BarrierFramesRespected
    UnsignaledAppliedAlone
    StalledStillPending

    
CHECK_DEADLOCK FALSE
