CONSTANTS
    w1 = w1
    w2 = w2
    t1 = t1
    t2 = t2
    t3 = t3
    b1 = b1
    b2 = b2
    Workers <- OneWorker
    Tasks <- ThreeTasks
    Serial = {t3}
    Batches <- TwoBatches
    BatchTasks <- PairAndOne
    Priorities = {0}
    Cancellable = {}
    Panicking = {}
    Postponing = {t1, t2, t3}
    Perpetual = {t1}
    PeriodZero = FALSE
    MaxPermits = 4
    MaxOwnerOps = 1
SPECIFICATION FairSpec
PROPERTIES
    EveryTaskCompletes
    OwnerCallReturns
CHECK_DEADLOCK FALSE
