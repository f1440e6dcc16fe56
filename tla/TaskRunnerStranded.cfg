CONSTANTS
    w1 = w1
    w2 = w2
    t1 = t1
    t2 = t2
    t3 = t3
    b1 = b1
    b2 = b2
    Workers <- TwoWorkers
    Tasks <- ThreeTasks
    Serial = {t1, t2, t3}
    Batches <- OneBatch
    BatchTasks <- AllInOne
    Priorities = {0}
    Cancellable = {t2}
    Panicking = {}
    Postponing = {t3}
    Perpetual = {}
    PeriodZero = FALSE
    MaxPermits = 1
    MaxOwnerOps = 0
SPECIFICATION FairSpec
PROPERTIES
    PostponedRunsAgain
CHECK_DEADLOCK FALSE
