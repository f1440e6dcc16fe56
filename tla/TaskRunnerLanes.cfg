CONSTANTS
    w1 = w1
    w2 = w2
    t1 = t1
    t2 = t2
    t3 = t3
    b1 = b1
    b2 = b2
    Workers <- TwoWorkers
    Tasks <- ThreeTasks
    Serial = {t1, t2}
    Batches <- TwoBatches
    BatchTasks <- PairAndOne
    Priorities = {0}
    Cancellable = {t1, t3}
    Panicking = {}
    Postponing = {t3}
    Perpetual = {}
    PeriodZero = FALSE
    MaxPermits = 2
    MaxOwnerOps = 1
SPECIFICATION Spec
SYMMETRY WorkerSymmetry
INVARIANTS
    TypeOK
    SerialLane
    TasksAccounted
    NoLostWakeup
PROPERTIES
    IngressFifo
    ImplementsPool
    WaitSound
CHECK_DEADLOCK FALSE
