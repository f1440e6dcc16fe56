SPECIFICATION ReplicationSpec
CONSTANTS
    a = a
    b = b
    c = c
    None = None
    Threads <- Three
    Lods <- TwoLods
    Locations <- Row
    LodOf <- RowLod
    Scenarios <- WorldScenarios
    MaxLoadRetries = 1
    MaxGeneration = 3
    Meshes <- OneMesh
    Halo <- BothBlocks
    MaxMeshRetries = 1
    MaxIssued = 3
CHECK_DEADLOCK FALSE
INVARIANTS
    ReplicationTypeOK
    CommitsMatchPreviews
    NoDeadlock
    InSync
    EveryViewCounted
    NoLoadLost
    MeshesCatchUp
PROPERTIES
    ImplementsAtomicStore
    ClosedMeansQuiet
    ClientNeverGoesBack
    LoadsEnd
