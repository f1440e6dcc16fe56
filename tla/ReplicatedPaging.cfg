SPECIFICATION ReplicationSpec
CONSTANTS
    a = a
    b = b
    c = c
    None = None
    Threads <- Three
    Lods <- TwoLods
    Locations <- Row
    LodOf <- RowLod
    Scenarios <- ReplicatedScenarios
    MaxLoadRetries = 1
    MaxGeneration = 3
    Meshes <- OneMesh
    Halo <- BothBlocks
    MaxMeshRetries = 1
    MaxIssued = 3
CHECK_DEADLOCK FALSE
INVARIANT PagingNeverRefused
