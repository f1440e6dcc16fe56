SPECIFICATION FairSpec
CONSTANTS
    k1 = k1
    k2 = k2
    Keys <- OneKey
    MaxRevision <- Twice
    MaxFaults = 2
    MaxAutomaticAttempts = 1
    MaxExplicitAttempts = 2
    MaxAutomaticCheckpoints = 1
    MaxExplicitCheckpoints = 1
    Threshold = 2
    Calls <- AllCalls
INVARIANTS
    JournalIntact
    NoEditLost
    FlushedIsDurable
PROPERTIES
    StoredNeverRegresses
    CallsReturn
    EverySaveWritten
CHECK_DEADLOCK FALSE
