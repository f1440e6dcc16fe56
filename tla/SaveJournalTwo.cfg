SPECIFICATION Spec
CONSTANTS
    k1 = k1
    k2 = k2
    Keys <- TwoKeys
    MaxRevision <- OnceEach
    MaxFaults = 2
    MaxAutomaticAttempts = 1
    MaxExplicitAttempts = 1
    MaxAutomaticCheckpoints = 1
    MaxExplicitCheckpoints = 1
    Threshold = 2
    Calls <- MostCalls
SYMMETRY KeySymmetry
PROPERTY ImplementsLedger
