SPECIFICATION Spec
CONSTANTS
    k1 = k1
    k2 = k2
    Keys <- OneKey
    MaxRevision <- Once
    MaxFaults = 0
    MaxAutomaticAttempts = 1
    MaxExplicitAttempts = 2
    MaxAutomaticCheckpoints = 1
    MaxExplicitCheckpoints = 1
    Threshold = 2
    Calls <- MostCalls
INVARIANT ReloadSeesEdits
