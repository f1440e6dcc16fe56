CONSTANTS
    left = left
    middle = middle
    right = right
    NoRequest = NoRequest
    Threads = {p1, p2, p3}
    Boxes <- ThreeBoxes
    Overlapping <- Row
    Requests <- AllRequests
SPECIFICATION FairSpec
INVARIANTS
    Exclusion
    SlabMatchesGuards
    ParkedIsBlocked
PROPERTIES
    ImplementsRegionLock
    OnlyStarvedByOthers
