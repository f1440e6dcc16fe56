SPECIFICATION Spec
CONSTANTS
    SlotCount = 3
    SectorSize = 2
    Misalignments <- BothAlign
    MaxSectorCount = 2
    Sizes <- AllSizes
    MaxSaves = 4
    MaxFaults = 2
INVARIANTS TablesTight SavedBlocksReadBack FileOpensAgain
