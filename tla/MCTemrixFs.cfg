CONSTANTS
    NumBlocks = 6
    GroupSize = 3
    DirectMax = 2
    ExtentsPerBlock = 1
    LbasPerBlock = 1
    EntriesPerSector = 2
    MaxFree = 4
    File = {f, g}
    MaxExtents = 2
    MaxLen = 2
    MaxCrashes = 1
SYMMETRY FileSymmetry
VIEW VolumeView
SPECIFICATION Spec
INVARIANTS
    NoSharedBlock
PROPERTIES
    BlocksLostOnlyWhenFull
    FreeSpaceIsSaved
    CrashSafeGrowth
