CONSTANTS
    NumBlocks = 16
    GroupSize = 1
    DirectMax = 1
    ExtentsPerBlock = 1
    LbasPerBlock = 2
    EntriesPerSector = 8
    MaxFree = 8
    File = {f}
    MaxExtents = 5
    MaxLen = 6
    MaxCrashes = 1
VIEW VolumeView
SPECIFICATION Spec
INVARIANTS
    NoSharedBlock
PROPERTIES
    ContentsStayInPlace
