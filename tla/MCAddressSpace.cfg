SPECIFICATION Spec
CONSTANTS
    Task = {t1, t2}
    None = None
    NumFrames = 4
    NumAddrs = 7
    KernelData = 7
    Device = Device
    Reserved = 0
    Width = 5
    PerPage = 1
    MaxMmap = 3
    BarPages = {1}
    Places <- SomePlaces
    MaxRegions = 2
SYMMETRY TaskSymmetry
CONSTRAINT NoneCareless
INVARIANTS  NoDanglingMapping PrivateMemory NoFrameLost
CHECK_DEADLOCK FALSE
