SPECIFICATION Spec
CONSTANTS
    NumRegions = 2
    TotalPages <- MCTotalPages
    MetadataPages <- MCMetadataPages
    MaxOrder = 2
    PageSize = 4
    SizeMod = 64
    Sizes = {0, 1, 5, 8, 9, 13, 17}
INVARIANTS Partition FullyCoalesced
PROPERTY PageAllocSpec
