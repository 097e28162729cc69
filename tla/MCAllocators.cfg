CONSTANTS
    HEADER = 8
    CANARY = 4
    PAGE_SIZE = 32
    InitialSize = 64
    MaxSize = 160
    FrameCount = 3
    UINT = 4096
    Sizes = {6, 28}
    MaxLive = 4
    SIZE_T_BITSIZE = 7
    TREEBIN_SHIFT = 4
    NTREEBINS = 2
    PageSize = 16
    TRIM_THRESHOLD = 66
    Base = 32
    Limit = 112
    Requests = {1, 13}
    Resizes = {17}
    Alignments <- MCAlignments
    Products <- MCProducts
    Pairs <- MCPairs
    Pads = {0}
    MaxBlocks = 4
    MaxAligned = 2
SPECIFICATION SpecEither
INVARIANTS
    BlocksTile
    AllocationsHold
    MallocState
    NoCheckFails
PROPERTY GrowsOnlyWhenNothingFits
CHECK_DEADLOCK FALSE
