SPECIFICATION MallocSpec
CONSTANTS
    SIZE_T_BITSIZE = 7
    TREEBIN_SHIFT = 4
    NTREEBINS = 2
    PageSize = 16
    TRIM_THRESHOLD = 66
    Base = 32
    Limit = 112
    Requests = {1, 13}
    Resizes = {17}
    Alignments <- MCAlignments
    Products <- MCProducts
    Pairs <- MCPairs
    Pads = {0}
    MaxBlocks = 4
    MaxAligned = 2
INVARIANTS ReturnsWhenOutOfMemory
CHECK_DEADLOCK FALSE
