CONSTANTS
    HEADER = 8
    CANARY = 4
    PAGE_SIZE = 32
    InitialSize = 64
    MaxSize = 128
    FrameCount = 2
    UINT = 4096
    Sizes = {1, 6, 28}
    MaxLive = 3
SPECIFICATION Spec
INVARIANT DataInsideBlock
CHECK_DEADLOCK FALSE
