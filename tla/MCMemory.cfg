CONSTANTS
    BIT_PER_ELEMENT = 2
    PAGE_SIZE = 4
    UINT = 1024
    TableSize = 10
    USER_PDE_END = 1
    KERNEL_PDE_END = 3
    HeapStart = 21
    HeapMax = 9
    MemoryMaps <- MCMaps
    KernelFrames <- MCKernelFrames
    BootHeap <- MCBootHeap
    USER_START = 1
    USER_STACK = 18
    KERNEL_STACK = 19
    InitImage <- MCInitImage
    Images <- MCImages
    MmapPages = {9}
    MaxMmap = 2
    MaxPid = 5
SPECIFICATION Spec
INVARIANTS
    OneUsePerFrame
    HaltsOnlyOutOfMemory
    KernelStackMapped
    KernelHalfShared
PROPERTIES
    LostOnlyByMmap
    OthersUntouched
    ForkCopies
    ExecLeavesImage
    MmapAllOrNothing
CHECK_DEADLOCK FALSE
