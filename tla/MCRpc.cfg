CONSTANTS
    SECTOR_SIZE = 2
    Device <- MCDevice
    Junk = 15
    BYTE = 16
    WORD = 2
    BufSize = 12
    Files <- MCFiles
    Declarations <- MCDeclarations
    Mistakes <- MCMistakes
    Ints = {0, 1, 5, 255}
    Highs = {0, 3}
    Strings <- MCStrings
    Blobs <- MCBlobs
    Rooms = {1, 2, 4, 5, 7}
    MaxCalls = 2
SPECIFICATION Spec
INVARIANTS
    GeneratorFollowsGrammar
    CallTransparent
    CallsFailOnlyBySize
    ReadsDevice
CHECK_DEADLOCK FALSE
