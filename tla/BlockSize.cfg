SPECIFICATION Spec
CONSTANTS
    MemorySize = 6
    BlockSize = 2
    Widths = {2, 5}
    MaxWidth = 5
    ByteSize = 2
    UIntSize = 8
    BlockSizes <- MCAnyBlockSizes
    Values <- MCValues
INVARIANT NeverOutOfBounds
