SPECIFICATION CommandSpec
CONSTANTS
    WordSize = 256
    HalfSize = 16
    UShift = 4
    NumGpr = 4
    ByteSize = 2
    Bits = 8
    alu_execute <- MCExecute
    Setups <- MCCommandSetups
    InitialMemory <- MCMemory
    MaxCycles = 12
    Programs <- MCLoads
    Limit = 8
    Careful = TRUE
PROPERTY RefinesSession
CHECK_DEADLOCK FALSE
