SPECIFICATION Spec
CONSTANTS
    WordSize = 256
    HalfSize = 16
    UShift = 4
    NumGpr = 4
    ByteSize = 2
    Bits = 8
    alu_execute <- MCExecute
    Setups <- MCJalr
    InitialMemory <- MCMemory
    MaxCycles = 18
PROPERTY RefinesIsa
CHECK_DEADLOCK FALSE
