SPECIFICATION Spec
CONSTANTS
    WordSize = 4
    HalfSize = 16
    UShift = 4096
    NumGpr = 32
    ByteSize = 2
    Bits = 2
    alu_execute <- MCExecute
    Labels = {"a", "b", "d", "e"}
    Setups <- MCSetups
    BranchReach = 16
    JumpReach = 20
    LiReach = 2147483647
    DataStart = 268435456
INVARIANT TypeOK
INVARIANT Linked
INVARIANT Decoded
INVARIANT PseudosReach
INVARIANT BreakpointLines
CHECK_DEADLOCK FALSE
