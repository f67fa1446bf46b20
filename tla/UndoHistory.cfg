SPECIFICATION Spec
CONSTANTS
    WordSize = 256
    HalfSize = 16
    UShift = 4
    NumGpr = 8
    ByteSize = 2
    Bits = 8
    alu_execute <- MCExecute
    A0 = 4
    A1 = 5
    A2 = 6
    A7 = 7
    Inputs <- MCInputs
    Edits <- MCEdits
    Programs <- MCPrograms
    MaxRetired = 3
    Setups <- MCSetups
INVARIANT TypeOK
INVARIANT RetiredCovers
INVARIANT Connected
PROPERTY KeepsHistory
PROPERTY ExecutesIsa
CHECK_DEADLOCK FALSE
