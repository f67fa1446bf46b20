SPECIFICATION FairSpec
CONSTANTS
    WordSize = 256
    HalfSize = 16
    UShift = 4
    NumGpr = 4
    ByteSize = 2
    Bits = 8
    alu_execute <- MCExecute
    Setups <- MCPipelineSetups
    InitialMemory <- MCMemory
    MaxCycles = 24
INVARIANT TypeOK
INVARIANT CyclesAccounted
INVARIANT PipelineSafe
PROPERTY RefinesIsa
PROPERTY StallsOnce
PROPERTY PredictsLastOutcome
PROPERTY Finishes
CHECK_DEADLOCK FALSE
