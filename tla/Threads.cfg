SPECIFICATION FairSpec
CONSTANTS
    Limit = 2
    MaxInput = 2
INVARIANT TypeOK
INVARIANT ThreadInv
PROPERTY JoinEnds
CHECK_DEADLOCK FALSE
