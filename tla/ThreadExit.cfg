SPECIFICATION FairSpec
CONSTANTS
    Limit = 2
    MaxInput = 2
PROPERTY ExitEnds
CHECK_DEADLOCK FALSE
