SPECIFICATION FairSpec
CONSTANTS
    i1 = i1
    i2 = i2
    Instances = {i1}
    ReadCount = 2
    MaxAttempts = 2
    MoveExpired = TRUE
    MaxEntries = 3
    MaxStarts = 2
    MaxFaults = 2
CHECK_DEADLOCK FALSE
PROPERTY HandledInOrder LiveLoopCatchesUp
