SPECIFICATION Spec
CONSTANTS
    i1 = i1
    i2 = i2
    Instances = {i1}
    ReadCount = 2
    MaxAttempts = 1
    MoveExpired = TRUE
    MaxEntries = 3
    MaxStarts = 1
    MaxFaults = 0
CHECK_DEADLOCK FALSE
PROPERTY BatchIsHandled
