SPECIFICATION Spec
CONSTANTS
    i1 = i1
    i2 = i2
    Instances = {i1, i2}
    ReadCount = 2
    MaxAttempts = 1
    MoveExpired = TRUE
    MaxEntries = 2
    MaxStarts = 2
    MaxFaults = 2
CHECK_DEADLOCK FALSE
SYMMETRY Replicas
INVARIANT TypeOK HandledAtMostOnce DeliveredStaysPending
PROPERTY LeavesForCause
