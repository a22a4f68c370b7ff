SPECIFICATION FairSpec
CONSTANTS
    c1 = c1
    c2 = c2
    i1 = i1
    i2 = i2
    Calls = {c1, c2}
    Instances = {i1}
    Owner <- OneCaller
    InstanceId <- OwnIds
    Site <- SameSite
    ReadCount = 2
    MaxFaults = 1
CHECK_DEADLOCK FALSE
INVARIANT NobodyStuck
PROPERTY CallsReturn
