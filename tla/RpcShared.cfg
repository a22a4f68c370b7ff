SPECIFICATION Spec
CONSTANTS
    c1 = c1
    c2 = c2
    i1 = i1
    i2 = i2
    Calls = {c1, c2}
    Instances = {i1, i2}
    Owner <- TwoCallers
    InstanceId <- DefaultIds
    Site <- SameSite
    ReadCount = 2
    MaxFaults = 1
CHECK_DEADLOCK FALSE
PROPERTY AckOnlyAfterDelivery ImplementsRpcCall
