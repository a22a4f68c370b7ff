SPECIFICATION Spec
CONSTANTS
    c1 = c1
    c2 = c2
    i1 = i1
    i2 = i2
    Calls = {c1, c2}
    Instances = {i1}
    Owner <- OneCaller
    InstanceId <- OwnIds
    Site <- SameSite
    ReadCount = 2
    MaxFaults = 2
CHECK_DEADLOCK FALSE
SYMMETRY SameCalls
INVARIANT TypeOK ChannelNeverBlocks OnlyFailuresShow ListenerIsThere
