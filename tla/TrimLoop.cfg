SPECIFICATION LoopSpec
CONSTANTS
    i1 = i1
    i2 = i2
    Instances = {i1, i2}
    MaxLen = 1
    Approx = TRUE
    MaxEntries = 4
    MaxFaults = 1
CHECK_DEADLOCK FALSE
INVARIANTS
    TypeOK
PROPERTIES
    LossIsBounded
    FlagFollowsGroup
