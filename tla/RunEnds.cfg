SPECIFICATION FairSpec
CONSTANTS
    g1 = g1
    l1 = l1
    p1 = p1
    Goroutines = {g1}
    Loops = {l1}
    Probes = {p1}
    MayHang = TRUE
    MainMayHang = TRUE
    StopMayFail = TRUE
    MaxSignals = 2
CHECK_DEADLOCK FALSE
INVARIANTS
    TypeOK
    GracefulEnd
    DoneMeansAllDone
    NeverStuck
PROPERTY
    TroubleEndsProcess
