SPECIFICATION FairSpec
CONSTANTS
    c1 = c1
    c2 = c2
    c3 = c3
    Malformed = Malformed
    Calls = {c1, c2, c3}
    MaxInbox = 3
    MaxFaults = 2
CHECK_DEADLOCK FALSE
INVARIANTS
    TypeOK
    PendingIsCleared
    CallNeverStuck
PROPERTIES
    ImplementsRpcCall
    DiesOnlyInWindow
    CallsEndRightly
