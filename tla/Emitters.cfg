SPECIFICATION FairSpec
CONSTANTS
    Senders = 2
    Capacity = 1
    MaxBatch = 2
    Attempts = 2
    Resends = 1
    MaxMessages = 3
    MaxFaults = 3
CHECK_DEADLOCK FALSE
INVARIANTS
    TypeOK
    OnlyFailuresHurt
    EndIsTold
    LoopsNeverHeld
PROPERTIES
    StreamsKeepOrder
    LoopsGoOnOrEnd
