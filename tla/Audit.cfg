SPECIFICATION Spec
CONSTANTS
    s1 = s1
    s2 = s2
    u1 = u1
    u2 = u2
    r1 = r1
    r2 = r2
    NoUser = NoUser
    NoSession = NoSession
    Sessions = {s1, s2}
    Users = {u1, u2}
    Rows = {r1, r2}
    MaxChanges = 3
CHECK_DEADLOCK FALSE
SYMMETRY Interchangeable
INVARIANTS
    TypeOK
    AuditTellsHistory
    Attributed
    DeletesPrevail
