SPECIFICATION Spec
CONSTANTS
    s1 = s1
    s2 = s2
    s3 = s3
    u1 = u1
    u2 = u2
    address = address
    Sockets = {s1, s2, s3}
    UserOf <- TwoUsers
    AddressOf <- OneAddress
    Scenarios <- AllScenarios
    MaxHits <- Limits
    Window <- Windows
    HistoryLimit = 1
    MaxTime = 2
    MaxMessages = 2
INVARIANTS
    TypeOK
    NeverOverLimit
    RefusedOnlyAtLimit
    ClosedAreForgotten
    HistoryIsRecent
    NoMessageIsMissed
CHECK_DEADLOCK FALSE
