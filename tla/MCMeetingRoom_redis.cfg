CONSTANTS
    h = h
    a = a
    h1 = h1
    a1 = a1
    a2 = a2
    Users = {h, a}
    Host = h
    Sockets = {h1, a1}
    UserOf <- OneEachUserOf
    NoSocket = NoSocket
    RedisEnabled = TRUE
SPECIFICATION SettlingSpec
INVARIANTS TypeOK EndedIsEmpty JoinedHasRouter NoJoinIsForgotten
PROPERTIES LockedRoomOnlyShrinks JoinsAreAnswered KeepsRouterContract OnlyLateLookupsStrand OnlyLateEntriesBreakAttendance
CHECK_DEADLOCK FALSE
