CONSTANTS
    h = h
    a = a
    h1 = h1
    a1 = a1
    a2 = a2
    Users = {h, a}
    Host = h
    Sockets = {h1, a1, a2}
    UserOf <- GuestUserOf
    NoSocket = NoSocket
    RedisEnabled = FALSE
SPECIFICATION TimelyViewSpec
INVARIANTS SeatHasTimer WaitersAreConnected RosterIsExact SeatedHearBroadcasts
PROPERTIES DroppedSeatsResolve KeepsAttendance OnlyKicksLeaveTimers
CHECK_DEADLOCK FALSE
