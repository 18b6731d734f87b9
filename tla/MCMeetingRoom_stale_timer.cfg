CONSTANTS
    h = h
    a = a
    h1 = h1
    a1 = a1
    a2 = a2
    Users = {h, a}
    Host = h
    Sockets = {h1, a1, a2}
    UserOf <- GuestUserOf
    NoSocket = NoSocket
    RedisEnabled = FALSE
SPECIFICATION Spec
PROPERTY TimersSpareTheConnected
CHECK_DEADLOCK FALSE
