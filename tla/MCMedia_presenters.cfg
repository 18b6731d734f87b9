SPECIFICATION Spec
CONSTANTS
    a = a
    b = b
    NoUser = NoUser
    Users = {a, b}
    Sends <- TwoScreens
    MaxRequests = 2
    MaxStopped = 1
INVARIANT OnePresenter
CHECK_DEADLOCK FALSE
