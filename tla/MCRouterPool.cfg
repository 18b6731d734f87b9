SPECIFICATION AnsweringSpec
CONSTANTS
    m1 = m1
    m2 = m2
    Meetings = {m1, m2}
    NumWorkers = 2
    MaxPid = 3
    MaxRouter = 3
INVARIANTS
    TypeOK
    OneRouterPerMeeting
    RoomsOutliveOnlyWorkers
    CountsAreExact
    RoutersAreAccountedFor
PROPERTY KeepsRouterContract
CHECK_DEADLOCK FALSE
