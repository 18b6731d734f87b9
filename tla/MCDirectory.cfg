SPECIFICATION ProgressSpec
CONSTANTS
    i1 = i1
    i2 = i2
    r1 = r1
    r2 = r2
    Nobody = Nobody
    Instances = {i1, i2}
    Requests = {r1, r2}
    Asks <- JoinAndAny
    FixedIds = TRUE
    MaxCreates = 2
    Crashing = {i1}
    MaxRuns = 2
INVARIANTS TypeOK LiveMeetingIsListed LiveMeetingIsFound NoRequestIsForgotten
PROPERTIES RequestsAreAnswered HopsLeadHome
CHECK_DEADLOCK FALSE
