SPECIFICATION ProgressSpec
CONSTANTS
    i1 = i1
    i2 = i2
    r1 = r1
    r2 = r2
    Nobody = Nobody
    Instances = {i1, i2}
    Requests = {r1}
    Asks <- OneRead
    FixedIds = FALSE
    MaxCreates = 1
    Crashing = {i1}
    MaxRuns = 2
PROPERTY RequestsAreAnswered
CHECK_DEADLOCK FALSE
