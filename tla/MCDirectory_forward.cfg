SPECIFICATION Spec
CONSTANTS
    i1 = i1
    i2 = i2
    r1 = r1
    r2 = r2
    Nobody = Nobody
    Instances = {i1, i2}
    Requests = {r1}
    Asks <- OneRead
    FixedIds = TRUE
    MaxCreates = 1
    Crashing = {}
    MaxRuns = 1
INVARIANT ForwardedAreServed
CHECK_DEADLOCK FALSE
