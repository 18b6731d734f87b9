SPECIFICATION Spec
CONSTANTS
    a = a
    b = b
    NoUser = NoUser
    Users = {a, b}
    Sends <- SpeakerAndViewer
    MaxRequests = 2
    MaxStopped = 1
INVARIANTS
    TypeOK
    OffMeansOff
    LiveIsKnown
    TilesAreLive
    PresentersHaveScreens
PROPERTY OnlyStaleClosesHide
CHECK_DEADLOCK FALSE
