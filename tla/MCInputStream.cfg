SPECIFICATION BridgeSpec
CONSTANTS
    Ids = {session, branch}
    MaxPending = 1
    MaxUpdates = 3
    MaxStreams = 3
CHECK_DEADLOCK FALSE
INVARIANTS
    BridgeTypeOK
    OnlyWaitersAreOvertaken
    UnlistedIsClosed
    LivesAreSeparate
PROPERTY
    PublishedArrives
