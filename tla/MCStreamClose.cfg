SPECIFICATION StreamSpec
CONSTANTS
    MaxPending = 2
    MaxUpdates = 3
CHECK_DEADLOCK FALSE
PROPERTY
    ClosedEnds
