SPECIFICATION FairRuntimeSpec
CONSTANTS
    Sessions = {s1, s2}
    Segments = {g1, g2}
    NoSegment = NoSegment
    MaxRevision = 0
    Texts <- MCOneText
    Separator = 0
    GuardTokens = 1
    Faults = {}
    Kinds = {"search_decision", "user_query"}
    MaxTasks = 2
    AdmissionCap = 2
    MinTail = 4
    Overlap = FALSE
CHECK_DEADLOCK FALSE
INVARIANT
    LockMakesGateRedundant
PROPERTY
    TasksAreDecided
