SPECIFICATION RuntimeSpec
CONSTANTS
    Sessions = {s1}
    Segments = {g1, g2}
    NoSegment = NoSegment
    MaxRevision = 1
    Texts <- MCTexts
    Separator = 0
    GuardTokens = 1
    Faults = {"unreadable"}
    Kinds = {"search_decision", "user_query"}
    MaxTasks = 1
    AdmissionCap = 2
    MinTail = 2
    Overlap = TRUE
CHECK_DEADLOCK FALSE
INVARIANT
    NeverWedged
