SPECIFICATION RuntimeSpec
CONSTANTS
    Sessions = {s1}
    Segments = {g1, g2}
    NoSegment = NoSegment
    MaxRevision = 1
    Texts <- MCTexts
    Separator = 0
    GuardTokens = 1
    Faults = {"unreadable", "engine"}
    Kinds = {"search_decision", "user_query"}
    MaxTasks = 2
    AdmissionCap = 1
    MinTail = 2
    Overlap = TRUE
CHECK_DEADLOCK FALSE
INVARIANTS
    TablesAgree
    NothingElseLeaks
PROPERTIES
    DecidedForGood
    EventClearsStaleBranches
SYMMETRY SegmentSymmetry
