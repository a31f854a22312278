SPECIFICATION RuntimeSpec
CONSTANTS
    Sessions = {s1}
    Segments = {g1, g2}
    NoSegment = NoSegment
    MaxRevision = 1
    Texts <- MCTexts
    Separator = 0
    GuardTokens = 1
    Faults = {"publish"}
    Kinds = {"search_decision", "user_query"}
    MaxTasks = 2
    AdmissionCap = 2
    MinTail = 2
    Overlap = TRUE
CHECK_DEADLOCK FALSE
INVARIANTS
    RuntimeTypeOK
    ResidentIsPrefix
    HeldTokensAreCurrent
    SpineTasksSurvive
    EngineHoldsResident
    RunningIsInFlight
PROPERTIES
    OutputIsFresh
    UpdatesSpareCommitted
SYMMETRY SegmentSymmetry
