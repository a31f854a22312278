SPECIFICATION Spec
CONSTANTS
    NoSegment = NoSegment
    Sessions = {s1}
    Segments = {g1, g2}
    MaxRevision = 2
    Texts <- MCTexts
    Separator <- MCSeparator
    GuardTokens = 1
    Faults = {}
INVARIANTS
    TypeOK
    DiffSound
    TailOwnerIsOpen
PROPERTIES
    SpineOnlyGrows
    CommitsOnce
    VersionNamesTranscript
