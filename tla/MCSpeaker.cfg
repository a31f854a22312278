SPECIFICATION ServiceSpec
CONSTANTS
    ann = ann
    ben = ben
    Voices = {ann, ben}
    Sessions = {1, 2}
    MaxBatch = 2
    MaxWait = 1
    Slack = 0
    PerSession = 2
    Chunks <- MCChunks
    WorkerLists <- MCWorkerLists
    Faults = {"embedding"}
    MaxChunks = 3
    MaxTime = 2
CHECK_DEADLOCK FALSE
INVARIANTS
    SpeakerTypeOK
    CountsAreExact
    AnsweredOnce
    IdentityContinuity
    ExportedSurvives
    MixedByIdOnly
PROPERTIES
    UrgentLeaves
    EverythingLeaves
