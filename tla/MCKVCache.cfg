SPECIFICATION CacheSpec
CONSTANTS
    Owners = {s1}
    BranchIds = {b1, b2}
    Inputs <- MCInputs
    BlockSize = 2
    MaxTokens = 3
    BlockIds = {0, 1, 2, 3, 4, 5, 6, 7}
CHECK_DEADLOCK FALSE
INVARIANTS
    CacheTypeOK
    RefCountsExact
    RefsTile
PROPERTY
    ImplementsTokenStore
VIEW UpToBlockIds
