CONSTANTS
    Episodes = {1, 2}
    Calls = {c1, c2}
    MaxAttempts = 2
    BatchMax = 1
    Keep = 1
    SlowDownloads = TRUE
    Removals = TRUE
    MaxAsked = 2
    MaxTrouble = 1
    c1 = c1
    c2 = c2
SPECIFICATION FairSpec
INVARIANTS
    TypeOK
    SoleWriter
    BudgetSpent
    CapHolds
PROPERTIES
    Settles
