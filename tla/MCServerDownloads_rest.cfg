CONSTANTS
    Episodes = {1}
    Calls = {c1, c2}
    MaxAttempts = 2
    BatchMax = 1
    Keep = 0
    SlowDownloads = FALSE
    Removals = TRUE
    MaxAsked = 4
    MaxTrouble = 0
    c1 = c1
    c2 = c2
SPECIFICATION Spec
SYMMETRY CallSymmetry
INVARIANTS
    CopiesAtRest
