CONSTANTS
    Members <- TwoMembers
    Others = {3}
    Batch <- OneToCome
    Published <- OneUndated
    Known = {1, 2, 3}
    Ours <- OneOfEach
    Theirs <- SomeOfThem
    MaxOps = 2
    MaxForeign = 1
    MaxTrouble = 1
SPECIFICATION FairSpec
INVARIANTS
    Replays
    Numbered
PROPERTIES
    Reconciles
CHECK_DEADLOCK FALSE
