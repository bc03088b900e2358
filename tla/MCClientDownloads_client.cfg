CONSTANTS
    Tabs = {t1, t2}
    Tasks = {k1, k2}
    NoTask = NoTask
    Modes = {"chunked", "stream"}
    Window = 2
    MaxActs = 3
    MaxTrouble = 2
    Sizes <- Shrinking
    t1 = t1
    t2 = t2
    k1 = k1
    k2 = k2
SPECIFICATION FairSpec
INVARIANTS
    TypeOK
    WholeAudio
    NotWedged
PROPERTIES
    DownloadingEnds
CHECK_DEADLOCK FALSE
