CONSTANTS
    a = a
    b = b
    Episodes = {a, b}
    NoEpisode = NoEpisode
    Served = {a}
    Queue <- TwoInARow
    Preferences = {"DownloadOnly", "StreamFirstAndDownload", "StreamFallback", "StreamOnly"}
    AutoAdvance = TRUE
    SleepByDefault = TRUE
    Length = 2
    Saved <- OneBegun
    Shelves <- EitherOne
    Targets = {2}
    LoadingStallTicks = 2
    PreparingStallTicks = 2
    LocalRetries = 1
    MaxAsked <- Asks
    MaxTrouble = 1
    MaxQueue = 1
SPECIFICATION FairSpec
INVARIANTS
    TypeOK
    ShownIsHeard
PROPERTIES
    LatestWins
    OneVerdict
    HonestCursor
    Starts
CHECK_DEADLOCK FALSE
