CONSTANTS
    Podcasts = {news, talk, chat}
    Runs = {r1, r2}
    MaxTrouble = 1
    MaxJobs = 1
    MaxConcurrent = 1
    Kinds = {"job"}
    LastJob = 1
    NoGuid = NoGuid
    NoRun = NoRun
    news = news
    talk = talk
    chat = chat
    r1 = r1
    r2 = r2
    Editions <- OneFeedGrows
    MaxRuns <- FewerWithMore
SPECIFICATION LiveSpec
PROPERTIES
    JobsEnd
    Arrives
CHECK_DEADLOCK FALSE
