CONSTANTS
    Podcasts = {1}
    Episodes = {2}
    Playlists = {4}
    MaxHead = 1
    MaxEpoch = 0
    Devices = {phone}
    Ops = {drop, add}
    Budget = 2
    PageLimit = 1
    ListSize = 1
    MaxTries = 2
    LateRequests = FALSE
    MaxTrouble = 1
    NoRow = NoRow
    save = save
    again = again
    played = played
    drop = drop
    add = add
    remove = remove
    PodcastOf <- OwnedByOne
    OpHome <- OneDevice
    OpKind <- Kind
    OpTarget <- Target
    OpMember <- Member
SPECIFICATION FairSpec
PROPERTIES
    LocalFirst
    Settles
    Converges
    InOrder
