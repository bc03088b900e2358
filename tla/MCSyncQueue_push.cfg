CONSTANTS
    Podcasts = {1}
    Episodes = {2}
    Playlists = {4}
    MaxHead = 0
    MaxEpoch = 1
    Devices = {phone}
    Ops = {save, played, drop}
    Budget = 1
    PageLimit = 1
    ListSize = 1
    MaxTries = 2
    LateRequests = TRUE
    MaxTrouble = 1
    NoRow = NoRow
    save = save
    again = again
    played = played
    drop = drop
    add = add
    remove = remove
    PodcastOf <- OwnedByOne
    OpHome <- OneDevice
    OpKind <- Kind
    OpTarget <- Target
    OpMember <- Member
SPECIFICATION Spec
INVARIANTS
    TypeOK
    NoLostOperation
    HonestReceipts
