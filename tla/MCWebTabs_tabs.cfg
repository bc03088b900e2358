CONSTANTS
    Tabs = {t1, t2}
    Episodes = {ep}
    Podcasts = {pod}
    NoTab = NoTab
    MaxOps = 2
    MaxHead = 2
    MaxTrouble = 2
    t1 = t1
    t2 = t2
    ep = ep
    pod = pod
SPECIFICATION MCSpec
SYMMETRY TabSymmetry
INVARIANTS
    TypeOK
    StoreFresh
    TombstonesHold
    NoLostOperation
    QueuedShown
PROPERTIES
    OneOutbox
