SPECIFICATION FairSpec
CONSTANTS
    m1 = m1
    m2 = m2
    m3 = m3
    r1 = r1
    r2 = r2
    c1 = c1
    c2 = c2
    Any = Any
    Requests = {r1, r2}
    Controls = {c1}
    Models = {m1, m2, m3}
    Ask <- AskOther
    First = m1
    Weight <- Uneven
    Budget = 2
    Hangups = 1
    Overlaps = 0
    MaxCopies = 3
INVARIANTS
    NoServeUnlessOverlap
    CellMatchesSpec
    ReloadOnce
PROPERTIES
    BusyWarmStays
    BuildFits
    SettlesUnlessHungUp
CHECK_DEADLOCK FALSE
