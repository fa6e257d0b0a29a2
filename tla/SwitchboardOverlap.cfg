SPECIFICATION Spec
CONSTANTS
    m1 = m1
    m2 = m2
    m3 = m3
    r1 = r1
    r2 = r2
    c1 = c1
    c2 = c2
    Any = Any
    Requests = {r2}
    Controls = {c1, c2}
    Models = {m1, m2, m3}
    Ask <- AskFirst
    First = m1
    Weight <- Uneven
    Budget = 2
    Hangups = 0
    Overlaps = 1
    MaxCopies = 3
INVARIANT
    NoServeMidSwap
CHECK_DEADLOCK FALSE
