SPECIFICATION AllSpec
CONSTANTS
    Links = {l1}
    Hashes = {h1, h2}
    Requests = {r1, r2}
    LastTick = 2
    NoHash = NoHash
    Keep = Keep
    p1 = p1
    p2 = p2
    PageLinks = {p1, p2, p3}
    Found = {p2, p3}
    MaxListCalls = 2
    PageSize = 1
    Lists <- MCLists
    NoLink = NoLink
    NoData = NoData
CONSTRAINT Bounded
SYMMETRY Symmetry
CHECK_DEADLOCK FALSE
INVARIANTS
    ExpiredMeansExpired
    OldCookiesOpenNothing
    PageTypeOK
    PagerIsHonest
    ListIsCurrent
PROPERTIES
    StatusIsChosen
