SPECIFICATION AllSpec
CONSTANTS
    A = A
    B = B
    C = C
    H = H
    ta = ta
    tb = tb
    tc = tc
    K = K
    d1 = d1
    d2 = d2
    d3 = d3
    Workspaces = {A, B}
    Hosts = {H, K}
    Ids = {d1, d2, d3}
    Calls = {c1, c2}
    MaxTime = 3
    Initially <- MCInitially
    NoId = NoId
    NoHost = NoHost
    NoWorkspace = NoWorkspace
    Spaces = {A, B, C}
    Titles = {ta, tb, tc}
    Waits = {a1, a2}
    BeginsWith <- MCBeginsWith
    TitleOf <- MCTitleOf
    MaxEvents = 2
    NoSpace = NoSpace
    NoTitle = NoTitle
    NoData = NoData
SYMMETRY Symmetry
ACTION_CONSTRAINT VisitAtTheEnd
CONSTRAINT Bounded
CHECK_DEADLOCK FALSE
INVARIANTS
    VerifiedMeansProven
    NothingCrossesOver
    ToldStaysTold
    SelectionHolds
    SpacesShownHold
PROPERTIES
    HostsStayHome
    HostsImplementRegistry
