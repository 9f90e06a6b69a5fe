SPECIFICATION AllSpec
CONSTANTS
    Links = {l1, l2}
    Clicks = {c1, c2}
    Moments <- MCMoments
    Zones <- MCZones
    Asked = {1, 2, 3}
    Given <- MCGiven
    MaxDays = 3
    MaxTop = 1
    NoTime = NoTime
    NoLink = NoLink
    a1 = a1
    Titles <- MCTitles
    Trim <- MCTrim
    Empty = ""
    NoTitle = NoTitle
    Aliases = {a1, a2}
    Instants = {0, 4}
    Expiries = {3}
    MaxCalls = 2
    MaxElsewhere = 1
    Begins <- MCBegins
    NoMoment = NoMoment
    NoDay = NoDay
    NoData = NoData
SYMMETRY Symmetry
ACTION_CONSTRAINT OneChange
CONSTRAINT Bounded
CHECK_DEADLOCK FALSE
INVARIANTS
    ChartIsComplete
    PartsAgree
    EditorTypeOK
    ShownLinkHolds
PROPERTIES
    FormsAreHonest
