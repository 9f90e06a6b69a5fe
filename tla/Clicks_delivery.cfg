SPECIFICATION FairSpec
CONSTANTS
    Links = {l1}
    Clicks = {c1}
    Workers = {w1, w2}
    LastDay = 1
    Attempts = 3
    MaxStalled = 1
    Queued = TRUE
    NoLink = NoLink
    NoClick = NoClick
CHECK_DEADLOCK FALSE
INVARIANTS
    AttemptsAreSpent
    RollupsAddUp
PROPERTIES
    EventsImplementLedger
    ClicksSettle
