SPECIFICATION FairSpec
CONSTANTS
    Tabs = {t1}
    Calls = {q1, q2}
    Rows = {s1, s2, s3, s4}
    NoTab = NoTab
    NoRow = NoRow
INVARIANTS
    JarLags
    SignOutSticks
PROPERTIES
    StrandedTabsLeave
    CallsSettle
