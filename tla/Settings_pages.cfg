SPECIFICATION AllSpec
CONSTANTS
    Tabs = {t1, t2}
    Logins = {c1}
    Secrets = {x1, x2}
    Codes = {b1, b2}
    NoSecret = NoSecret
    NoCode = NoCode
    A = A
    B = B
    me = me
    p1 = p1
    k1 = k1
    j1 = j1
    j2 = j2
    a1 = a1
    a2 = a2
    Teams = {A, B}
    People = {me, p1}
    Self = me
    ApiKeys = {k1, k2}
    Jobs = {j1, j2}
    FirstRanks <- MCFirstRanks
    FirstKeys <- MCFirstKeys
    MaxOthers = 1
    NoTeam = NoTeam
    Nobody = Nobody
    NoKey = NoKey
    NoData = NoData
    u1 = u1
    Accounts <- MCAccounts
    Admin = me
    Configured = {u1}
    FirstAdmins = {me}
    AdminCalls = {a1, a2}
    RowsPerPage = 1
    MaxElsewhere = 1
    NoAccount = NoAccount
SYMMETRY Symmetry
CONSTRAINT Bounded
CHECK_DEADLOCK FALSE
INVARIANTS
    StatusIsBacked
    ShownStatusHolds
    PanelsHold
    AdminsStayEnabled
    UsersHold
PROPERTIES
    CodesDecide
