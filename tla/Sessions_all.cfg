SPECIFICATION Spec
CONSTANTS
    Users = {u1}
    Passwords = {p1, p2}
    SessionIds = {s1, s2, s3}
    TokenIds = {t1, t2}
    Requests = {r1, r2}
    TwoFactorUsers = {u1}
    NoUser = NoUser
    NoPassword = NoPassword
    NoSession = NoSession
    NoToken = NoToken
SYMMETRY Symmetry
CONSTRAINT OneFeature
INVARIANTS
    CookiesAreSpentOnce
    SuspensionEndsSessions
    SessionsMatchPassword
PROPERTIES
    SpentLinksAreInert
    StepsImplementStore
