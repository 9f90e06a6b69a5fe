SPECIFICATION Spec
CONSTANTS
    Tabs = {t1}
    Logins = {c1, c2}
    Secrets = {x1}
    Codes = {k1}
    NoSecret = NoSecret
    NoCode = NoCode
SYMMETRY Symmetry
PROPERTIES
    CodesAreSpentOnce
