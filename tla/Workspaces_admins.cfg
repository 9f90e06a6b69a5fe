SPECIFICATION Spec
CONSTANTS
    Users = {u1, u2}
    WorkspaceIds = {w1}
    Links = {}
    Requests = {r1}
    NoUser = NoUser
    NoWorkspace = NoWorkspace
SYMMETRY Symmetry
PROPERTIES
    AdminsKeepTheirRole
