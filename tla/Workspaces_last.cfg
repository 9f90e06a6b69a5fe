SPECIFICATION Spec
CONSTANTS
    Users = {u1}
    WorkspaceIds = {w1, w2}
    Links = {}
    Requests = {r1, r2}
    NoUser = NoUser
    NoWorkspace = NoWorkspace
SYMMETRY Symmetry
PROPERTIES
    LastWorkspaceStays
