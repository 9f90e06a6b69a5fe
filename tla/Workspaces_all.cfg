SPECIFICATION Spec
CONSTANTS
    Users = {u1, u2, u3}
    WorkspaceIds = {w1, w2}
    Links = {l1}
    Requests = {r1, r2}
    NoUser = NoUser
    NoWorkspace = NoWorkspace
SYMMETRY Symmetry
CONSTRAINT OneUserOrOneWorkspace
PROPERTIES
    RemovalsSpare
    RolesDecide
    LinkWritersBelong
