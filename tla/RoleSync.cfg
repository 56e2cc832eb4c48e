\* Two overlapping updates of one user, three roles.
SPECIFICATION Spec
CONSTANTS
    None = None
    Users = {u1}
    Roles = {r1, r2, r3}
    Handlers = {h1, h2}
SYMMETRY Symmetry
INVARIANT TypeOK
PROPERTIES
    OnlyOverlapsMix
    LockedUpdateReplaces
