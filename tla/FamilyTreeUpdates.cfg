SPECIFICATION Spec
CONSTANTS
    a = a
    b = b
    c = c
    ua = ua
    ub = ub
    uc = uc
    None = None
    Users = {ua, ub}
    Nodes = {a, b}
    Handlers = {h1, h2}
    Kinds = {"create", "update", "remove"}
    Spouses = {}
    NewUsers = {ub}
    Orders = {}
    OrderMin = 1
    OrderMax = 2
    SchemaComplete = TRUE
    UniqueIndexes = TRUE
    ImportedNodes <- RootNodes
    ImportedCouples <- RootCouples
SYMMETRY Symmetry
\* Requests may all be at rest with the tables full: nothing is left to do.
CHECK_DEADLOCK FALSE
INVARIANT KeysAreUnique
PROPERTY RemovedStaysRemoved
