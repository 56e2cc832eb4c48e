SPECIFICATION Spec
CONSTANTS
    a = a
    b = b
    c = c
    ua = ua
    ub = ub
    uc = uc
    None = None
    Users = {ua, ub, uc}
    Nodes = {a, b, c}
    Handlers = {h1, h2}
    Kinds = {"create", "attach", "remove"}
    Spouses = {}
    NewUsers = {}
    Orders = {1}
    OrderMin = 0
    OrderMax = 2
    SchemaComplete = TRUE
    UniqueIndexes = FALSE
    ImportedNodes <- NoNodes
    ImportedCouples <- NoCouples
SYMMETRY FullSymmetry
\* Requests may all be at rest with the tables full: nothing is left to do.
CHECK_DEADLOCK FALSE
INVARIANTS
    TypeOK
    LiveNodeHasCouple
    Acyclic
PROPERTY CountMovesByOne
