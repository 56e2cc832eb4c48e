SPECIFICATION Spec
CONSTANTS
    a = a
    b = b
    c = c
    ua = ua
    ub = ub
    uc = uc
    None = None
    Users = {ua, ub, uc}
    Nodes = {a, b, c}
    Handlers = {h1}
    Kinds = {"create", "remove"}
    Spouses = {uc}
    NewUsers = {}
    Orders = {1}
    OrderMin = 0
    OrderMax = 3
    SchemaComplete = TRUE
    UniqueIndexes = FALSE
    ImportedNodes <- NoNodes
    ImportedCouples <- NoCouples
\* Requests may all be at rest with the tables full: nothing is left to do.
CHECK_DEADLOCK FALSE
INVARIANTS
    OneLiveRoot
    OnlyChild
    ViewsAgree
